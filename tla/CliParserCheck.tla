-------------------------- MODULE CliParserCheck --------------------------
(***************************************************************************)
(* Every line up to a length, typed symbol by symbol, and the symbols that *)
(* tell the parser's cases apart.  The first symbol may be any verb, the   *)
(* later ones are separators and a few words.                              *)
(***************************************************************************)
EXTENDS CliParser, FiniteSets

CONSTANTS
  First, Later, \* the symbols that a line may begin and go on with
  MaxLine       \* bound: length of the longest line

VARIABLE line

Init == line = <<>>

\* One more symbol is typed.
Type ==
  /\ Len(line) < MaxLine
  /\ \E symbol \in IF line = <<>> THEN First ELSE Later :
       line' = Append(line, symbol)

Spec == Init /\ [][Type]_line

\* The words are the maximal stretches without separators, in their order: the
\* n-th begins where n of them have begun.
Starts(string) == {i \in Solid(string) : i - 1 \notin Solid(string)}
Begun(string, i) == Cardinality({j \in Starts(string) : j <= i})
Word(string, i) ==
  SubSeq(string, i, Max({j \in i..Len(string) : i..j \subseteq Solid(string)}))
Words(string) ==
  [n \in 1..Cardinality(Starts(string)) |->
     Word(string, CHOOSE i \in Starts(string) : Begun(string, i) = n)]

\* The tokens are the words of the line, whatever separators surround them
\* (SplitWhitespaceView's two scans, with and without Trim before them).
TokensAreTheWords ==
  SplitWhitespaceView(line) = Words(line)
    /\ SplitWhitespaceView(Trim(line)) = Words(line)

\* The line as it would be typed with single spaces.
Plain(string) ==
  LET words == Words(string)
      upTo[n \in 0..Len(words)] ==
        IF n = 0 THEN <<>>
        ELSE IF n = 1 THEN words[1]
        ELSE upTo[n - 1] \o <<Space>> \o words[n]
  IN  upTo[Len(words)]

\* A command keeps every word behind its verb in the case it was typed: the
\* key, and for SET everything behind the key, with single spaces (cli_parser.cpp
\* on JoinTokens, "everything after the key is preserved as the value with single
\* spaces between parsed tokens").
NoWordIsLost ==
  LET command == Parse(line)
      verb == Words(line)[1]
  IN  /\ command.type = "kSet" =>
           Plain(line) = verb \o <<Space>> \o command.key \o <<Space>> \o command.value
      /\ command.type \in {"kGet", "kDel"} => Words(line) = <<verb, command.key>>

\* Only the words of a line matter: typed with single spaces it is the same
\* command or the same error (Trim and SplitWhitespaceView treat separators of
\* every kind and number alike).
SpacingDoesNotMatter == Parse(Plain(line)) = Parse(line)
=============================================================================
