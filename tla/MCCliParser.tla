---------------------------- MODULE MCCliParser ----------------------------
(***************************************************************************)
(* Symbols for CliParserCheck: the verbs in some case, two separators, a   *)
(* lower-case and an upper-case word.                                      *)
(***************************************************************************)
EXTENDS CliParserCheck

Tab == "tab"
Blank == {Space, Tab}
MCUpper ==
  [s \in {"set", "Get", "del", "delete", "clear", "clear-persistence",
          "clear_persistence", "help", "exit", "quit", "persistence", "k", "V",
          "SET"} \cup Blank |->
     CASE s = "set" -> "SET" [] s = "Get" -> "GET" [] s = "del" -> "DEL"
       [] s = "delete" -> "DELETE" [] s = "clear" -> "CLEAR"
       [] s = "clear-persistence" -> "CLEAR-PERSISTENCE"
       [] s = "clear_persistence" -> "CLEAR_PERSISTENCE"
       [] s = "help" -> "HELP" [] s = "exit" -> "EXIT" [] s = "quit" -> "QUIT"
       [] s = "persistence" -> "PERSISTENCE" [] s = "k" -> "K"
       [] OTHER -> s]

AnySymbol == DOMAIN MCUpper
LaterSymbols == Blank \cup {"persistence", "k", "V"}
=============================================================================
