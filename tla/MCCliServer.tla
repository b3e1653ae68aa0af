---------------------------- MODULE MCCliServer ----------------------------
(***************************************************************************)
(* A vocabulary for sessions: two keys, a value of one word and one of two *)
(* words, a record that is too long for the log, and lines for every       *)
(* command and for an error.                                               *)
(***************************************************************************)
EXTENDS CliServer, KVStoreRefinement

Blank == {Space, "tab"}
MCUpper == [s \in {"set", "SET", "get", "del", "DELETE", "clear",
                   "clear-persistence", "persistence", "help", "exit", "a",
                   "b", "v", "w"} \cup Blank |->
              CASE s = "set" -> "SET" [] s = "get" -> "GET"
                [] s = "del" -> "DEL" [] s = "clear" -> "CLEAR"
                [] s = "clear-persistence" -> "CLEAR-PERSISTENCE"
                [] s = "persistence" -> "PERSISTENCE" [] s = "help" -> "HELP"
                [] s = "exit" -> "EXIT" [] OTHER -> s]

Keys == {<<"a">>, <<"b">>}
MCValues == {<<"v">>, <<"v", Space, "w">>}
LongRecords == {SetRecord(<<"b">>, <<"v", Space, "w">>)}
MCLines ==
  {<<"set", " ", "a", " ", "v">>, <<" ", "SET", " ", "a", "tab", "v", " ", " ", "w">>,
   <<"set", " ", "b", " ", "v", " ">>, <<"set", " ", "b", " ", "v", " ", "w">>,
   <<"get", " ", "a">>, <<"get", " ", "b">>, <<"del", " ", "a">>, <<"DELETE", "tab", "b">>,
   <<"clear", " ", "persistence">>, <<"clear">>, <<"help">>, <<"exit">>}
=============================================================================
