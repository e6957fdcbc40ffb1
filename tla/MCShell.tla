------------------------------- MODULE MCShell -------------------------------
(* Model values for Shell: /d holds the file a and is the home directory,   *)
(* /e is an empty directory, /b a file.                                     *)
EXTENDS Shell

MCText == {"l1", "l2", "listing"}
Verbs == {"touch", "mkdir", "rm", "rmdir", "cat", "ls", "find", "stat", "cd", "head"}
Plain == Verbs \cup Movers \cup
  {"a", "b", "d", "e", "-r", "-rf", "-f", "-p", "-n", "1", "l1", "X=/e", "PWD=/e", "X", "PWD",
   ">", ">>", "<", "tail", "grep", "pwd", "env", "id", "bash", "export", "unset", "$(id)"}
MCName == Plain
MCWord == Plain \cup {".", "..", "../b", "../e", "../../d", "/e", "/b", "/d", "/e/a", "/", "$X"}
MCSpelling ==
  [w \in MCWord |->
    CASE w = "../b"    -> [abs |-> FALSE, parts |-> <<"..", "b">>]
      [] w = "../e"    -> [abs |-> FALSE, parts |-> <<"..", "e">>]
      [] w = "../../d" -> [abs |-> FALSE, parts |-> <<"..", "..", "d">>]
      [] w = "/e"      -> Abs(<<"e">>)
      [] w = "/b"      -> Abs(<<"b">>)
      [] w = "/d"      -> Abs(<<"d">>)
      [] w = "/e/a"    -> Abs(<<"e", "a">>)
      [] w = "/"       -> Abs(<<>>)
      [] w = "$X"      -> Empty
      [] OTHER         -> [abs |-> FALSE, parts |-> <<w>>]]
MCAssigned == [w \in {"X=/e", "PWD=/e"} |->
  [name |-> IF w = "X=/e" THEN "X" ELSE "PWD", value |-> Abs(<<"e">>)]]
MCReferred == [w \in {"$X"} |-> "X"]
MCNumber == [w \in {"1"} |-> 1]
MCTree == [p \in {<<>>, <<"d">>, <<"d", "a">>, <<"e">>, <<"b">>} |->
  CASE p = <<"d", "a">> -> File(<<"l1">>) [] p = <<"b">> -> File(<<"l1", "l2">>) [] OTHER -> Dir]
MCHome == <<"d">>

\* One command; two, joined in every way; three that only return a code.
One == {<<v, w>> : v \in Verbs, w \in {"a", "../b", "/e", "..", "$X", "/"}}
Two == {<<v, p, q>> : v \in Movers, p \in {"a", "../b", "/d", "/e"}, q \in {"a", ".", "../b", "/e", "/e/a"}}
More == {<<"rm", "-rf", "/d">>, <<"rm", "-r", "/d", "/b">>, <<"rm", "-f", "b", "a">>,
         <<"rm", "a", "b">>, <<"rmdir", "/e", "/d">>, <<"mkdir", "-p", "b">>, <<"mv", "/e", "/d", "-r">>,
         <<"cp", "/d", "/e/a", "-r">>, <<"cp", "-r", "/d", "/e">>, <<"cp", "a">>, <<"cp", "/d", "b", "-r">>,
         <<"cat">>, <<"cat", "a", "b", "../b">>, <<"tail", "-n", "1", "/b">>, <<"head", "-n", "a">>,
         <<"grep", "l1", "/b", "b">>, <<"grep">>, <<"ls">>, <<"cd">>, <<"pwd">>, <<"env">>,
         <<"id">>, <<"bash">>, <<"export", "X=/e">>, <<"export", "PWD=/e">>, <<"unset", "X", "PWD">>}
Redirected == {c \o r : c \in {<<"cat", "/b">>, <<"rm", "/b">>, <<>>},
                        r \in {<<">", "b">>, <<">>", "a">>, <<"<", "a">>, <<"<", "b", ">", "a">>,
                               <<">", "b", ">", "a">>, <<">", "/e">>, <<">">>}}
Code == {<<"pwd">>, <<"bash">>}
Joined == {c \o <<o>> \o d \o <<p>> \o e :
             c \in Code, d \in Code, e \in Code \cup {<<>>}, o \in ListOps, p \in ListOps}
Piped == {c \o <<"|">> \o d : c \in {<<"cat", "/b">>, <<"cat", "b">>, <<>>},
                              d \in {<<"grep", "l1">>, <<"tail", "-n", "1", ">", "b">>, <<"cat", "a", "/b">>, <<>>}}
MCLine == One \cup Two \cup More \cup Redirected \cup Joined \cup Piped
          \cup {<<"cat", "/b", ";", "cat", "/b">>, <<";", "pwd">>, <<"&&", "pwd">>, <<"id", ";", "id", ";", "id", ";", "id">>, <<"pwd", "&&", "$(id)">>, <<>>}
=============================================================================
