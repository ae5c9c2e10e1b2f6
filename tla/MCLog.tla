------------------------------- MODULE MCLog -------------------------------
(* One configured logger and the root, one the program sets up, and one     *)
(* plain variable.                                                          *)
EXTENDS Log, TLC

CONSTANTS t1, t2

Std(p) == [type |-> "StdoutLogAppender", file |-> "", level |-> "", formatter |-> p]
File(f, p) == [type |-> "FileLogAppender", file |-> f, level |-> "", formatter |-> p]
Yaml(n, l, p, as) == [name |-> n, level |-> l, formatter |-> p, appenders |-> as]

Good == <<"%", "m", " ">>
Bad == <<"%", "m", "{">>

NodeA == << Yaml("a", "INFO", <<>>, <<Std(<<>>), File("", <<>>)>>) >>
NodeB == << Yaml("a", "debug", Good, <<File("f", Good), Std(Bad)>>), Yaml("a", "INFO", <<>>, <<>>) >>
NodeC == << Yaml("root", "WARN", Bad, <<Std(<<>>)>>) >>
NodeD == << Yaml("a", "debug", <<>>, <<>>), Yaml("", "", <<>>, <<>>) >>
MCDocs == { << <<"port", "1">>, <<"logs", NodeA>> >>, << <<"logs", NodeB>>, <<"logs", NodeD>> >>,
            << <<"logs", NodeC>>, <<"port", "bad">> >> }
MCFromStr(n, node) ==
    IF n = "logs" THEN LogsFromYaml(node)
    ELSE CASE node = "0" -> {0} [] node = "1" -> {1} [] OTHER -> {}
MCNames == {"logs", "port"}
MCDefault == [n \in MCNames |-> IF n = "logs" THEN {} ELSE 0]
MCBuiltin == [n \in MCNames |-> IF n = "logs" THEN {1} ELSE {}]
MCSetPatterns == {Good, Bad}
MCSymmetry == Permutations(Threads)
MCPattern == <<"%", "m">>
=============================================================================
