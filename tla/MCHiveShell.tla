---------------------------- MODULE MCHiveShell ----------------------------
(* Instance of HiveShell for TLC: a sound hive, a damaged one, which has a *)
(* name twice, and a file that is no hive.                                 *)
EXTENDS HiveShell

MCFold(s) ==
  CASE s \in {"a", "A"} -> 1 [] s \in {"b", "B"} -> 2 [] OTHER -> 0

Empty == [ok |-> TRUE, list |-> <<>>]

MCDisks ==
  LET hive == [p \in {<<>>, <<"a">>, <<"a", "b">>} |-> Empty]
      twice == [p \in {<<>>, <<"a">>, <<"A">>, <<"A", "b">>} |-> Empty]
  IN  {("f" :> [valid |-> TRUE, sound |-> TRUE, keys |-> hive]) @@
       ("damaged" :> [valid |-> TRUE, sound |-> FALSE, keys |-> twice]) @@
       ("none" :> [valid |-> FALSE, sound |-> TRUE, keys |-> hive])}

Path(abs, es) == [abs |-> abs, doubled |-> FALSE, elems |-> es]

MCPaths ==
  {Path(FALSE, es) : es \in UNION {[1 .. n -> {"..", "A", "b"}] : n \in 1 .. 3}}
    \cup {Path(TRUE, es) : es \in {<<>>, <<"A", "", ".", "b">>, <<"..", "a">>}}
    \cup {[abs |-> TRUE, doubled |-> TRUE, elems |-> <<"a">>]}

Line(form, text) == [form |-> form, type |-> <<"3">>, text |-> text]

MCCounts ==
  {<<"0">>, <<"1">>, <<"-", "1">>, <<"0", "x", "2">>, <<"3">>, <<"1", "k">>}

(* Value lines of every form, right and wrong. *)
MCValueLines ==
  {Line("none", <<>>), Line("garbage", <<>>),
   Line("string", <<"a">>), Line("string", <<>>), Line("expandstring", <<"a", "b">>),
   Line("string", <<"a", "8bit">>),
   Line("hex", <<"0", "f", ",", "1", "0", " ">>), Line("hex", <<"0", ",", "1", "f">>),
   Line("hex", <<>>), [Line("hex", <<"f", "0">>) EXCEPT !.type = <<"4">>],
   Line("dword", <<"0", "x", "3">>), Line("dword", <<"4">>), Line("dword", <<"-", "1">>),
   Line("qword", <<"-", "1">>), Line("qword", <<"0", "7">>), Line("qword", <<"9", "9">>)}
=============================================================================
