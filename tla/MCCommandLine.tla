--------------------------- MODULE MCCommandLine ---------------------------
(* Instance of CommandLine for TLC: the options of hivexsh and hivexml,    *)
(* with the getopt of gnulib and with one that permutes, and those of      *)
(* gnulib/tests/test-getopt_long.h.                                        *)
EXTENDS CommandLine, TLC

Word(n) ==
  CASE n = "d" -> <<"-", "d">> [] n = "k" -> <<"-", "k">>
    [] n = "w" -> <<"-", "w">> [] n = "dw" -> <<"-", "d", "w">>
    [] n = "dk" -> <<"-", "d", "k">>
    [] n = "f" -> <<"-", "f">> [] n = "fd" -> <<"-", "f", "d">>
    [] n = "wf" -> <<"-", "w", "f">>
    [] n = "x" -> <<"-", "x">> [] n = "--" -> <<"-", "-">>
    [] n = "-" -> <<"-">> [] n = "h" -> <<"h">> [] n = "g" -> <<"g">>
    [] n = "a" -> <<"-", "a">> [] n = "ap" -> <<"-", "a", "p">>
    [] n = "p" -> <<"-", "p">> [] n = "pd" -> <<"-", "p", "d">>
    [] n = "W" -> <<"-", "W">> [] n = "We" -> <<"-", "W", "e">>
    [] n = "e" -> <<"e">> [] n = "p=d" -> <<"p", "=", "d">>
    [] n = "--e" -> <<"-", "-", "e">> [] n = "--ex" -> <<"-", "-", "e", "x">>
    [] n = "--eye" -> <<"-", "-", "e", "y", "e">>
    [] n = "--p" -> <<"-", "-", "p">> [] n = "--p=d" -> <<"-", "-", "p", "=", "d">>
    [] n = "-ey" -> <<"-", "e", "y">> [] n = "-ad" -> <<"-", "a", "d">>

WordSet(s) == {Word(n) : n \in s}

hivexsh == [shorts |-> ("d" :> 0) @@ ("f" :> 1) @@ ("w" :> 0), longs |-> <<>>,
            mode |-> "", colon |-> FALSE, w |-> FALSE, long_only |-> FALSE,
            posix |-> TRUE]
hivexml == [hivexsh EXCEPT !.shorts = ("d" :> 0) @@ ("k" :> 0)]

(* struct option: "eye" and "eyes" say the same, "ex" differs, "prune"     *)
(* takes an argument and sets a flag. *)
LongOptions ==
  <<[name |-> <<"e", "y", "e">>, has_arg |-> 0, flag |-> FALSE, val |-> "e"],
    [name |-> <<"e", "x">>, has_arg |-> 2, flag |-> FALSE, val |-> "x"],
    [name |-> <<"e", "y", "e", "s">>, has_arg |-> 0, flag |-> FALSE, val |-> "e"],
    [name |-> <<"p", "r">>, has_arg |-> 1, flag |-> TRUE, val |-> "p"]>>

test == [shorts |-> ("a" :> 0) @@ ("p" :> 1) @@ ("d" :> 2) @@ ("W" :> 0),
         longs |-> LongOptions, mode |-> "", colon |-> FALSE, w |-> FALSE,
         long_only |-> FALSE, posix |-> FALSE]

MCPrograms == {"hivexsh", "hivexml", "permute", "in_order", "required_order",
               "dash_w", "long_only", "test_xstrtol"}

MCOptions ==
  [n \in MCPrograms |->
     CASE n \in {"hivexsh", "test_xstrtol"} -> hivexsh
       [] n = "hivexml" -> [hivexml EXCEPT !.posix = FALSE]
       [] n = "permute" -> test
       [] n = "in_order" -> [test EXCEPT !.mode = "-", !.colon = TRUE]
       [] n = "required_order" -> [test EXCEPT !.mode = "+"]
       [] n = "dash_w" -> [test EXCEPT !.w = TRUE]
       [] n = "long_only" -> [test EXCEPT !.long_only = TRUE]]

MCWords ==
  [n \in MCPrograms |->
     CASE n = "hivexsh" -> WordSet({"d", "dw", "f", "fd", "wf", "x", "--", "-", "h"})
       [] n = "hivexml" -> WordSet({"d", "k", "dk", "x", "--", "-", "h", "g"})
       [] n \in {"permute", "in_order", "required_order"}
            -> WordSet({"a", "ap", "p", "pd", "d", "--", "h", "g", "--e", "--ex",
                        "--eye", "--p", "--p=d"})
       [] n = "dash_w" -> WordSet({"W", "We", "e", "p=d", "a", "h", "--"})
       [] n = "long_only" -> WordSet({"-ey", "-ad", "a", "p", "h", "--p", "x"})
       [] n = "test_xstrtol" -> {}]

(* All texts of up to four characters of an alphabet. *)
AllTexts(chars, n) == UNION {[1 .. k -> chars] : k \in 0 .. n}

(* 8 bits: digits up to and beyond -128, 127 and 255, in three bases.  12  *)
(* bits: suffixes up to and beyond -2048 and 2047.                         *)
MCTexts ==
  AllTexts({" ", "-", "0", "1", "2", "7", "8", "x", "f"}, 4)
    \cup AllTexts({"-", "2", "5", "6"}, 4)
    \cup AllTexts({"-", "1", "2", "0", "k", "w", "b", "i", "B"}, 4)

MCSuffixes == {"b", "c", "k", "M", "w", "0"}
=============================================================================
