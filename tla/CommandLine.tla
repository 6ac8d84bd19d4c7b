---------------------------- MODULE CommandLine ----------------------------
(***************************************************************************)
(* The command lines of hivexsh and hivexml, and of the tests of           *)
(* getopt_long: the loop over getopt in main and what follows it, one call *)
(* of getopt a step; and of the test of xstrtol, one call of xstrtol a     *)
(* step.                                                                   *)
(***************************************************************************)
EXTENDS Getopt, Strtol

CONSTANTS
  Programs,  \* the names of the programs
  Options,   \* their options: a function to records as Getopt takes them
  Words,     \* a function to the words that are tried for each
  MaxWords,  \* bound: the length of a command line
  Texts,     \* the words that are tried for test-xstrtol
  Widths,    \* the widths of long, in bits
  valid_suffixes \* the suffixes that xstrtol allows

VARIABLES
  prog,    \* the program that runs
  given,   \* argv as the program was called
  argv,    \* argv, which getopt permutes
  data,    \* struct _getopt_data, with optind
  seen,    \* the options getopt has returned, with their arguments
  flags,   \* open_flags and visit_flags
  script,  \* the file of -f
  width,   \* the width of long, for test-xstrtol
  numbers, \* the numbers that test-xstrtol has printed
  state    \* "parsing", "usage" (exit with an error), "done", or "overrun":
           \* getopt looks for a word behind the NULL that ends argv

vars == <<prog, given, argv, data, seen, flags, script, width, numbers, state>>

numberVars == <<width, numbers>>

Init ==
  /\ prog \in Programs
  /\ \/ given \in UNION {[1 .. n -> Words[prog]] : n \in 0 .. MaxWords}
     \/ prog = "test_xstrtol" /\ \E t \in Texts : given = <<t, t>>
  /\ width \in IF prog = "test_xstrtol" THEN Widths ELSE {0}
  /\ numbers = <<>>
  /\ argv = given
  /\ data = InitialData
  /\ seen = <<>>
  /\ flags = {}
  /\ script = <<>>
  /\ state = "parsing"

(* getopt returns an option. *)
Seen(r) ==
  /\ argv' = r.argv
  /\ data' = r.d
  /\ seen' = Append(seen, [opt |-> r.ret, arg |-> r.arg])
  /\ UNCHANGED <<prog, given, numberVars>>

(* What the call of getopt in the loop returns; nothing is defined behind  *)
(* the end of argv.                                                        *)
Returned == IF state # "parsing" \/ prog = "test_xstrtol" \/ data.optind > argc(argv)
              THEN {}
              ELSE {getopt(Options[prog], argv, data)}

(* hivexsh [-dfw] [hivefile] *)
hivexsh_option ==
  \E r \in Returned :
    /\ prog = "hivexsh" /\ r.ret # EOF
    /\ Seen(r)
    /\ flags' = IF r.ret \in {"d", "w"} THEN flags \cup {r.ret} ELSE flags
    /\ script' = IF r.ret = "f" THEN r.arg ELSE script
    /\ state' = IF r.ret \in {"d", "f", "w"} THEN "parsing" ELSE "usage"

(* hivexml [-dk] regfile *)
hivexml_option ==
  \E r \in Returned :
    /\ prog = "hivexml" /\ r.ret # EOF
    /\ Seen(r)
    /\ flags' = IF r.ret \in {"d", "k"} THEN flags \cup {r.ret} ELSE flags
    /\ state' = IF r.ret \in {"d", "k"} THEN "parsing" ELSE "usage"
    /\ UNCHANGED script

(* getopt_long_loop goes on after an error. *)
test_option ==
  \E r \in Returned :
    /\ prog \notin {"hivexsh", "hivexml"} /\ r.ret # EOF
    /\ Seen(r)
    /\ UNCHANGED <<flags, script, state>>

Operands(a, d) == SubSeq(a, d.optind, Len(a))

(* The options are at an end: hivexml needs one operand, hivexsh takes     *)
(* none or one.                                                            *)
EndOptions ==
  \E r \in Returned :
    LET n == Len(Operands(r.argv, r.d))
    IN  /\ r.ret = EOF
        /\ argv' = r.argv
        /\ data' = r.d
        /\ state' = IF (prog = "hivexsh" /\ n > 1) \/ (prog = "hivexml" /\ n # 1)
                      THEN "usage" ELSE "done"
        /\ UNCHANGED <<prog, given, seen, flags, script, numberVars>>

(* What is behind the end of argv is undefined. *)
Overrun ==
  /\ state = "parsing" /\ data.optind > argc(argv)
  /\ state' = "overrun"
  /\ UNCHANGED <<prog, given, argv, data, seen, flags, script, numberVars>>

(* test-xstrtol prints the number of each word and stops at the first that *)
(* has none (xstrtol_fatal).                                               *)
test_xstrtol ==
  LET i == Len(numbers) + 1
      r == xstrtol(argv[i], valid_suffixes, width)
  IN
  /\ state = "parsing" /\ prog = "test_xstrtol"
  /\ \/ /\ i > Len(argv)
        /\ state' = "done"
        /\ UNCHANGED numbers
     \/ /\ i <= Len(argv) /\ r.err = OK
        /\ numbers' = Append(numbers, r.val)
        /\ UNCHANGED state
     \/ /\ i <= Len(argv) /\ r.err # OK
        /\ state' = "usage"
        /\ UNCHANGED numbers
  /\ UNCHANGED <<prog, given, argv, data, seen, flags, script, width>>

Next ==
  \/ test_xstrtol
  \/ hivexsh_option \/ hivexml_option \/ test_option \/ EndOptions \/ Overrun

Spec == Init /\ [][Next]_vars

-----------------------------------------------------------------------------
(* What a command line means, read from left to right *)

Bad == [ok |-> FALSE, opts |-> <<>>, operands |-> <<>>]
After(o, more) == [more EXCEPT !.opts = <<o>> \o @]
Opt(c, arg) == [opt |-> c, arg |-> arg]

(* The long option that a word names: exactly, or as the only one.  Those  *)
(* that say the same count as one.                                         *)
Named(p, name) ==
  LET exact == {i \in DOMAIN p.longs : p.longs[i].name = name}
      abbr == {i \in DOMAIN p.longs : IsPrefix(name, p.longs[i].name)}
      meaning(i) == [p.longs[i] EXCEPT !.name = <<>>]
  IN  IF exact # {} THEN {meaning(i) : i \in exact} ELSE {meaning(i) : i \in abbr}

Meaning(p, words) ==
  LET n == Len(words)
      stop(i) == [ok |-> TRUE, opts |-> <<>>, operands |-> SubSeq(words, i, n)]
      read[i \in 1 .. (n + 2), j \in 0 .. 12] ==
        IF i > n THEN (IF i = n + 1 THEN stop(i) ELSE Bad)
        ELSE LET w == words[i]
                 more == read[i + 1, 0]
                 next == read[i + 2, 0]
                 c == w[j]
                 rest == SubSeq(w, j + 1, Len(w))
                 len == NameLen(w) - 2
                 long == Named(p, SubSeq(w, 3, len + 2))
                 o == CHOOSE x \in long : TRUE
                 val == IF o.flag THEN "0" ELSE o.val
        IN  IF j > 0 THEN   \* at character j of a word of short options
              IF j > Len(w) THEN more
              ELSE IF c \notin DOMAIN p.shorts THEN Bad
              ELSE IF p.shorts[c] = 0 THEN After(Opt(c, <<>>), read[i, j + 1])
              ELSE IF rest # <<>> THEN After(Opt(c, <<rest>>), more)
              ELSE IF p.shorts[c] = 2 THEN After(Opt(c, <<>>), more)
              ELSE IF i = n THEN Bad
              ELSE After(Opt(c, <<words[i + 1]>>), next)
            ELSE IF w = <<"-", "-">> THEN stop(i + 1)
            ELSE IF NonOption(w) THEN
              IF p.mode = "-" THEN After(Opt("1", <<w>>), more)
              ELSE IF p.mode = "+" \/ p.posix THEN stop(i)
              ELSE [more EXCEPT !.operands = <<w>> \o @]
            ELSE IF p.longs = <<>> \/ w[2] # "-" THEN read[i, 2]
            ELSE IF Cardinality(long) # 1 THEN Bad
            ELSE IF len + 2 < Len(w) THEN
              IF o.has_arg = 0 THEN Bad
              ELSE After(Opt(val, <<SubSeq(w, len + 4, Len(w))>>), more)
            ELSE IF o.has_arg # 1 THEN After(Opt(val, <<>>), more)
            ELSE IF i = n THEN Bad
            ELSE After(Opt(val, <<words[i + 1]>>), next)
  IN  read[1, 0]

-----------------------------------------------------------------------------
(* Properties *)

(* Type invariant: optind and the segment of skipped non-options stay      *)
(* inside argv, in order, so that getopt reads no element behind its end.  *)
(* The exception is an ambiguous -W, which skips one word too many; no     *)
(* program of hivex has "W;" among its options.  Every option that getopt  *)
(* returns has used up a character of the command line of its own,         *)
(* whatever errors came before it, so that a program that goes on after an *)
(* error does not loop.                                                    *)
TypeOK ==
  /\ Len(seen) <= FoldLeft(LAMBDA n, w : n + Len(w), 0, given)
  /\ state \in {"parsing", "usage", "done", "overrun"}
  /\ Len(argv) = Len(given)
  /\ data.optind \in 1 .. (argc(argv) + (IF Options[prog].w THEN 1 ELSE 0))
  /\ state = "overrun" => Options[prog].w
  /\ 1 <= data.first /\ data.first <= data.last /\ data.last <= argc(argv)

(* A command line that is read to its end without an error means what it   *)
(* means read from left to right: the same options in the same order with  *)
(* the same arguments, whether words were permuted, options abbreviated or *)
(* characters put together, and the same operands in the same order; and   *)
(* one that has a meaning is not refused by getopt.  The shell and hivexml *)
(* act on the options so read, the last -f counts, and neither takes an    *)
(* option for a hive.                                                      *)
ReadsAsMeant ==
  prog = "test_xstrtol" \/
  LET m == Meaning(Options[prog], given)
      refused == \E i \in DOMAIN seen : seen[i].opt \in {"?", ":"}
      files == SelectSeq(m.opts, LAMBDA o : o.opt = "f")
  IN  /\ ~Options[prog].w /\ ~Options[prog].long_only =>
           /\ state = "done" /\ ~refused =>
                m.ok /\ m.opts = seen /\ m.operands = Operands(argv, data)
           /\ refused => ~m.ok
      /\ state = "done" /\ prog \in {"hivexsh", "hivexml"} =>
           /\ flags = {m.opts[i].opt : i \in DOMAIN m.opts} \ {"f"}
           /\ script = IF files = <<>> THEN <<>> ELSE files[Len(files)].arg
           /\ Len(m.operands) <= 1

(* xstrtol returns a number exactly where the text means one that long can *)
(* hold, and that number: no overflow goes unnoticed, in the digits or in  *)
(* the suffix, and neither the smallest nor the largest long is refused.   *)
NumbersAsMeant ==
  prog = "test_xstrtol" =>
    LET meant(t) == {n \in TextNumbers(t, valid_suffixes) :
                       LongMin(width) <= n /\ n <= LongMax(width)}
    IN  /\ \A i \in DOMAIN numbers : meant(given[i]) = {numbers[i]}
        /\ state = "usage" => meant(given[Len(numbers) + 1]) = {}
=============================================================================
