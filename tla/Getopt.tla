------------------------------- MODULE Getopt -------------------------------
(***************************************************************************)
(* getopt of gnulib (gnulib/lib/getopt.c, getopt1.c), which hivexsh and    *)
(* hivexml parse their command lines with.  One call is an operator from   *)
(* the arguments and the data kept between calls to a result.              *)
(*                                                                         *)
(* A word is the sequence of its characters.  argv[1] .. argv[argc - 1]    *)
(* are the elements of a sequence, so that argc is its length + 1.  A      *)
(* pointer into a word is the rest of the word; NULL and "" are both the   *)
(* empty sequence.                                                         *)
(*                                                                         *)
(* The options of a program p: p.shorts maps an option character to 0 (no  *)
(* argument), 1 (required) or 2 (optional); p.longs is the sequence of     *)
(* struct option or empty (longopts == NULL); p.mode is the first          *)
(* character of optstring if it is - or +, p.colon says that a ':'         *)
(* follows, p.w that "W;" is in it; p.long_only and p.posix are            *)
(* parameters of _getopt_internal.                                         *)
(***************************************************************************)
EXTENDS Integers, Sequences, FiniteSets, SequencesExt

argc(argv) == Len(argv) + 1

(* struct _getopt_data before the first call *)
InitialData == [optind |-> 1, first |-> 1, last |-> 1, next |-> <<>>,
                initialized |-> FALSE, ordering |-> "PERMUTE"]

(* _getopt_initialize *)
Initialize(p, d) ==
  [d EXCEPT !.first = d.optind, !.last = d.optind, !.next = <<>>,
            !.initialized = TRUE,
            !.ordering = CASE p.mode = "-" -> "RETURN_IN_ORDER"
                           [] p.mode = "+" -> "REQUIRE_ORDER"
                           [] p.posix -> "REQUIRE_ORDER"
                           [] OTHER -> "PERMUTE"]

NonOption(w) == Len(w) <= 1 \/ w[1] # "-"

(* n elements from i and n elements from j on trade places *)
Swap(argv, i, j, n) ==
  SubSeq(argv, 1, i - 1) \o SubSeq(argv, j, j + n - 1)
    \o SubSeq(argv, i + n, j - 1) \o SubSeq(argv, i, i + n - 1)
    \o SubSeq(argv, j + n, Len(argv))

(* Mutant: the longer segment is taken for the shorter one. *)
ExchangeStep_Wrong(s) ==
  LET low == s.middle - s.bottom
      high == s.top - s.middle
  IN  IF low <= 0 \/ high <= 0 THEN s
      ELSE IF high > low
        THEN [s EXCEPT !.argv = Swap(s.argv, s.bottom, s.middle, low),
                       !.top = s.top - low]
        ELSE [s EXCEPT !.argv = Swap(s.argv, s.bottom, s.middle, high),
                       !.bottom = s.bottom + high]

(* One turn of the loop in exchange: the shorter segment goes to the far   *)
(* end of the longer one.                                                  *)
ExchangeStep(s) ==
  LET low == s.middle - s.bottom
      high == s.top - s.middle
  IN  IF low <= 0 \/ high <= 0 THEN s
      ELSE IF high > low
        THEN [s EXCEPT !.argv = Swap(s.argv, s.bottom, s.top - low, low),
                       !.top = s.top - low]
        ELSE [s EXCEPT !.argv = Swap(s.argv, s.bottom, s.middle, high),
                       !.bottom = s.bottom + high]

(* exchange: at most one turn for each element *)
Exchange(argv, d) ==
  LET turn[i \in 0 .. Len(argv)] ==
        IF i = 0 THEN [argv |-> argv, bottom |-> d.first, middle |-> d.last,
                       top |-> d.optind]
                 ELSE ExchangeStep(turn[i - 1])
  IN  [argv |-> turn[Len(argv)].argv,
       d |-> [d EXCEPT !.first = d.first + (d.optind - d.last),
                       !.last = d.optind]]

(* Options that follow skipped non-options come before them. *)
ExchangeIfNeeded(argv, d, otherwise) ==
  IF d.first # d.last /\ d.last # d.optind THEN Exchange(argv, d)
  ELSE [argv |-> argv, d |-> otherwise]

(* Skip non-options, to permute them later. *)
SkipNonOptions(argv, d) ==
  LET x == ExchangeIfNeeded(argv, d, IF d.last # d.optind
                                       THEN [d EXCEPT !.first = d.optind] ELSE d)
      end == CHOOSE j \in x.d.optind .. argc(argv) :
               /\ j = argc(argv) \/ ~NonOption(x.argv[j])
               /\ \A k \in x.d.optind .. (j - 1) : NonOption(x.argv[k])
  IN  IF d.ordering # "PERMUTE" THEN [argv |-> argv, d |-> d]
      ELSE [argv |-> x.argv, d |-> [x.d EXCEPT !.optind = end, !.last = end]]

(* "--" ends the options. *)
EndOfOptions(argv, d0) ==
  LET d == [d0 EXCEPT !.optind = @ + 1]
      x == ExchangeIfNeeded(argv, d, IF d.first = d.last
                                       THEN [d EXCEPT !.first = d.optind] ELSE d)
  IN  IF d0.optind = argc(argv) THEN [argv |-> argv, d |-> d0]
      ELSE IF argv[d0.optind] # <<"-", "-">> THEN [argv |-> argv, d |-> d0]
      ELSE [argv |-> x.argv,
            d |-> [x.d EXCEPT !.last = argc(argv), !.optind = argc(argv)]]

(* What a call returns; arg is optarg, a sequence of at most one word. *)
Result(ret, arg, argv, d) == [ret |-> ret, arg |-> arg, argv |-> argv, d |-> d]

EOF == "EOF"
Missing(p) == IF p.colon THEN ":" ELSE "?"

(* Up to the first '=', or all. *)
NameLen(w) ==
  CHOOSE n \in 0 .. Len(w) : /\ n = Len(w) \/ w[n + 1] = "="
                             /\ \A i \in 1 .. n : w[i] # "="

(* The first exact match among the long options, otherwise the first that  *)
(* name abbreviates; it is ambiguous if another one that differs follows.  *)
FindLong(p, name) ==
  LET match == {i \in DOMAIN p.longs : IsPrefix(name, p.longs[i].name)}
      exact == {i \in match : p.longs[i].name = name}
      first(s) == CHOOSE i \in s : \A j \in s : i <= j
      same(i, j) == /\ p.longs[i].has_arg = p.longs[j].has_arg
                    /\ p.longs[i].flag = p.longs[j].flag
                    /\ p.longs[i].val = p.longs[j].val
  IN  IF exact # {} THEN [found |-> TRUE, ambiguous |-> FALSE, i |-> first(exact)]
      ELSE IF match = {} THEN [found |-> FALSE, ambiguous |-> FALSE, i |-> 0]
      ELSE [found |-> TRUE, i |-> first(match),
            ambiguous |-> \E j \in match \ {first(match)} :
                            p.long_only \/ ~same(first(match), j)]

(* Mutant: an argument is taken without a look at argc. *)
TakeLong_Overrun(p, argv, d, o, w) ==
  LET n == NameLen(w)
      val == IF o.flag THEN "0" ELSE o.val
      e == [d EXCEPT !.next = <<>>]
  IN  IF n < Len(w)
        THEN IF o.has_arg # 0 THEN Result(val, <<SubSeq(w, n + 2, Len(w))>>, argv, e)
             ELSE Result("?", <<>>, argv, e)
      ELSE IF o.has_arg # 1 THEN Result(val, <<>>, argv, e)
      ELSE Result(val, <<>>, argv, [e EXCEPT !.optind = @ + 1])

(* The value of a long option that was found, and its argument: after the  *)
(* '=' in word w, or the next word.                                        *)
TakeLong(p, argv, d, o, w) ==
  LET n == NameLen(w)
      val == IF o.flag THEN "0" ELSE o.val
      e == [d EXCEPT !.next = <<>>]
  IN  IF n < Len(w)
        THEN IF o.has_arg # 0 THEN Result(val, <<SubSeq(w, n + 2, Len(w))>>, argv, e)
             ELSE Result("?", <<>>, argv, e)
      ELSE IF o.has_arg # 1 THEN Result(val, <<>>, argv, e)
      ELSE IF d.optind < argc(argv)
        THEN Result(val, <<argv[d.optind]>>, argv, [e EXCEPT !.optind = @ + 1])
      ELSE Result(Missing(p), <<>>, argv, e)

(* -W foo is taken as --foo. *)
ShortW(p, argv, d, rest) ==
  LET arg == IF rest # <<>> THEN rest ELSE argv[d.optind]
      e == [d EXCEPT !.optind = @ + 1, !.next = <<>>]
      l == FindLong(p, SubSeq(arg, 1, NameLen(arg)))
  IN  IF p.longs = <<>> THEN Result("W", <<>>, argv, [d EXCEPT !.next = <<>>])
      ELSE IF rest = <<>> /\ d.optind = argc(argv)
        THEN Result(Missing(p), <<>>, argv, d)
      ELSE IF l.ambiguous THEN Result("?", <<arg>>, argv, [e EXCEPT !.optind = @ + 1])
      ELSE IF l.found THEN TakeLong(p, argv, e, p.longs[l.i], arg)
      ELSE Result("W", <<arg>>, argv, e)

(* The argument of a short option: the rest of its word, or the next word  *)
(* if it is required.                                                      *)
TakeShort(p, argv, d, c, rest) ==
  LET e == [d EXCEPT !.next = <<>>]
  IN  IF rest # <<>> THEN Result(c, <<rest>>, argv, [e EXCEPT !.optind = @ + 1])
      ELSE IF p.shorts[c] = 2 THEN Result(c, <<>>, argv, e)
      ELSE IF d.optind = argc(argv) THEN Result(Missing(p), <<>>, argv, e)
      ELSE Result(c, <<argv[d.optind]>>, argv, [e EXCEPT !.optind = @ + 1])

(* The next short option character; optind goes on at the last one. *)
Short(p, argv, d0) ==
  LET c == Head(d0.next)
      rest == Tail(d0.next)
      d == [d0 EXCEPT !.next = rest,
                      !.optind = IF rest = <<>> THEN @ + 1 ELSE @]
  IN  IF c \notin DOMAIN p.shorts THEN Result("?", <<>>, argv, d)
      ELSE IF c = "W" /\ p.w THEN ShortW(p, argv, d, rest)
      ELSE IF p.shorts[c] = 0 THEN Result(c, <<>>, argv, d)
      ELSE TakeShort(p, argv, d, c, rest)

Long(p, argv, d0) ==
  LET w == argv[d0.optind]
      d == [d0 EXCEPT !.optind = @ + 1]
      l == FindLong(p, SubSeq(d0.next, 1, NameLen(d0.next)))
  IN  IF l.ambiguous THEN Result("?", <<>>, argv, [d EXCEPT !.next = <<>>])
      ELSE IF l.found THEN TakeLong(p, argv, d, p.longs[l.i], d0.next)
      ELSE IF ~p.long_only \/ w[2] = "-" \/ Head(d0.next) \notin DOMAIN p.shorts
        THEN Result("?", <<>>, argv, [d EXCEPT !.next = <<>>])
      ELSE Short(p, argv, d0)

(* The current word is a long option, also after a single '-' if long_only *)
(* and it is not just one short option.                                    *)
Decode(p, argv, d) ==
  LET w == argv[d.optind]
  IN  IF p.longs # <<>>
         /\ \/ w[2] = "-"
            \/ p.long_only /\ (Len(w) > 2 \/ w[2] \notin DOMAIN p.shorts)
        THEN Long(p, argv, d) ELSE Short(p, argv, d)

(* The segment of skipped non-options ends before optind, wherever the     *)
(* caller has moved that.                                                  *)
Rational(d) ==
  [d EXCEPT !.last = IF @ > d.optind THEN d.optind ELSE @,
            !.first = IF @ > d.optind THEN d.optind ELSE @]

(* The next element of argv that is an option. *)
NextWord(p, argv0, d0) ==
  LET skipped == SkipNonOptions(argv0, Rational(d0))
      x == EndOfOptions(skipped.argv, skipped.d)
      d == x.d
      w == x.argv[d.optind]
      dashes == IF p.longs # <<>> /\ w[2] = "-" THEN 2 ELSE 1
  IN  IF d.optind = argc(argv0)
        THEN Result(EOF, <<>>, x.argv,
                    IF d.first # d.last THEN [d EXCEPT !.optind = d.first] ELSE d)
      ELSE IF NonOption(w)
        THEN IF d.ordering = "REQUIRE_ORDER" THEN Result(EOF, <<>>, x.argv, d)
             ELSE Result("1", <<w>>, x.argv, [d EXCEPT !.optind = @ + 1])
      ELSE Decode(p, x.argv, [d EXCEPT !.next = SubSeq(w, dashes + 1, Len(w))])

(* _getopt_internal_r, called by getopt, getopt_long and getopt_long_only  *)
getopt(p, argv, d0) ==
  LET d == IF d0.initialized THEN d0 ELSE Initialize(p, d0)
  IN  IF d.next = <<>> THEN NextWord(p, argv, d) ELSE Decode(p, argv, d)
=============================================================================
