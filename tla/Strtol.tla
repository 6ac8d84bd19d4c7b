------------------------------- MODULE Strtol -------------------------------
(***************************************************************************)
(* strtol and xstrtol of gnulib (gnulib/lib/strtol.c, xstrtol.c), which    *)
(* hivexsh reads numbers with.  A text is the sequence of its characters,  *)
(* w is the width of the type in bits (LONG_MAX is 2^(w - 1) - 1).         *)
(***************************************************************************)
EXTENDS Integers, Sequences, FiniteSets, SequencesExt

Digits == <<"0", "1", "2", "3", "4", "5", "6", "7", "8", "9">>
Lower == <<"a", "b", "c", "d", "e", "f", "g", "h", "i", "j", "k", "l", "m",
           "n", "o", "p", "q", "r", "s", "t", "u", "v", "w", "x", "y", "z">>
Upper == <<"A", "B", "C", "D", "E", "F", "G", "H", "I", "J", "K", "L", "M",
           "N", "O", "P", "Q", "R", "S", "T", "U", "V", "W", "X", "Y", "Z">>

(* The value of a digit or letter; anything else is a digit of no base. *)
DigitOf ==
  [c \in ToSet(Digits) \cup ToSet(Lower) \cup ToSet(Upper) |->
     IF Contains(Digits, c) THEN SelectInSeq(Digits, LAMBDA x : x = c) - 1
     ELSE IF Contains(Lower, c) THEN SelectInSeq(Lower, LAMBDA x : x = c) + 9
     ELSE SelectInSeq(Upper, LAMBDA x : x = c) + 9]

IsDigit(c, base) == c \in DOMAIN DigitOf /\ DigitOf[c] < base

LongMax(w) == 2^(w - 1) - 1
LongMin(w) == -(2^(w - 1))
ULongMax(w) == 2^w - 1

At(t, i, c) == i \in DOMAIN t /\ t[i] = c
AtX(t, i) == At(t, i, "x") \/ At(t, i, "X")

(* The index of the first character from i on that is not in a set. *)
SkipWhile(t, i, Is(_)) ==
  CHOOSE j \in i .. (Len(t) + 1) :
    /\ j = Len(t) + 1 \/ ~Is(t[j])
    /\ \A k \in i .. (j - 1) : Is(t[k])

(* Mutant: the last digit before the overflow is not looked at. *)
Accumulate_NoCutlim(a, d, base, w) ==
  IF a.i > ULongMax(w) \div base
    THEN [a EXCEPT !.overflow = TRUE]
    ELSE [a EXCEPT !.i = (@ * base + d) % (2^w)]

(* One digit more, without an overflow of unsigned long. *)
Accumulate(a, d, base, w) ==
  LET cutoff == ULongMax(w) \div base
      cutlim == ULongMax(w) % base
  IN  IF a.i > cutoff \/ (a.i = cutoff /\ d > cutlim)
        THEN [a EXCEPT !.overflow = TRUE]
        ELSE [a EXCEPT !.i = @ * base + d]

(* The digits up to end have been added up to a. *)
Converted(a, negative, end, w) ==
  LET limit == IF negative THEN -LongMin(w) ELSE LongMax(w)
  IN  IF a.overflow \/ a.i > limit
        THEN [val |-> IF negative THEN -limit ELSE limit, erange |-> TRUE, end |-> end]
        ELSE [val |-> IF negative THEN -a.i ELSE a.i, erange |-> FALSE, end |-> end]

Convert(t, negative, base, save, end, w) ==
  IF end = save    \* noconv; "0x" is the number 0
    THEN [val |-> 0, erange |-> FALSE, end |-> IF base = 16 THEN save - 1 ELSE 1]
    ELSE Converted(FoldLeft(LAMBDA x, c : Accumulate(x, DigitOf[c], base, w),
                            [i |-> 0, overflow |-> FALSE], SubSeq(t, save, end - 1)),
                   negative, end, w)

ReadDigits(t, negative, base, save, w) ==
  Convert(t, negative, base, save, SkipWhile(t, save, LAMBDA c : IsDigit(c, base)), w)

ReadBase(t, negative, s, w) ==
  IF ~At(t, s, "0") THEN ReadDigits(t, negative, 10, s, w)
  ELSE IF AtX(t, s + 1) THEN ReadDigits(t, negative, 16, s + 2, w)
  ELSE ReadDigits(t, negative, 8, s, w)

(* strtol with base 0.  end is the index of the first character that was   *)
(* not converted: 1 if there was no number.                                *)
strtol(t, w) ==
  LET s == SkipWhile(t, 1, LAMBDA c : c = " ")
  IN  ReadBase(t, At(t, s, "-"), IF At(t, s, "-") \/ At(t, s, "+") THEN s + 1 ELSE s, w)

-----------------------------------------------------------------------------
(* Errors are sets of bits. *)
OK == {}
OVERFLOW == {"OVERFLOW"}
INVALID_SUFFIX_CHAR == {"INVALID_SUFFIX_CHAR"}
INVALID == {"INVALID"}

(* C's division rounds towards zero. *)
Div(a, b) == IF a < 0 THEN -((-a) \div b) ELSE a \div b

bkm_scale(x, factor, w) ==
  IF x.val < Div(LongMin(w), factor)
    THEN [val |-> LongMin(w), err |-> x.err \cup OVERFLOW]
  ELSE IF Div(LongMax(w), factor) < x.val
    THEN [val |-> LongMax(w), err |-> x.err \cup OVERFLOW]
  ELSE [x EXCEPT !.val = @ * factor]

bkm_scale_by_power(x, base, power, w) ==
  FoldLeft(LAMBDA y, i : bkm_scale(y, base, w), x, [i \in 1 .. power |-> i])

(* The powers that the suffixes stand for *)
Power ==
  [c \in {"k", "K", "m", "M", "g", "G", "t", "T", "P", "E", "Z", "Y"} |->
     CASE c \in {"k", "K"} -> 1 [] c \in {"m", "M"} -> 2 [] c \in {"g", "G"} -> 3
       [] c \in {"t", "T"} -> 4 [] c = "P" -> 5 [] c = "E" -> 6 [] c = "Z" -> 7
       [] c = "Y" -> 8]

(* The number x with the factor that the letter c stands for *)
Scale(x, c, kilo, w) ==
  CASE c = "b" -> bkm_scale(x, 512, w)
    [] c = "B" -> bkm_scale(x, 1024, w)
    [] c = "c" -> x
    [] c = "w" -> bkm_scale(x, 2, w)
    [] OTHER -> bkm_scale_by_power(x, kilo, Power[c], w)

(* The suffix at p scales the number x; the rest of the text must be empty *)
(* behind it and behind the B, D or iB that '0' among the suffixes allows. *)
Suffix(x, t, p, suffixes, w) ==
  LET second == "0" \in suffixes
      thousand == second /\ (At(t, p + 1, "B") \/ At(t, p + 1, "D"))
      length == IF thousand THEN 2
                ELSE IF second /\ At(t, p + 1, "i") /\ At(t, p + 2, "B") THEN 3
                ELSE 1
      scaled == Scale(x, t[p], IF thousand THEN 1000 ELSE 1024, w)
  IN  IF t[p] \notin {"b", "B", "c", "w"} \cup DOMAIN Power
        THEN [x EXCEPT !.err = @ \cup INVALID_SUFFIX_CHAR]
      ELSE IF p + length <= Len(t) THEN [scaled EXCEPT !.err = @ \cup INVALID_SUFFIX_CHAR]
      ELSE scaled

(* What xstrtol makes of what strtol has returned *)
Scaled(r, t, suffixes, w) ==
  LET x == [val |-> r.val, err |-> IF r.erange THEN OVERFLOW ELSE OK]
      valid == r.end <= Len(t) /\ t[r.end] \in suffixes
  IN  IF r.end = 1 /\ ~valid THEN [val |-> 0, err |-> INVALID]
      ELSE IF r.end > Len(t) THEN x
      ELSE IF ~valid THEN [x EXCEPT !.err = @ \cup INVALID_SUFFIX_CHAR]
      ELSE Suffix(IF r.end = 1 THEN [val |-> 1, err |-> OK] ELSE x, t, r.end, suffixes, w)

(* xstrtol with base 0, for a set of suffixes *)
xstrtol(t, suffixes, w) == Scaled(strtol(t, w), t, suffixes, w)

-----------------------------------------------------------------------------
(* What a text means: the numbers it can be taken for, of any size *)

NumberOf(ds, base) ==
  FoldLeft(LAMBDA n, i : n + DigitOf[ds[i]] * base^(Len(ds) - i), 0,
           [i \in 1 .. Len(ds) |-> i])

(* The text from i to j is a number without a sign. *)
Numeral(t, i, j) ==
  LET all(from, base) == \A k \in from .. j : IsDigit(t[k], base)
  IN  IF i > j THEN {}
      ELSE IF t[i] # "0" THEN (IF all(i, 10) THEN {NumberOf(SubSeq(t, i, j), 10)} ELSE {})
      ELSE IF i + 1 < j /\ AtX(t, i + 1)
        THEN (IF all(i + 2, 16) THEN {NumberOf(SubSeq(t, i + 2, j), 16)} ELSE {})
      ELSE IF all(i, 8) THEN {NumberOf(SubSeq(t, i, j), 8)} ELSE {}

(* White space, a sign and a number, up to j *)
SignedNumeral(t, j) ==
  UNION {LET v == Numeral(t, IF At(t, i, "-") \/ At(t, i, "+") THEN i + 1 ELSE i, j)
         IN  {IF At(t, i, "-") THEN -n ELSE n : n \in v} :
           i \in {k \in 1 .. j : t[k] # " " /\ \A l \in 1 .. (k - 1) : t[l] = " "}}

(* What the suffixes b, c, k, M, w multiply by *)
Factors(s, second) ==
  CASE s = <<>> -> {1}
    [] s = <<"k">> \/ (second /\ s = <<"k", "i", "B">>) -> {1024}
    [] second /\ s \in {<<"k", "B">>, <<"k", "D">>} -> {1000}
    [] s = <<"M">> \/ (second /\ s = <<"M", "i", "B">>) -> {1024 * 1024}
    [] second /\ s \in {<<"M", "B">>, <<"M", "D">>} -> {1000 * 1000}
    [] s[1] \in {"b", "c", "w"}
       /\ Tail(s) \in {<<>>} \cup (IF second THEN {<<"B">>, <<"D">>, <<"i", "B">>}
                                             ELSE {})
         -> {IF s[1] = "b" THEN 512 ELSE IF s[1] = "c" THEN 1 ELSE 2}
    [] OTHER -> {}

(* The number with its suffix; a suffix alone has a 1 before it. *)
TextNumbers(t, suffixes) ==
  UNION {{n * f : n \in (IF j = 0 /\ t # <<>> THEN {1} ELSE SignedNumeral(t, j)),
                  f \in (IF j < Len(t) /\ t[j + 1] \notin suffixes THEN {}
                         ELSE Factors(SubSeq(t, j + 1, Len(t)), "0" \in suffixes))} :
           j \in 0 .. Len(t)}
=============================================================================
