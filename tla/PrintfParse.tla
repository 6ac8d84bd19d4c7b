---------------------------- MODULE PrintfParse ----------------------------
(***************************************************************************)
(* The parser of format strings of gnulib (gnulib/lib/printf-parse.c), one *)
(* directive a step, and its sizes (gnulib/lib/xsize.h).  A format is the  *)
(* sequence of its characters.                                             *)
(***************************************************************************)
EXTENDS Integers, Sequences, FiniteSets, SequencesExt

CONSTANTS
  SIZE_MAX,       \* the largest size_t
  INT_MAX,        \* the largest int
  N_DIRECT_ALLOC, \* the directives, and arguments, that need no malloc
  ARGUMENT_SIZE,  \* sizeof (argument), and of a directive
  Cases           \* the calls that are tried: [format, build, buffer]

ASSUME SizesAssumption ==
  /\ INT_MAX \in Nat /\ SIZE_MAX >= 2 * INT_MAX + 1
  /\ N_DIRECT_ALLOC \in Nat \ {0} /\ ARGUMENT_SIZE \in Nat \ {0}

VARIABLES
  call,    \* the call that is made
  pc,      \* what is to be done next, or how the call ended
  cp,      \* the place in the format
  d,       \* DIRECTIVES: the directives so far
  a,       \* arguments: their types, arg_posn and the elements allocated
  maxima,  \* max_width_length and max_precision_length
  heap,    \* the blocks that are allocated: "dir", "arg", "buf", "result"
  errno,   \* the reason of a failure
  faults   \* what went wrong outside: "malloc" or "snprintf" failed

parseVars == <<call, cp, d, a, maxima>>

Lesser(m, n) == IF m < n THEN m ELSE n
Greater(m, n) == IF m > n THEN m ELSE n

(* Sums and products that stay at SIZE_MAX. *)
xsum(m, n) == Lesser(m + n, SIZE_MAX)
xtimes(n, size) == IF n <= SIZE_MAX \div size THEN n * size ELSE SIZE_MAX
size_overflow_p(n) == n = SIZE_MAX

NONE == SIZE_MAX \* ARG_NONE
NoType == <<"NONE", "">>
NUL == ""

DigitSeq == <<"0", "1", "2", "3", "4", "5", "6", "7", "8", "9">>
DigitChars == ToSet(DigitSeq)
DigitValue == [c \in DigitChars |-> SelectInSeq(DigitSeq, LAMBDA x : x = c) - 1]
FlagChars == {"'", "-", "+", " ", "#", "0", "I"}
SizeChars == {"h", "L", "l", "j", "z", "Z", "t"}

CharAt(f, p) == IF p <= Len(f) THEN f[p] ELSE NUL

(* The first place from p on that holds none of some characters. *)
Span(f, p, chars) ==
  CHOOSE q \in p .. (Len(f) + 1) :
    CharAt(f, q) \notin chars /\ \A r \in p .. (q - 1) : f[r] \in chars

(* A decimal number as a size_t. *)
Number(f, p, q) ==
  FoldLeft(LAMBDA n, c : xsum(xtimes(n, 10), DigitValue[c]), 0, SubSeq(f, p, q - 1))

(* "Test for positional argument": n$, or nothing. *)
Positional(f, p) ==
  LET q == Span(f, p, DigitChars)
      n == Number(f, p, q)
  IN  IF q = p \/ CharAt(f, q) # "$" THEN [bad |-> FALSE, index |-> NONE, cp |-> p]
      ELSE [bad |-> n = 0 \/ size_overflow_p(n), index |-> n - 1, cp |-> q + 1]

(* A field width from p on, or what follows the dot of a precision. *)
Field(f, p) ==
  LET pos == Positional(f, p + 1)
      q == Span(f, p, DigitChars)
  IN  IF CharAt(f, p) = "*"
        THEN [star |-> TRUE, bad |-> pos.bad, index |-> pos.index,
              start |-> p, end |-> p + 1, cp |-> pos.cp]
        ELSE [star |-> FALSE, bad |-> FALSE, index |-> NONE,
              start |-> p, end |-> q, cp |-> q]

(* A precision starts at its dot. *)
Precision(f, p) ==
  IF CharAt(f, p) = "." THEN [Field(f, p + 1) EXCEPT !.start = p]
  ELSE [star |-> FALSE, bad |-> FALSE, index |-> NONE,
        start |-> p, end |-> p, cp |-> p]

(* The size specifiers: h counts to two, L, and the sum of the l.  Where   *)
(* long has 32 bits j says long long; z, Z and t say nothing.              *)
Sizes(f, p, q) ==
  FoldLeft(LAMBDA s, c :
             CASE c = "h" -> [s EXCEPT !.h = Lesser(@ + 1, 2)]
               [] c = "L" -> [s EXCEPT !.L = TRUE]
               [] c = "l" -> [s EXCEPT !.l = @ + 1]
               [] c = "j" -> [s EXCEPT !.l = @ + 2]
               [] OTHER -> s,
           [h |-> 0, L |-> FALSE, l |-> 0], SubSeq(f, p, q - 1))

Rank(s) == IF s.l >= 2 \/ s.L THEN "LONGLONG"
           ELSE IF s.l = 1 THEN "LONG"
           ELSE IF s.h = 2 THEN "CHAR"
           ELSE IF s.h = 1 THEN "SHORT" ELSE "INT"

(* The type of the argument of a conversion. *)
Type(c, s) ==
  CASE c \in {"d", "i"} -> <<"INT", Rank(s)>>
    [] c \in {"o", "u", "x", "X"} -> <<"UINT", Rank(s)>>
    [] c \in {"f", "F", "e", "E", "g", "G", "a", "A"}
         -> <<"DOUBLE", IF s.l >= 2 \/ s.L THEN "LONG" ELSE "">>
    [] c = "c" -> <<"CHAR", IF s.l >= 1 THEN "WIDE" ELSE "">>
    [] c = "C" -> <<"CHAR", "WIDE">>
    [] c = "s" -> <<"STRING", IF s.l >= 1 THEN "WIDE" ELSE "">>
    [] c = "S" -> <<"STRING", "WIDE">>
    [] c = "p" -> <<"POINTER", "">>
    [] c = "n" -> <<"COUNT", Rank(s)>>
    [] OTHER -> NoType

Conversions == {"d", "i", "o", "u", "x", "X", "f", "F", "e", "E", "g", "G", "a",
                "A", "c", "C", "s", "S", "p", "n", "%"}

IntType == <<"INT", "INT">>

(* REGISTER_ARG: argument n, counted from 0, has a type. *)
RegisterArg(s, n, type, fails) ==
  LET grown == Greater(xtimes(s.allocated, 2), xsum(n, 1))
      types == [k \in 1 .. Greater(Len(s.types), n + 1) |->
                  IF k <= Len(s.types) THEN s.types[k] ELSE NoType]
  IN  IF s.err # NUL THEN s
      ELSE IF n >= s.allocated /\ (size_overflow_p(xtimes(grown, ARGUMENT_SIZE)) \/ fails)
        THEN [s EXCEPT !.err = "ENOMEM"]
      ELSE IF types[n + 1] \notin {NoType, type} THEN [s EXCEPT !.err = "EINVAL"]
      ELSE [s EXCEPT !.types = [types EXCEPT ![n + 1] = type],
                     !.allocated = IF n >= @ THEN grown ELSE @,
                     !.grew = @ \/ n >= s.allocated]

(* The argument that an index names, or the next one: arg_posn cannot wrap *)
(* around in a format of less than SIZE_MAX characters.                    *)
Take(s, index, type, fails) ==
  IF index # NONE THEN [RegisterArg(s, index, type, fails) EXCEPT !.last = index]
  ELSE [RegisterArg(s, s.posn, type, fails) EXCEPT !.posn = @ + 1, !.last = s.posn]

TakeField(s, field, fails) ==
  IF field.bad /\ s.err = NUL THEN [s EXCEPT !.err = "EINVAL"]
  ELSE IF field.star THEN Take(s, field.index, IntType, fails)
  ELSE [s EXCEPT !.last = NONE]

(* The argument that is converted. *)
TakeConversion(s, index, c, sizes, fails) ==
  IF s.err = NUL /\ c \notin Conversions THEN [s EXCEPT !.err = "EINVAL"]
  ELSE IF Type(c, sizes) = NoType THEN [s EXCEPT !.last = NONE]
  ELSE Take(s, index, Type(c, sizes), fails)

(* A failed malloc or a bad format gives everything back. *)
ParseFails(e, fails) ==
  /\ pc' = "failed" /\ errno' = e
  /\ heap' = {}
  /\ faults' = IF fails THEN faults \cup {"malloc"} ELSE faults
  /\ UNCHANGED parseVars

(* One directive, from its % on.  fails: malloc and realloc, where this    *)
(* step calls them, return NULL.  (Each \E x \in {e} names a value.)       *)
ParseDirective(fails) ==
  LET f == call.format
  IN
  /\ pc = "parse" /\ CharAt(f, cp) = "%"
  /\ \E pos \in {Positional(f, cp + 1)} :
     \E flagsEnd \in {Span(f, pos.cp, FlagChars)} :
     \E width \in {Field(f, flagsEnd)} :
     \E prec \in {Precision(f, width.cp)} :
     \E sizeEnd \in {Span(f, prec.cp, SizeChars)} :
     \E s0 \in {[types |-> a.types, posn |-> a.posn, allocated |-> a.allocated,
                 err |-> IF pos.bad THEN "EINVAL" ELSE NUL, last |-> NONE, grew |-> FALSE]} :
     \E s1 \in {TakeField(s0, width, fails)} :
     \E s2 \in {TakeField(s1, prec, fails)} :
     \E s3 \in {TakeConversion(s2, pos.index, CharAt(f, sizeEnd),
                               Sizes(f, prec.cp, sizeEnd), fails)} :
       LET c == CharAt(f, sizeEnd)
           dir == [start |-> cp, end |-> sizeEnd + 1,
                   flags |-> {f[p] : p \in pos.cp .. (flagsEnd - 1)},
                   width |-> [start |-> width.start, end |-> width.end, index |-> s1.last],
                   prec |-> [start |-> prec.start, end |-> prec.end, index |-> s2.last],
                   conv |-> CASE c = "C" -> "c" [] c = "S" -> "s" [] OTHER -> c,
                   index |-> s3.last]
           full == Len(d.dir) + 1 >= d.allocated
           grown == xtimes(d.allocated, 2)
       IN
       IF s3.err # NUL THEN ParseFails(s3.err, fails /\ s3.err = "ENOMEM")
       ELSE IF full /\ (size_overflow_p(xtimes(grown, ARGUMENT_SIZE)) \/ fails)
         THEN ParseFails("ENOMEM", fails)
       ELSE /\ cp' = sizeEnd + 1
            /\ d' = [dir |-> Append(d.dir, dir),
                     allocated |-> IF full THEN grown ELSE d.allocated]
            /\ a' = [types |-> s3.types, posn |-> s3.posn, allocated |-> s3.allocated]
            /\ maxima' = [width |-> Greater(maxima.width, width.end - width.start),
                          prec |-> Greater(maxima.prec, prec.end - prec.start)]
            /\ heap' = heap \cup (IF full THEN {"dir"} ELSE {})
                            \cup (IF s3.grew THEN {"arg"} ELSE {})
            /\ UNCHANGED <<call, pc, errno, faults>>

(* A character that is no directive. *)
ParseOther ==
  /\ pc = "parse" /\ CharAt(call.format, cp) \notin {"%", NUL}
  /\ cp' = cp + 1
  /\ UNCHANGED <<call, pc, d, a, maxima, heap, errno, faults>>

ParseInit ==
  /\ call \in Cases
  /\ pc = "parse" /\ cp = 1
  /\ d = [dir |-> <<>>, allocated |-> N_DIRECT_ALLOC]
  /\ a = [types |-> <<>>, posn |-> 0, allocated |-> N_DIRECT_ALLOC]
  /\ maxima = [width |-> 0, prec |-> 0]
  /\ heap = {} /\ errno = NUL /\ faults = {}

(* Where directive i starts: behind the last one is the end. *)
DirStart(i) == IF i > Len(d.dir) THEN Len(call.format) + 1 ELSE d.dir[i].start
=============================================================================
