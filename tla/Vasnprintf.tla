----------------------------- MODULE Vasnprintf -----------------------------
(***************************************************************************)
(* vasnprintf and vasprintf of gnulib (gnulib/lib/vasnprintf.c,            *)
(* vasprintf.c): the arguments are fetched, and the directives are carried *)
(* out one by one with the snprintf of the system into a buffer that       *)
(* grows.  A build says what that snprintf is like:                        *)
(*   n       it is given %n to count what it writes: "no", "understood" or *)
(*           "ignored"                                                     *)
(*   retval  what it returns when there is too little room: "c99" (the     *)
(*           length that is needed), "short" (the room), "negative" (-1)   *)
(*   unbounded  it cannot do long precisions                               *)
(*           (NEED_PRINTF_UNBOUNDED_PRECISION)                             *)
(* The floating-point, wide-character and unistdio parts are left out.     *)
(***************************************************************************)
EXTENDS PrintfParse

CONSTANTS
  Ints,       \* the numbers that are passed
  Strings,    \* the strings that are passed, as sequences
  ALLOCA_MAX, \* up to where the buffer for directives is on the stack (4000)
  INT_BITS    \* the bits of int

VARIABLES
  values,  \* the arguments as fetched
  i,       \* the directive that is next
  result,  \* the characters that are allocated for the result
  length,  \* how many of them are output so far
  count,   \* how many more snprintf has written
  usesN,   \* fbp[1] is '%'
  stored   \* what %n directives have stored: places in the format to lengths

outVars == <<values, i, result, length, count, usesN, stored>>
vars == <<parseVars, pc, heap, errno, faults, outVars>>

ANY == "?" \* a character that is not initialized
NullPointer == <<"NULL">>
NullText == <<"(", "N", "U", "L", "L", ")">>

-----------------------------------------------------------------------------
(* snprintf of the system *)

Chars(c, n) == [k \in 1 .. n |-> c]
Decimal(n) == IF n < 10 THEN <<DigitSeq[n + 1]>>
              ELSE <<DigitSeq[(n \div 10) + 1], DigitSeq[(n % 10) + 1]>>
Octal(n) == IF n < 8 THEN Decimal(n) ELSE <<DigitSeq[(n \div 8) + 1], DigitSeq[(n % 8) + 1]>>
HexDigits(conv) ==
  DigitSeq \o (IF conv = "X" THEN <<"A", "B", "C", "D", "E", "F">>
                             ELSE <<"a", "b", "c", "d", "e", "f">>)
Hexadecimal(conv, n) ==
  LET digits == HexDigits(conv)
  IN  IF n < 16 THEN <<digits[n + 1]>> ELSE <<digits[(n \div 16) + 1], digits[(n % 16) + 1]>>
Letters == ToSet(HexDigits("x") \o HexDigits("X")) \ ToSet(DigitSeq)

(* What ISO C says a conversion gives.  width and prec are numbers, -1 is  *)
(* a precision that was omitted.  A pointer, here never NULL, is           *)
(* written as with %#x.                                                    *)
Converted(conv, flags, width, prec, v) ==
  LET left == "-" \in flags \/ width < 0
      room == IF width < 0 THEN -width ELSE width
      mag == IF v < 0 THEN -v ELSE v
      signed == conv \in {"d", "i"}
      number == signed \/ conv \in {"u", "o", "x", "X", "p"}
      digits == IF v = 0 /\ prec = 0 THEN <<>>
                ELSE IF conv \in {"x", "X", "p"} THEN Hexadecimal(conv, mag)
                ELSE IF conv = "o" THEN Octal(mag) ELSE Decimal(mag)
      prefix == IF signed THEN (IF v < 0 THEN <<"-">>
                                    ELSE IF "+" \in flags THEN <<"+">>
                                    ELSE IF " " \in flags THEN <<" ">> ELSE <<>>)
                ELSE IF conv = "p" \/ (conv \in {"x", "X"} /\ "#" \in flags /\ v # 0)
                  THEN <<"0", IF conv = "X" THEN "X" ELSE "x">>
                ELSE IF conv = "o" /\ "#" \in flags /\ prec <= Len(digits) /\ digits # <<"0">>
                  THEN <<"0">>
                ELSE <<>>
      body == IF conv = "s" /\ prec >= 0 THEN SubSeq(v, 1, Lesser(prec, Len(v)))
              ELSE IF ~number THEN v
              ELSE Chars("0", Greater(0, prec - Len(digits))) \o digits
      pad == Greater(0, room - Len(prefix) - Len(body))
  IN  IF left THEN prefix \o body \o Chars(" ", pad)
      ELSE IF number /\ "0" \in flags /\ prec < 0 THEN prefix \o Chars("0", pad) \o body
      ELSE Chars(" ", pad) \o prefix \o body

(* What snprintf leaves from place p on, with room for maxlen characters.  *)
Written(buf, p, text, maxlen) ==
  [k \in DOMAIN buf |->
     IF k - p \in 1 .. Lesser(Len(text), maxlen - 1) THEN text[k - p]
     ELSE IF k - p = Lesser(Len(text), maxlen - 1) + 1 THEN NUL
     ELSE buf[k]]

(* What it counts for %n, and returns. *)
Counted(build, n, text) ==
  IF n /\ build.n = "understood" /\ Len(text) <= INT_MAX THEN Len(text) ELSE -1
Retcount(build, text, maxlen) ==
  IF Len(text) > INT_MAX THEN -1  \* EOVERFLOW
  ELSE IF Len(text) < maxlen \/ build.retval = "c99" THEN Len(text)
  ELSE IF build.retval = "short" THEN maxlen - 1 ELSE -1

-----------------------------------------------------------------------------
(* Memory *)

(* ENSURE_ALLOCATION: the first keep characters are kept.  What realloc    *)
(* moves is kept whole, resultbuf is left alone.                           *)
Grown(needed) == Greater(needed, IF result # <<>> THEN xtimes(Len(result), 2) ELSE 12)
MustGrow(needed) == needed > Len(result)
Refused(needed, fails) == MustGrow(needed) /\ (size_overflow_p(Grown(needed)) \/ fails)
Ensured(needed, keep) ==
  IF ~MustGrow(needed) THEN result
  ELSE [k \in 1 .. Grown(needed) |->
          IF k <= Len(result) /\ ("result" \in heap \/ k <= keep) THEN result[k] ELSE ANY]
HeapEnsured(needed) == IF MustGrow(needed) THEN heap \cup {"result"} ELSE heap

(* Every error path frees what was allocated. *)
Cleanup == heap \ {"dir", "arg", "buf", "result"}

Fails(e, fails) ==
  /\ pc' = "failed" /\ errno' = e
  /\ heap' = Cleanup
  /\ faults' = IF fails THEN faults \cup {"malloc"} ELSE faults
  /\ UNCHANGED <<parseVars, outVars>>

(* Put text behind the output, in buf; nothing is behind the end of buf. *)
Put(buf, text) == [k \in DOMAIN buf |-> IF k - length \in DOMAIN text THEN text[k - length]
                                        ELSE buf[k]]
InBounds(buf, text) == length + Len(text) <= Len(buf)

-----------------------------------------------------------------------------
(* Arguments *)

ParseEnd ==
  /\ pc = "parse" /\ CharAt(call.format, cp) = NUL
  /\ pc' = "fetch"
  /\ UNCHANGED <<parseVars, heap, errno, faults, outVars>>

Fetched(type, v) == IF v = NullPointer THEN NullText ELSE v

(* PRINTF_FETCHARGS: an argument that no directive uses has no type. *)
FetchArgs ==
  /\ pc = "fetch"
  /\ IF \E k \in DOMAIN a.types : a.types[k] = NoType
       THEN Fails("EINVAL", FALSE)
       ELSE /\ \E n \in [DOMAIN a.types -> Ints], s \in Strings \cup {NullPointer} :
                 values' = [k \in DOMAIN a.types |->
                              CASE a.types[k][1] = "INT" -> n[k]
                                [] a.types[k][1] = "UINT" -> IF n[k] < 0 THEN -n[k] ELSE n[k]
                                [] a.types[k][1] = "POINTER" -> IF n[k] <= 0 THEN 1 - n[k] ELSE n[k]
                                [] OTHER -> Fetched(a.types[k], s)]
            /\ pc' = "buf"
            /\ UNCHANGED <<parseVars, heap, errno, faults, i, result, length, count, usesN, stored>>

(* The buffer for the directive that snprintf is given, and resultbuf. *)
BufNeeded == xsum(xsum(xsum(7, maxima.width), maxima.prec), 6)

AllocateBuf(fails) ==
  LET large == BufNeeded >= ALLOCA_MAX
  IN
  /\ pc = "buf"
  /\ IF large /\ (size_overflow_p(BufNeeded) \/ fails) THEN Fails("ENOMEM", fails)
     ELSE /\ heap' = IF large THEN heap \cup {"buf"} ELSE heap
          /\ result' = Chars(ANY, call.buffer)
          /\ i' = 1 /\ cp' = 1 /\ pc' = "loop"
          /\ UNCHANGED <<call, d, a, maxima, errno, faults, values, length, count, usesN, stored>>

-----------------------------------------------------------------------------
(* Directives *)

(* Append text; past the end of the buffer it would overrun it. *)
Append_(needed, text, next, at) ==
  \E buf \in {Ensured(needed, length)} :
    /\ pc' = IF InBounds(buf, text) THEN next ELSE "overrun"
    /\ result' = Put(buf, text)
    /\ length' = length + Len(text)
    /\ heap' = HeapEnsured(needed)
    /\ cp' = at

(* The characters up to the next directive. *)
CopyLiteral(fails) ==
  LET n == DirStart(i) - cp
      needed == xsum(length, n)
  IN
  /\ pc = "loop" /\ n > 0
  /\ IF Refused(needed, fails) THEN Fails("ENOMEM", fails)
     ELSE /\ Append_(needed, SubSeq(call.format, cp, DirStart(i) - 1), "loop", DirStart(i))
          /\ UNCHANGED <<call, d, a, maxima, errno, faults, values, i, count, usesN, stored>>

AtDirective == pc = "loop" /\ i <= Len(d.dir) /\ cp = d.dir[i].start
dp == d.dir[i]

(* %% *)
Percent(fails) ==
  LET needed == xsum(length, 1)
  IN
  /\ AtDirective /\ dp.conv = "%"
  /\ IF Refused(needed, fails) THEN Fails("ENOMEM", fails)
     ELSE /\ Append_(needed, <<"%">>, "loop", dp.end)
          /\ i' = i + 1
          /\ UNCHANGED <<call, d, a, maxima, errno, faults, values, count, usesN, stored>>

(* %n *)
StoreCount ==
  /\ AtDirective /\ dp.conv = "n"
  /\ stored' = [k \in DOMAIN stored \cup {i} |-> IF k = i THEN length ELSE stored[k]]
  /\ cp' = dp.end /\ i' = i + 1
  /\ UNCHANGED <<call, pc, d, a, maxima, heap, errno, faults, values, result, length, count, usesN>>

(* has_width, width and flags: a negative width says "-". *)
HasWidth == dp.width.start # dp.width.end
Width == IF dp.width.index # NONE THEN values[dp.width.index + 1]
         ELSE Number(call.format, dp.width.start, dp.width.end)
FieldWidth == IF Width < 0 THEN -Width ELSE Width
Flags == IF HasWidth /\ Width < 0 THEN dp.flags \cup {"-"} ELSE dp.flags

(* has_precision and precision: a negative one counts as omitted. *)
PrecisionGiven == IF dp.prec.start = dp.prec.end THEN -1
                  ELSE IF dp.prec.index # NONE THEN values[dp.prec.index + 1]
                  ELSE Number(call.format, dp.prec.start + 1, dp.prec.end)
HasPrecision == PrecisionGiven >= 0

PrecOurselves == call.build.unbounded /\ PrecisionGiven > 0
                   /\ dp.conv \in {"d", "i", "u", "o", "x", "X", "p"}
PadOurselves == PrecOurselves

(* The directive for snprintf and its length with %n and '\0'. *)
Directive ==
  1 + Cardinality(Flags \ {"0"})
    + (IF PadOurselves THEN 0 ELSE Cardinality(Flags \cap {"0"}) + dp.width.end - dp.width.start)
    + (IF PrecOurselves THEN 0 ELSE dp.prec.end - dp.prec.start)
    + (CASE a.types[dp.index + 1][2] = "LONGLONG" -> 2
         [] a.types[dp.index + 1][2] \in {"LONG", "WIDE"} -> 1 [] OTHER -> 0)
    + 1 + (IF call.build.n = "no" THEN 1 ELSE 3)

(* The digits a type can have; its bits are those of int. *)
DecimalDigits == ((INT_BITS * 30103) \div 100000) + 1
OctalDigits == ((INT_BITS * 333334) \div 1000000) + 1
HexadecimalDigits == (INT_BITS \div 4) + 1

(* The argument of the directive; its type says how it was passed. *)
Argument == values[dp.index + 1]

(* MAX_ROOM_NEEDED *)
MaxRoomNeeded ==
  LET prec == IF HasPrecision THEN PrecisionGiven ELSE 6
      v == Argument
      body == CASE dp.conv \in {"d", "i", "u"} -> xsum(xtimes(Greater(DecimalDigits, prec), 2), 1)
                [] dp.conv = "o" -> xsum(Greater(OctalDigits, prec), 1)
                [] dp.conv = "p" -> HexadecimalDigits + 2
                [] dp.conv \in {"x", "X"} -> xsum(Greater(HexadecimalDigits, prec), 2)
                [] OTHER -> IF HasPrecision THEN Lesser(prec, Len(v)) ELSE Len(v)
  IN  xsum(IF PadOurselves \/ ~HasWidth THEN body ELSE Greater(body, FieldWidth), 1)

(* The directive is put together, and there is room for two characters. *)
BuildDirective(fails) ==
  LET needed == xsum(length, 2)
  IN
  /\ AtDirective /\ dp.conv \notin {"%", "n"}
  /\ IF Refused(needed, fails) THEN Fails("ENOMEM", fails)
     ELSE /\ pc' = IF Directive <= BufNeeded THEN "snprintf" ELSE "overrun"
          /\ heap' = HeapEnsured(needed)
          /\ result' = Written(Ensured(needed, length), length, <<>>, 1)
          /\ usesN' = (call.build.n # "no")
          /\ UNCHANGED <<parseVars, errno, faults, values, i, length, count, stored>>

(* What snprintf is asked for. *)
SnprintfText ==
  Converted(dp.conv, IF PadOurselves THEN Flags \ {"0"} ELSE Flags,
            IF PadOurselves \/ ~HasWidth THEN 0 ELSE Width,
            IF PrecOurselves \/ ~HasPrecision THEN -1 ELSE PrecisionGiven,
            Argument)

(* Behind the directive; what is output stays in the buffer. *)
Advance(n) ==
  /\ pc' = "loop"
  /\ length' = length + n
  /\ cp' = dp.end /\ i' = i + 1

(* Make room and try once more. *)
Retry(n, fails) ==
  IF Refused(n, fails) THEN Fails("ENOMEM", fails)
  ELSE /\ result' = Ensured(n, length)
       /\ heap' = HeapEnsured(n)
       /\ UNCHANGED <<parseVars, pc, errno, faults, values, i, length, count, usesN, stored>>

(* A C99 snprintf returns at least maxlen, another one maxlen - 1. *)
DidNotFit(n, maxlen) == n + 1 >= maxlen

(* Mutant: the buffer grows only by what snprintf says it needs. *)
RoomWanted_NotProportional(n) == xsum(length, n + 1)

(* The buffer grows in proportion, as snprintf may report a small count. *)
RoomWanted(n) == Greater(xsum(length, n + 2), xtimes(Len(result), 2))

(* The room that snprintf is told of. *)
MaxLen == Lesser(Len(result) - length, INT_MAX)

(* snprintf fails for a reason of its own, which it may give in errno. *)
SnprintfFails ==
  \E e \in {NUL, "EILSEQ", "ENOMEM"} :
    /\ pc = "snprintf" /\ faults = {} /\ ~usesN
    /\ call.build.retval # "c99" => MaxLen >= MaxRoomNeeded
    /\ pc' = "failed" /\ heap' = Cleanup
    /\ errno' = IF e # NUL THEN e ELSE IF dp.conv \in {"c", "s"} THEN "EILSEQ" ELSE "EINVAL"
    /\ faults' = {"snprintf"}
    /\ UNCHANGED <<parseVars, outVars>>

(* One round of the loop around snprintf. *)
Snprintf(fails) ==
  \E maxlen \in {MaxLen} :
  \E text \in {SnprintfText} :
  \E counted \in {Counted(call.build, usesN, text)} :
  \E n \in {Greater(counted, Retcount(call.build, text, maxlen))} :
    LET bigger == Greater(xsum(length, MaxRoomNeeded), xsum(xtimes(Len(result), 2), 12))
    IN
    /\ IF usesN /\ counted < 0
         THEN /\ usesN' = FALSE  \* it does not understand %n
              /\ UNCHANGED <<parseVars, pc, heap, errno, faults, values, i, result, length,
                             count, stored>>
       ELSE IF n < 0
         THEN IF call.build.retval # "c99" /\ maxlen < MaxRoomNeeded THEN Retry(bigger, fails)
              ELSE Fails("EOVERFLOW", FALSE)
       ELSE IF DidNotFit(n, maxlen)
         THEN IF maxlen = INT_MAX THEN Fails("EOVERFLOW", FALSE) ELSE Retry(RoomWanted(n), fails)
       ELSE /\ result' = Written(result, length, text, maxlen)
            /\ UNCHANGED <<call, d, a, maxima, heap, errno, faults, values, usesN, stored>>
            /\ IF PrecOurselves
                 THEN pc' = "precision" /\ count' = n /\ UNCHANGED <<cp, i, length>>
                 ELSE Advance(n) /\ UNCHANGED count

(* Mutant: what snprintf has written counts for nothing when the buffer is *)
(* moved.                                                                  *)
Keep_NotOutput == length

(* "length += count" around ENSURE_ALLOCATION: a buffer that moves takes   *)
(* along what snprintf has written behind length.                          *)
Keep == length + count

Output == SubSeq(result, length + 1, length + count)

(* "Handle the precision": zeroes behind the sign or 0x. *)
InsertZeroes(fails) ==
  \E prefix \in {IF count >= 1 /\ Output[1] \in {"-", "+", " "} THEN 1
                 ELSE IF count >= 2 /\ Output[1] = "0" /\ Output[2] \in {"x", "X"} THEN 2 ELSE 0} :
  \E insert \in {Greater(0, PrecisionGiven - (count - prefix))} :
  \E needed \in {IF insert > 0 THEN xsum(length, count + insert) ELSE 0} :
  \E buf \in {Ensured(needed, Keep)} :
  \E text \in {SubSeq(buf, length + 1, length + count)} :
  \E out \in {SubSeq(text, 1, prefix) \o Chars("0", insert) \o SubSeq(text, prefix + 1, count)} :
    IF Refused(needed, fails) THEN Fails("ENOMEM", fails)
    ELSE /\ pc' = IF InBounds(buf, out) THEN "pad" ELSE "overrun"
         /\ result' = Put(buf, out)
         /\ count' = Len(out)
         /\ heap' = HeapEnsured(needed)
         /\ UNCHANGED <<parseVars, errno, faults, values, i, length, usesN, stored>>

(* "Perform padding". *)
Pad(fails) ==
  \E pad \in {IF HasWidth THEN Greater(0, FieldWidth - count) ELSE 0} :
  \E needed \in {IF pad > 0 /\ xsum(count, pad) > Len(result) - length
                  THEN Greater(xsum(length, xsum(count, pad)), xtimes(Len(result), 2)) ELSE 0} :
  \E buf \in {Ensured(needed, Keep)} :
  \E text \in {SubSeq(buf, length + 1, length + count)} :
  \E skip \in {IF text[1] = "-" THEN 1 ELSE 0} :
  \E out \in {IF "-" \in Flags THEN text \o Chars(" ", pad)
              ELSE IF "0" \in Flags /\ text[skip + 1] \notin Letters
                THEN SubSeq(text, 1, skip) \o Chars("0", pad) \o SubSeq(text, skip + 1, count)
              ELSE Chars(" ", pad) \o text} :
    IF Refused(needed, fails) THEN Fails("ENOMEM", fails)
    ELSE IF ~InBounds(buf, out)
      THEN pc' = "overrun" /\ UNCHANGED <<parseVars, heap, errno, faults, outVars>>
    ELSE /\ Advance(Len(out))
         /\ result' = Put(buf, out)
         /\ heap' = HeapEnsured(needed)
         /\ UNCHANGED <<call, d, a, maxima, errno, faults, values, count, usesN, stored>>

-----------------------------------------------------------------------------
(* The end *)

(* "Add the final NUL" and shrink: a realloc that fails leaves the result. *)
Finish(fails) ==
  LET needed == xsum(length, 1)
      buf == Ensured(needed, length)
      shrinks == ("result" \in heap \/ MustGrow(needed)) /\ ~fails
  IN
  /\ pc = "loop" /\ i > Len(d.dir) /\ cp = DirStart(i)
  /\ IF Refused(needed, fails) THEN Fails("ENOMEM", fails)
     ELSE /\ pc' = "return"
          /\ result' = [k \in IF shrinks THEN 1 .. (length + 1) ELSE DOMAIN buf |->
                          IF k = length + 1 THEN NUL ELSE buf[k]]
          /\ heap' = HeapEnsured(needed) \cap {"result"}
          /\ UNCHANGED <<parseVars, errno, faults, values, i, length, count, usesN, stored>>

(* vasprintf, which has no buffer of its own to pass, returns an int. *)
Return ==
  /\ pc = "return"
  /\ IF call.buffer = 0 /\ length > INT_MAX
       THEN pc' = "failed" /\ errno' = "EOVERFLOW" /\ heap' = {}
       ELSE pc' = "done" /\ UNCHANGED <<errno, heap>>
  /\ UNCHANGED <<parseVars, faults, outVars>>

Init ==
  /\ ParseInit
  /\ values = <<>> /\ i = 0 /\ result = <<>> /\ length = 0 /\ count = 0
  /\ usesN = FALSE /\ stored = <<>>

Parse ==
  /\ ParseOther \/ ParseDirective(FALSE) \/ (faults = {} /\ ParseDirective(TRUE))
  /\ UNCHANGED outVars

Work(fails) ==
  \/ AllocateBuf(fails) \/ CopyLiteral(fails) \/ Percent(fails) \/ BuildDirective(fails)
  \/ (pc = "snprintf" /\ Snprintf(fails))
  \/ (pc = "precision" /\ InsertZeroes(fails))
  \/ (pc = "pad" /\ Pad(fails))
  \/ Finish(fails)

Next ==
  \/ Parse \/ ParseEnd \/ FetchArgs \/ StoreCount \/ Return
  \/ Work(FALSE)
  \/ Work(TRUE)
  \/ SnprintfFails

(* The call is one thread that runs to its end; that it ends relies on no  *)
(* failure.                                                                *)
Spec == Init /\ [][Next]_vars
             /\ WF_vars(Parse \/ ParseEnd \/ FetchArgs \/ StoreCount \/ Return \/ Work(FALSE))

-----------------------------------------------------------------------------
(* What a format means *)

(* The arguments of a piece in the order in which they are taken: places   *)
(* counted from 1, or 0 for the next one, and types.  A piece is a literal *)
(* character or a directive, whose field is a number, "*", or "*n$".       *)
FieldUse(field) == IF field.kind = "star" THEN <<[pos |-> field.n, type |-> IntType]>> ELSE <<>>
Uses(piece) ==
  IF piece.conv = NUL /\ piece.lit THEN <<>>
  ELSE FieldUse(piece.width) \o FieldUse(piece.prec)
         \o (IF piece.conv = "%" THEN <<>>
             ELSE <<[pos |-> piece.pos,
                     type |-> Type(piece.conv, Sizes(piece.size, 1, Len(piece.size) + 1))]>>)

AllUses == FlattenSeq([k \in DOMAIN call.pieces |-> Uses(call.pieces[k])])
UsesBefore(k) == FlattenSeq([j \in 1 .. (k - 1) |-> Uses(call.pieces[j])])

(* The argument of use j of some. *)
Place(uses, j) == IF uses[j].pos # 0 THEN uses[j].pos
                  ELSE Cardinality({m \in 1 .. j : uses[m].pos = 0})

(* Every argument has one type, there is no gap, and no 0$. *)
Meaningful(uses) ==
  /\ \A k \in DOMAIN call.pieces :
       LET p == call.pieces[k]
       IN  ~p.lit => p.conv \in Conversions /\ p.pos # -1
                       /\ p.width.n # -1 /\ p.prec.n # -1
  /\ \A j, m \in DOMAIN uses : Place(uses, j) = Place(uses, m) => uses[j].type = uses[m].type
  /\ \A n \in {Place(uses, j) : j \in DOMAIN uses} :
       n <= Len(uses) /\ \A m \in 1 .. n : \E j \in DOMAIN uses : Place(uses, j) = m

(* What a piece gives. *)
FieldValue(uses, field, j, omitted) ==
  CASE field.kind = "star" -> values[Place(uses, j)]
    [] field.kind = "digits" -> field.n
    [] field.kind = "empty" -> 0
    [] OTHER -> omitted
TextOf(uses, k) ==
  LET p == call.pieces[k]
      j == Len(UsesBefore(k)) + 1
      jPrec == j + Len(FieldUse(p.width))
      jArg == jPrec + Len(FieldUse(p.prec))
      prec == FieldValue(uses, p.prec, jPrec, -1)
  IN  IF p.lit THEN <<p.char>>
      ELSE IF p.conv = "%" THEN <<"%">>
      ELSE IF p.conv = "n" THEN <<>>
      ELSE Converted(p.conv, ToSet(p.flags), FieldValue(uses, p.width, j, 0), Greater(prec, -1),
                     values[Place(uses, jArg)])
TextBefore(uses, k) == FlattenSeq([j \in 1 .. (k - 1) |-> TextOf(uses, j)])
Text(uses) == TextBefore(uses, Len(call.pieces) + 1)
DirectivePieces == SelectSeq([k \in DOMAIN call.pieces |-> k], LAMBDA k : ~call.pieces[k].lit)

(* "0" with a precision, which ISO C ignores for numbers. *)
ZeroAndPrecision ==
  \E k \in DOMAIN call.pieces :
    LET p == call.pieces[k]
    IN  ~p.lit /\ "0" \in ToSet(p.flags) /\ p.prec.kind # "none"

-----------------------------------------------------------------------------
(* Properties *)

(* vasnprintf gives what the format means, whatever the system's snprintf  *)
(* returns when there is too little room and whichever buffer was passed:  *)
(* each directive has its own argument, nothing is cut off or lost when    *)
(* the buffer moves, nothing is written past an end, a %n stores the       *)
(* length so far, and nothing stays allocated but the result.  A format is *)
(* refused only if it means nothing, if it is too long for half of the     *)
(* address space, or if malloc or snprintf fails.  (Where it handles       *)
(* precisions itself, zeroes and spaces may differ for "0" with a          *)
(* precision: "%05.2d" gives 00003.)                                       *)
FormatsAsMeant ==
  /\ pc # "overrun"
  /\ pc \in {"done", "failed"} /\ (pc = "done" \/ faults = {}) => \A uses \in {AllUses} :
       IF ~Meaningful(uses) THEN pc = "failed"
       ELSE \A text \in {Text(uses)} :
         IF pc = "failed" THEN Len(text) + 2 > INT_MAX
         ELSE /\ length = Len(text)
              /\ SubSeq(result, 1, length) = text \/ (call.build.unbounded /\ ZeroAndPrecision)
              /\ result[length + 1] = NUL
              /\ \A k \in DOMAIN stored :
                   stored[k] = Len(TextBefore(uses, DirectivePieces[k]))
  /\ pc = "done" => heap \subseteq {"result"} /\ (call.buffer = 0 => heap = {"result"})
  /\ pc = "failed" => heap = {} /\ errno # NUL

(* Every call returns, also where snprintf reports too small a count when  *)
(* the buffer is too small.                                                *)
FormattingEnds == <>(pc \in {"done", "failed"})
=============================================================================
