---------------------------- MODULE MCVasnprintf ----------------------------
(* Instance of Vasnprintf for TLC: formats of one and two directives, most *)
(* of them valid, on a machine whose long is its int.                      *)
EXTENDS Vasnprintf

Nothing == [kind |-> "none", n |-> 0]
Dig(n) == [kind |-> "digits", n |-> n]
Star(n) == [kind |-> "star", n |-> n]  \* 0: the next argument, -1: *0$
Empty == [kind |-> "empty", n |-> 0]   \* a precision of a dot only

Directives(poss, flagss, widths, precs, sizes, convs) ==
  {[lit |-> FALSE, pos |-> p, flags |-> f, width |-> w, prec |-> r, size |-> s, conv |-> c] :
     p \in poss, f \in flagss, w \in widths, r \in precs, s \in sizes, c \in convs}
Literal(c) == [lit |-> TRUE, char |-> c, conv |-> NUL]

NumberText(n) == IF n = -1 THEN <<"0">> ELSE Decimal(n)
FieldText(field) ==
  CASE field.kind = "none" -> <<>>
    [] field.kind = "empty" -> <<>>
    [] field.kind = "digits" -> Decimal(field.n)
    [] field.kind = "star" -> <<"*">> \o (IF field.n = 0 THEN <<>> ELSE NumberText(field.n) \o <<"$">>)
PieceText(p) ==
  IF p.lit THEN <<p.char>>
  ELSE <<"%">> \o (IF p.pos = 0 THEN <<>> ELSE NumberText(p.pos) \o <<"$">>) \o p.flags
         \o FieldText(p.width)
         \o (IF p.prec.kind = "none" THEN <<>> ELSE <<".">> \o FieldText(p.prec))
         \o p.size \o (IF p.conv = NUL THEN <<>> ELSE <<p.conv>>)

Call(pieces, build, buffer) ==
  [pieces |-> pieces, format |-> FlattenSeq([k \in DOMAIN pieces |-> PieceText(pieces[k])]),
   build |-> build, buffer |-> buffer]

glibc == [n |-> "no", retval |-> "c99", unbounded |-> FALSE]
Builds == {glibc,
           [n |-> "understood", retval |-> "short", unbounded |-> FALSE],
           [n |-> "ignored", retval |-> "short", unbounded |-> TRUE],
           [n |-> "no", retval |-> "negative", unbounded |-> TRUE]}

(* Formats for the parser. *)
AnyOne == Directives({0, 2, 62}, {<<"-">>}, {Nothing, Star(0), Star(1)},
                     {Nothing, Star(0), Star(2)}, {<<>>, <<"h", "h">>}, {"d", "n", "%"})
AtEnd == Directives({0, -1}, {<<>>}, {Nothing, Star(-1)}, {Nothing},
                    {<<>>, <<"h">>, <<"l", "l">>, <<"L">>, <<"j">>, <<"z">>, <<"Z", "l">>},
                    {"d", "f", "c", "p", "y", NUL})
Plain == Directives({0, 1}, {<<>>}, {Nothing}, {Nothing}, {<<>>}, {"u", "s", "%"})
ParserFormats == {<<x>> : x \in AnyOne \cup AtEnd}
                   \cup {<<Literal("b"), x, y>> : x \in Plain, y \in Plain \cup AtEnd}
                   \cup [1 .. 3 -> Plain]

(* Formats for the output. *)
Numbers == Directives({0}, {<<>>, <<"-", "+">>, <<"0">>}, {Nothing, Dig(14), Star(0)},
                      {Nothing, Empty, Dig(13), Star(0)}, {<<>>}, {"d"})
Others == Directives({0}, {<<>>}, {Nothing, Dig(99)}, {Nothing, Dig(2)}, {<<>>}, {"s"})
            \cup Directives({0}, {<<"#">>}, {Nothing}, {Nothing, Dig(3)}, {<<>>}, {"x"})
Bases == Directives({0}, {<<"#">>, <<>>}, {Nothing, Dig(7)}, {Nothing, Dig(3)}, {<<>>}, {"o", "X"})
           \cup Directives({0}, {<<>>}, {Nothing, Dig(7)}, {Nothing}, {<<>>}, {"p"})
Counts == Directives({0}, {<<>>}, {Nothing}, {Nothing}, {<<>>}, {"n"})
OutputFormats == {<<Literal("b"), x, y>> : x \in Numbers, y \in Counts}
                   \cup {<<x, y>> : x, y \in Others}
                   \cup {<<Literal("b"), x>> : x \in Bases}

MCCases ==
  {Call(f, glibc, 0) : f \in ParserFormats}
    \cup {Call(f, b, s) : f \in OutputFormats, b \in Builds, s \in {0, 4, 15}}

MCInts == {-13, 0, 14}
MCStrings == {Chars("s", 3), Chars("s", 26)}
=============================================================================
