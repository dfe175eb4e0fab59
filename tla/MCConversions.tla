---------------------------- MODULE MCConversions ----------------------------
(* Numbers of three hexadecimal digits, so that leading zeros, inner and   *)
(* last digits differ.  Every directive stands between a literal and a     *)
(* plain %d, which shows whether the arguments are still in step.          *)
EXTENDS Conversions

None == [how |-> "none", n |-> 0]
Lit(k) == [how |-> "lit", n |-> k]
Star(k) == [how |-> "star", n |-> k]

FlagSeqs ==
    {SelectSeq(<<"-", "0", "+", " ", "#">>, LAMBDA c : c \in S) :
       S \in SUBSET {"-", "0", "+", " ", "#"}}

Item(flags, width, precision, qualifier, conv, arg) ==
    [flags |-> flags, width |-> width, precision |-> precision,
     qualifier |-> qualifier, conv |-> conv, arg |-> arg]

Widths == {None, Lit(10), Star(4), Star(-4)}
Precisions == {None, Lit(3), Star(0), Star(-1)}
IntArgs == {0, 9, -3, 200, -(2^(W - 1))}
Text == <<"a", "b">>

Plain == Item(<<>>, None, None, "none", "d", 7)
Literal == Item(<<>>, None, None, "none", "literal", "=")

Directives ==
    {Item(f, w, p, q, c, a) : f \in FlagSeqs, w \in Widths, p \in Precisions,
       q \in {"none", "h"}, c \in {"d", "u", "x", "X", "o"}, a \in IntArgs}
    \cup {Item(f, w, p, "none", c, a) : f \in FlagSeqs, w \in Widths,
            p \in Precisions, c \in {"i", "p"}, a \in IntArgs}
    \cup {Item(f, w, None, "l", c, a) : f \in FlagSeqs, w \in Widths,
            c \in {"d", "u"}, a \in IntArgs}
    \cup {Item(f, w, None, "none", "s", a) : f \in FlagSeqs, w \in Widths,
            a \in {<<>>, Text}}
    \cup {Item(f, w, None, "none", c, "a") : f \in FlagSeqs, w \in Widths,
            c \in {"c", "n", "%", "?"}}

MCFormats == {<<Literal, d, Plain>> : d \in Directives}
MCNumbers == -(2^(W - 1))..(2^(W - 1) - 1)

Word(text, value) == [text |-> text, value |-> value]
ArgWords == {Word(<<>>, 0), Word(<<"1", "0">>, 10), Word(<<" ", "2">>, 2),
             Word(<<"\"", "x", "\"">>, <<"x">>), Word(<<"7", "x">>, 7)}
ArgLists == {<<w>> : w \in ArgWords} \cup (ArgWords \X ArgWords)
            \cup (ArgWords \X ArgWords \X ArgWords)

(* Zero to three arguments, empty ones among them: `,)' ends the list and  *)
(* leaves 0 behind.                                                        *)
MCCommands ==
    {[name |-> <<"f", "g">>,
      words |-> [k \in DOMAIN l |-> l[k].text],
      values |-> [k \in 1..3 |-> IF k <= Len(l) THEN l[k].value ELSE 0]] :
        l \in ArgLists}
MCTails == {<<NUL>>, <<"(", "9", ",", "5", ")">>, <<")", "(">>, <<"4">>}
=============================================================================
