------------------------------- MODULE Printf -------------------------------
(***************************************************************************)
(* vsprintf of kernel/printf.c and the two conversions of kernel/util.c as *)
(* operators from formats and arguments to sequences of characters.  A     *)
(* format is a sequence of one-character strings.  An argument is an       *)
(* integer, a sequence of characters for %s, or a character for %c.  int   *)
(* and long have W bits and short has H, 32 and 16 in the code.            *)
(***************************************************************************)
EXTENDS Integers, Sequences, SequencesExt, FiniteSetsExt

CONSTANTS W, H

ASSUME WidthAssumption ==
    W \in Nat /\ H \in Nat /\ W % 4 = 0 /\ 0 < H /\ H <= W /\ W <= 28

End == "nul"        \* the byte that ends a format
DigitChars == <<"0", "1", "2", "3", "4", "5", "6", "7", "8", "9">>
Upper == DigitChars \o <<"A", "B", "C", "D", "E", "F">>
Lower == DigitChars \o <<"a", "b", "c", "d", "e", "f">>

Signed(n, bits) ==
    LET u == n % 2^bits IN IF u < 2^(bits - 1) THEN u ELSE u - 2^bits

Repeat(c, n) == [k \in 1..n |-> c]

-----------------------------------------------------------------------------
(* Plausible bugs of the code, for the mutation checks of the README.      *)

SizeKept(size) == size

HexLeadingZeros(n) ==
    <<"0", "x">> \o [k \in 1..(W \div 4) |-> Lower[((n \div 16^((W \div 4) - k)) % 16) + 1]]

-----------------------------------------------------------------------------
(***************************************************************************)
(* number().  The three padding loops count the same size down, each test  *)
(* of `while (size-- > 0)' included.                                       *)
(***************************************************************************)
AfterLoop(size) == Min({size, 0}) - 1

RECURSIVE Tmp(_, _)
Tmp(u, base) ==     \* the digits, the least one first
    IF u = 0 THEN <<>> ELSE <<u % base>> \o Tmp(u \div base, base)

SignChar(num, type) ==
    CASE "SIGN" \notin type -> <<>>
      [] num < 0            -> <<"-">>
      [] "PLUS" \in type    -> <<"+">>
      [] "SPACE" \in type   -> <<" ">>
      [] OTHER              -> <<>>

(* num = -num leaves the smallest long as it is; the division is unsigned. *)
Magnitude(num, type) ==
    (IF "SIGN" \in type /\ num < 0 THEN Signed(-num, W) ELSE num) % 2^W

Prefix(base, type) ==
    CASE "SPECIAL" \notin type -> <<>>
      [] base = 8  -> <<"0">>
      [] base = 16 -> <<"0", IF "SMALL" \in type THEN "x" ELSE "X">>
      [] OTHER     -> <<>>

Number(num, base, size, precision, flags) ==
    LET type   == IF "LEFT" \in flags THEN flags \ {"ZEROPAD"} ELSE flags
        digits == IF "SMALL" \in type THEN Lower ELSE Upper
        sign   == SignChar(num, type)
        prefix == Prefix(base, type)
        tmp    == IF num = 0 THEN <<0>> ELSE Tmp(Magnitude(num, type), base)
        prec   == Max({Len(tmp), precision})
        size1  == size - Len(sign) - Len(prefix) - prec
        plain  == type \cap {"ZEROPAD", "LEFT"} = {}
        size2  == IF plain THEN AfterLoop(size1) ELSE size1
        right  == "LEFT" \notin type
        size3  == IF right THEN AfterLoop(size2) ELSE size2
    IN  (IF plain THEN Repeat(" ", size1) ELSE <<>>) \o sign \o prefix \o
        (IF right THEN Repeat(IF "ZEROPAD" \in type THEN "0" ELSE " ", size2)
         ELSE <<>>) \o
        Repeat("0", prec - Len(tmp)) \o
        [k \in 1..Len(tmp) |-> digits[tmp[Len(tmp) + 1 - k] + 1]] \o
        Repeat(" ", size3)

-----------------------------------------------------------------------------
(* The scanning of a directive of fmt that starts at position i.           *)

At(fmt, k) == IF k <= Len(fmt) THEN fmt[k] ELSE End

Scan(fmt, k, S) == Min({j \in k..(Len(fmt) + 1) : At(fmt, j) \notin S})

FlagOf == [c \in {"-", "+", " ", "#", "0"} |->
             CASE c = "-" -> "LEFT" [] c = "+" -> "PLUS" [] c = " " -> "SPACE"
               [] c = "#" -> "SPECIAL" [] c = "0" -> "ZEROPAD"]

Atoi(fmt, a, b) ==  \* skip_atoi on positions a to b - 1
    FoldLeft(LAMBDA n, c : n * 10 + SelectInSeq(DigitChars, LAMBDA d : d = c) - 1,
             0, SubSeq(fmt, a, b - 1))

(* Flags, width, precision and qualifier, the conversion character and the *)
(* number of arguments consumed so far.                                    *)
Directive(fmt, i, args) ==
    LET f     == Scan(fmt, i + 1, DOMAIN FlagOf)
        flags == {FlagOf[fmt[k]] : k \in (i + 1)..(f - 1)}
        starW == At(fmt, f) = "*"
        w     == IF starW THEN f + 1 ELSE Scan(fmt, f, ToSet(DigitChars))
        width == CASE starW -> args[1] [] w > f -> Atoi(fmt, f, w) [] OTHER -> -1
        dot   == At(fmt, w) = "."
        starP == dot /\ At(fmt, w + 1) = "*"
        p     == CASE ~dot  -> w
                   [] starP -> w + 2
                   [] OTHER -> Scan(fmt, w + 1, ToSet(DigitChars))
        used  == IF starW THEN 1 ELSE 0
        prec  == CASE ~dot -> -1
                   [] starP -> Max({0, args[used + 1]})
                   [] OTHER -> Atoi(fmt, w + 1, p)
        q     == IF At(fmt, p) \in {"h", "l", "L"} THEN 1 ELSE 0
    IN  [flags |-> IF starW /\ width < 0 THEN flags \cup {"LEFT"} ELSE flags,
         width |-> IF starW /\ width < 0 THEN -width ELSE width,
         precision |-> prec,
         qualifier |-> IF q = 1 THEN fmt[p] ELSE "none",
         conv |-> At(fmt, p + q), at |-> p + q + 1,
         used |-> used + (IF starP THEN 1 ELSE 0)]

(* The value va_arg yields for an integer conversion, as a long.           *)
IntArg(d, signed, v) ==
    CASE d.qualifier = "h" /\ signed  -> Signed(v, H)
      [] d.qualifier = "h" /\ ~signed -> Signed(v % 2^H, W)
      [] OTHER                        -> Signed(v, W)

Padded(d, s) ==     \* the loops of %c and %s around their text
    IF "LEFT" \in d.flags THEN s \o Repeat(" ", d.width - Len(s))
    ELSE Repeat(" ", d.width - Len(s)) \o s

(* What the directive d writes, given its argument.                        *)
Converted(d, arg) ==
    CASE d.conv = "c" -> Padded(d, <<arg>>)
      [] d.conv = "s" -> Padded(d, arg)     \* strnlen ignores its bound
      [] d.conv = "p" ->
           Number(Signed(arg, W), 16, IF d.width = -1 THEN W \div 4 ELSE d.width,
                  d.precision,
                  d.flags \cup (IF d.width = -1 THEN {"ZEROPAD"} ELSE {}))
      [] d.conv = "n" -> <<>>
      [] d.conv = "%" -> <<"%">>
      [] d.conv \in {"o", "x", "X", "d", "i", "u"} ->
           LET signed == d.conv \in {"d", "i"}
               base   == CASE d.conv = "o" -> 8 [] d.conv \in {"x", "X"} -> 16
                           [] OTHER -> 10
           IN  Number(IntArg(d, signed, arg), base, d.width, d.precision,
                      d.flags \cup (IF signed THEN {"SIGN"} ELSE {})
                              \cup (IF d.conv = "x" THEN {"SMALL"} ELSE {}))
      [] OTHER -> IF d.conv = End THEN <<"%">> ELSE <<"%", d.conv>>

TakesArg(d) == d.conv \in {"c", "s", "p", "n", "o", "x", "X", "d", "i", "u"}

(* The loop over the format: the text written and the counts %n stores.    *)
RECURSIVE VsprintfFrom(_, _, _, _)
VsprintfFrom(fmt, i, args, done) ==
    IF i > Len(fmt) THEN done
    ELSE IF fmt[i] # "%"
    THEN VsprintfFrom(fmt, i + 1, args, [done EXCEPT !.text = Append(@, fmt[i])])
    ELSE LET d    == Directive(fmt, i, args)
             rest == SubSeq(args, d.used + 1, Len(args))
         IN  VsprintfFrom(fmt, Min({d.at, Len(fmt) + 1}),
                IF TakesArg(d) THEN Tail(rest) ELSE rest,
                [text |-> done.text \o
                          Converted(d, IF TakesArg(d) THEN Head(rest) ELSE 0),
                 counts |-> IF d.conv = "n" THEN Append(done.counts, Len(done.text))
                            ELSE done.counts])

Vsprintf(fmt, args) == VsprintfFrom(fmt, 1, args, [text |-> <<>>, counts |-> <<>>])

-----------------------------------------------------------------------------
(* int_to_ascii: % and / truncate towards zero, and -n of the smallest int *)
(* is itself, so that its one digit is none.                               *)
RECURSIVE AsciiDigits(_)
AsciiDigits(n) ==
    IF n < 0 THEN <<"no digit">>
    ELSE <<DigitChars[(n % 10) + 1]>> \o
         (IF n \div 10 > 0 THEN AsciiDigits(n \div 10) ELSE <<>>)

IntToAscii(n) ==
    Reverse(AsciiDigits(IF n < 0 THEN Signed(-n, W) ELSE n) \o
            (IF n < 0 THEN <<"-">> ELSE <<>>))

(* hex_to_ascii on an empty string: the loop over all digits but the last  *)
(* tests > 0xA where the last one tests >= 0xA.                            *)
HexToAscii(n) ==
    LET nibble(k) == ((n % 2^W) \div 16^k) % 16
        upper(k)  == IF nibble(k) = 10 THEN ":" ELSE Lower[nibble(k) + 1]
        top       == Max({k \in 1..((W \div 4) - 1) : nibble(k) # 0} \cup {0})
    IN  <<"0", "x">> \o [j \in 1..top |-> upper(top + 1 - j)] \o
        <<Lower[nibble(0) + 1]>>
=============================================================================
