----------------------------- MODULE Conversions -----------------------------
(***************************************************************************)
(* The kernel's pure text algorithms run on given inputs: vsprintf on a    *)
(* format with its arguments, the number conversions of kernel/util.c, and *)
(* the command parser on a line with the rest of an older one behind it.   *)
(* The results are compared with reference definitions that do not follow  *)
(* the code: padding to a width, positional digits, and typing a call.     *)
(***************************************************************************)
EXTENDS Printf, Parser

CONSTANTS
    Formats,        \* sequences of items, as described at Unparsed
    Numbers,        \* arguments of int_to_ascii and hex_to_ascii
    Commands,       \* calls, with their arguments as typed and their values
    Tails           \* what lies behind the terminator of a line

VARIABLES job, result

vars == <<job, result>>

Pending == [kind |-> "pending"]

Jobs == [kind : {"format"}, items : Formats] \cup [kind : {"number"}, n : Numbers]
        \cup [kind : {"command"}, call : Commands, tail : Tails]

Init == job \in Jobs /\ result = Pending

-----------------------------------------------------------------------------
(***************************************************************************)
(* A format is given as items.  A literal is one character; a directive    *)
(* has a sequence of flag characters, a width and a precision that are     *)
(* absent, spelled out or taken from the arguments (`*'), a qualifier, the *)
(* conversion and its argument.                                            *)
(***************************************************************************)
Decimal(n) == IF n < 10 THEN <<DigitChars[n + 1]>>
              ELSE <<DigitChars[(n \div 10) + 1], DigitChars[(n % 10) + 1]>>

Field(f) == CASE f.how = "none" -> <<>> [] f.how = "lit" -> Decimal(f.n)
              [] f.how = "star" -> <<"*">>

FieldArg(f) == IF f.how = "star" THEN <<f.n>> ELSE <<>>

Unparsed(item) ==
    IF item.conv = "literal" THEN <<item.arg>>
    ELSE <<"%">> \o item.flags \o Field(item.width) \o
         (IF item.precision.how = "none" THEN <<>> ELSE <<".">> \o Field(item.precision))
         \o (IF item.qualifier = "none" THEN <<>> ELSE <<item.qualifier>>)
         \o <<item.conv>>

HasArg(item) == item.conv \in {"c", "s", "p", "n", "o", "x", "X", "d", "i", "u"}

ArgsOf(item) ==
    IF item.conv = "literal" THEN <<>>
    ELSE FieldArg(item.width) \o FieldArg(item.precision) \o
         (IF HasArg(item) THEN <<item.arg>> ELSE <<>>)

RunSprintf ==
    /\ result = Pending /\ job.kind = "format"
    /\ result' = Vsprintf(FlattenSeq([k \in DOMAIN job.items |-> Unparsed(job.items[k])]),
                          FlattenSeq([k \in DOMAIN job.items |-> ArgsOf(job.items[k])]))
    /\ UNCHANGED job

RunToAscii ==
    /\ result = Pending /\ job.kind = "number"
    /\ result' = [dec |-> IntToAscii(job.n), hex |-> HexToAscii(job.n)]
    /\ UNCHANGED job

(* The line as append has left it in the buffer: terminated, and followed  *)
(* by what an older line left there.                                       *)
BufferOf(call, tail) ==
    LET s == Unparse(call) \o <<NUL>>
        n == Len(tail)
    IN  [i \in 0..(Cap - 1) |-> IF i < Len(s) THEN s[i + 1] ELSE tail[(i % n) + 1]]

RunParser ==
    /\ result = Pending /\ job.kind = "command"
    /\ LET f == Parse(BufferOf(job.call, job.tail))
       IN  result' = [astray |-> ParsesAstray(f),
                      name |-> CString(f.words[1]),
                      values |-> [k \in 1..3 |-> CheckParam(f.words[k + 1])]]
    /\ UNCHANGED job

Next == RunSprintf \/ RunToAscii \/ RunParser

Spec == Init /\ [][Next]_vars

-----------------------------------------------------------------------------
(* The reference rendering of a directive.                                 *)

Positional(u, base, table) ==
    LET k == Min({j \in 1..((W \div 3) + 1) : base^j > u})
    IN  [j \in 1..k |-> table[((u \div base^(k - j)) % base) + 1]]

FieldWidth(item) ==
    CASE item.width.how # "none" -> IF item.width.n < 0 THEN -item.width.n ELSE item.width.n
      [] item.conv = "p"         -> W \div 4
      [] OTHER                   -> 0

LeftJustified(item) == "-" \in ToSet(item.flags) \/ item.width.n < 0

ZeroPadded(item) ==
    "0" \in ToSet(item.flags) \/ (item.conv = "p" /\ item.width.how = "none")

Justified(item, s) ==
    LET fill == Repeat(" ", FieldWidth(item) - Len(s))
    IN  IF LeftJustified(item) THEN s \o fill ELSE fill \o s

IntegerText(item) ==
    LET flags  == ToSet(item.flags)
        bits   == IF item.qualifier = "h" /\ item.conv # "p" THEN H ELSE W
        signed == item.conv \in {"d", "i"}
        v      == IF signed THEN Signed(item.arg, bits) ELSE item.arg % 2^bits
        base   == CASE item.conv = "o" -> 8 [] item.conv \in {"x", "X", "p"} -> 16
                    [] OTHER -> 10
        sign   == CASE v < 0 -> <<"-">> [] signed /\ "+" \in flags -> <<"+">>
                    [] signed /\ " " \in flags -> <<" ">> [] OTHER -> <<>>
        prefix == CASE "#" \notin flags \/ base = 10 -> <<>> [] base = 8 -> <<"0">>
                    [] item.conv = "x" -> <<"0", "x">> [] OTHER -> <<"0", "X">>
        digits == Positional(IF v < 0 THEN -v ELSE v, base,
                             IF item.conv = "x" THEN Lower ELSE Upper)
        body   == Repeat("0", item.precision.n - Len(digits)) \o digits
        fill   == FieldWidth(item) - Len(sign \o prefix \o body)
    IN  IF ZeroPadded(item) /\ ~LeftJustified(item)
        THEN sign \o prefix \o Repeat("0", fill) \o body
        ELSE Justified(item, sign \o prefix \o body)

Expected(item) ==
    CASE item.conv = "literal" -> <<item.arg>>
      [] item.conv = "c" -> Justified(item, <<item.arg>>)
      [] item.conv = "s" -> Justified(item, item.arg)
      [] item.conv = "n" -> <<>>
      [] item.conv = "%" -> <<"%">>
      [] item.conv = "?" -> <<"%", "?">>
      [] OTHER -> IntegerText(item)

(***************************************************************************)
(* vsprintf writes each directive as the reference does, with sign, prefix *)
(* and padding in their order and exactly the field's width, stores what   *)
(* was written so far for %n, and stays in step with its arguments, so     *)
(* that a directive with `*' or none does not shift the ones behind it.    *)
(* (%s ignores a precision; the formats have none there.)                  *)
(***************************************************************************)
FormatsAsSpecified ==
    (job.kind = "format" /\ result # Pending) =>
       /\ result.text = FlattenSeq([k \in DOMAIN job.items |-> Expected(job.items[k])])
       /\ \A k \in DOMAIN job.items : job.items[k].conv = "n" =>
             result.counts =
               <<Len(FlattenSeq([j \in 1..(k - 1) |-> Expected(job.items[j])]))>>

(***************************************************************************)
(* int_to_ascii and hex_to_ascii print what printf prints for %d and 0x%x, *)
(* except for the smallest int, which has no positive counterpart, and for *)
(* a hexadecimal digit a that is not the last one.                         *)
(***************************************************************************)
AgreesWithPrintf ==
    (job.kind = "number" /\ result # Pending) =>
       /\ job.n # -(2^(W - 1)) =>
             result.dec = Vsprintf(<<"%", "d">>, <<job.n>>).text
       /\ (\A k \in 1..((W \div 4) - 1) : ((job.n % 2^W) \div 16^k) % 16 # 10) =>
             result.hex = Vsprintf(<<"0", "x", "%", "x">>, <<job.n>>).text

(***************************************************************************)
(* Parsing what typing a call has left in the buffer gives back the call,  *)
(* with blanks dropped in front of arguments, quotes removed, missing      *)
(* arguments 0, and no regard to what lies behind the terminator.          *)
(***************************************************************************)
ParsesWhatWasTyped ==
    (job.kind = "command" /\ result # Pending) =>
       result = [astray |-> FALSE, name |-> job.call.name, values |-> job.call.values]
=============================================================================
