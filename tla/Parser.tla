------------------------------- MODULE Parser -------------------------------
(***************************************************************************)
(* The string helpers of kernel/util.c and the command parser of           *)
(* kernel/shell.c as operators on a buffer of Cap characters.  A character *)
(* is a string of length one; a buffer is indexed from 0 as in C.          *)
(***************************************************************************)
EXTENDS Integers, Sequences, SequencesExt, FiniteSetsExt

CONSTANT Cap        \* the size of key_buffer and of the parser's arrays

ASSUME CapAssumption == Cap \in Nat \ {0, 1}

NUL == "nul"
Stray == "stray"    \* what is read behind the buffer
Digits == <<"0", "1", "2", "3", "4", "5", "6", "7", "8", "9">>

-----------------------------------------------------------------------------
(* Plausible bugs of the code, for the mutation checks of the README.      *)

AppendUnterminated(b, c) ==
    [b EXCEPT ![Min({i \in DOMAIN b : b[i] = NUL})] = c]

StopsNotSkipped(in, f, stage) ==
    LET b == Min({k \in f.at..(Cap - 1) : in[k] \in stage.stops} \cup {Cap})
    IN  [words |-> Append(f.words, [k \in 1..(b - f.at) |-> in[f.at + k - 1]]),
         at |-> b, more |-> TRUE]

-----------------------------------------------------------------------------
(* strlen, append and the C string in a buffer (kernel/util.c).            *)

Strlen(b) == Min({i \in DOMAIN b : b[i] = NUL} \cup {Cap})

CString(w) ==
    LET k == SelectInSeq(w, LAMBDA c : c = NUL)
    IN  IF k = 0 THEN w ELSE SubSeq(w, 1, k - 1)

Line(b) == [k \in 1..Strlen(b) |-> b[k - 1]]

AppendChar(b, c) ==
    LET n == Strlen(b) IN [b EXCEPT ![n] = c, ![n + 1] = NUL]

-----------------------------------------------------------------------------
(***************************************************************************)
(* parse_command_and_run.  A stage skips spaces, copies up to a stop       *)
(* character, whatever lies in between, and steps over it.  The bound of   *)
(* the copy is the size of the buffer, so a scan that finds no stop has    *)
(* left the buffer before the bound ends it.                               *)
(***************************************************************************)
Byte(in, i) == IF i < Cap THEN in[i] ELSE Stray

Seek(in, i, Stop(_)) == Min({k \in i..(Cap - 1) : Stop(in[k])} \cup {Cap})

Stages == << [stops |-> {"("},      ends |-> {}],       \* COMMAND
             [stops |-> {",", ")"}, ends |-> {")"}],    \* PARAM1
             [stops |-> {",", ")"}, ends |-> {")"}],    \* PARAM2
             [stops |-> {")"},      ends |-> {}] >>     \* PARAM3

Stage(in, f, stage) ==
    LET a == Seek(in, f.at, LAMBDA c : c # " ")
        b == Seek(in, a, LAMBDA c : c \in stage.stops)
    IN  IF ~f.more \/ Byte(in, f.at) \in {NUL, Stray}
        THEN [f EXCEPT !.words = Append(@, <<>>), !.more = FALSE]
        ELSE [words |-> Append(f.words, [k \in 1..(b - a) |-> in[a + k - 1]]),
              at |-> b + 1,
              more |-> Byte(in, b + 1) \notin stage.ends]

Parse(in) ==
    LET command == Stage(in, [words |-> <<>>, at |-> 0, more |-> TRUE], Stages[1])
        param1  == Stage(in, command, Stages[2])
        param2  == Stage(in, param1, Stages[3])
    IN  Stage(in, param2, Stages[4])

(* skip_atoi: the number the leading digits of w spell.                    *)
SkipAtoi(w) ==
    LET k == SelectInSeq(w, LAMBDA c : c \notin ToSet(Digits))
        ds == IF k = 0 THEN w ELSE SubSeq(w, 1, k - 1)
    IN  FoldLeft(LAMBDA n, c : n * 10 + SelectInSeq(Digits, LAMBDA d : d = c) - 1,
                 0, ds)

(***************************************************************************)
(* check_param: a quoted string without its quotes, or a number.  The      *)
(* closing quote is looked for from the third character on; without one    *)
(* the search leaves the array.                                            *)
(***************************************************************************)
Quoted(w) == w # <<>> /\ Head(w) = "\""

Closing(w) == {k \in 3..Len(w) : w[k] = "\""}

CheckParam(w) ==
    IF Quoted(w) THEN CString(SubSeq(w, 2, Min(Closing(w)) - 1)) ELSE SkipAtoi(w)

ParsesAstray(f) ==
    \/ f.at >= Cap
    \/ \E k \in 2..4 : Quoted(f.words[k]) /\ Closing(f.words[k]) = {}

-----------------------------------------------------------------------------
(* How a call is typed, for the properties: name(arg,arg,arg), with one to *)
(* three arguments, and an argument without the spaces in front of it.     *)

ArgList(ws) ==
    CASE Len(ws) = 1 -> ws[1]
      [] Len(ws) = 2 -> ws[1] \o <<",">> \o ws[2]
      [] Len(ws) = 3 -> ws[1] \o <<",">> \o ws[2] \o <<",">> \o ws[3]

Unparse(call) == call.name \o <<"(">> \o ArgList(call.words) \o <<")">>

Trimmed(w) ==
    LET n == Min({i \in 0..Len(w) : i < Len(w) => w[i + 1] # " "})
    IN  [k \in 1..(Len(w) - n) |-> w[n + k]]
=============================================================================
