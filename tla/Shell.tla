-------------------------------- MODULE Shell --------------------------------
(***************************************************************************)
(* The console: keyboard_callback of drivers/keyboard.c with its line      *)
(* buffer, and the shell it calls (kernel/shell.c, kernel/symbols.c).  A   *)
(* typed line is parsed and run inside the keyboard interrupt.  A command  *)
(* that sleeps suspends the handler it runs in; the keys typed meanwhile   *)
(* are taken by handlers on other tasks' stacks, on the same buffer.  A    *)
(* typed fork() copies the stack with the handler on it and turns the      *)
(* interrupts on: parent and child each return into the handler, later.    *)
(*                                                                         *)
(* Characters are strings of length one.  Enter only clears the first byte *)
(* of the buffer, so what earlier lines left behind is part of the state.  *)
(***************************************************************************)
EXTENDS Parser

CONSTANTS
    Keys,           \* the printable keys
    sc_ascii, sc_ascii_shift,  \* the two tables: the character of each key
    StopLines,      \* halt, shutdown, reboot: nothing runs after them
    InfoLine,       \* cpuinfo
    Symbols,        \* the symbol table: names and what is behind their address
    Calls,          \* for the properties: name, arguments as typed, and values
    MaxAsleep       \* a bound on the handlers under way at once

Char == {sc_ascii[k] : k \in Keys} \cup {sc_ascii_shift[k] : k \in Keys} \cup {NUL}

ASSUME ShellAssumption ==
    /\ DOMAIN sc_ascii = Keys /\ DOMAIN sc_ascii_shift = Keys
    /\ \A k \in Keys : {NUL, Stray} \cap {sc_ascii[k], sc_ascii_shift[k]} = {}
    /\ MaxAsleep \in Nat

VARIABLES
    buf,            \* key_buffer
    isShift,        \* is_shift_pressed
    isCaps,         \* is_caps_locked
    asleep,         \* handlers suspended in a command that sleeps or has forked
    status,         \* "up", "stopped", or "astray" after a wild read or write
    typed,          \* history: the line as the user sees it
    mixed,          \* history: a suspended command has cut into this line,
                    \* and typed only tells whether it is empty
    ran             \* history: the call the last step has made

vars == <<buf, isShift, isCaps, asleep, status, typed, mixed, ran>>

NoCall == [name |-> <<>>, args |-> <<>>]

Init ==
    /\ buf = [i \in 0..(Cap - 1) |-> NUL]
    /\ isShift = FALSE /\ isCaps = FALSE
    /\ asleep = 0 /\ status = "up"
    /\ typed = <<>> /\ mixed = FALSE /\ ran = NoCall

-----------------------------------------------------------------------------
(* Plausible bugs of the code, for the mutation checks of the README.      *)

(* The release bit is left in the scancode, which indexes past the table.  *)
TableOverrun(k) == Stray

-----------------------------------------------------------------------------
(* find_symbol_and_run: the first symbol of that name, unless its address  *)
(* is 0.  What runs is the symbol and three argument values.               *)
FindSymbol(name) == SelectInSeq(Symbols, LAMBDA s : s.name = name)

CallOf(f) == [name |-> CString(f.words[1]),
              args |-> [k \in 1..3 |-> CheckParam(f.words[k + 1])]]

Effect(call) ==
    LET k == FindSymbol(call.name) IN IF k = 0 THEN "none" ELSE Symbols[k].func

-----------------------------------------------------------------------------
(* The branches of keyboard_callback.  Releases of other keys and codes    *)
(* above SC_MAX return without an effect and are stuttering steps.         *)

LeftShift(down) ==
    /\ status = "up" /\ isShift' = down /\ ran' = NoCall
    /\ UNCHANGED <<buf, isCaps, asleep, status, typed, mixed>>

CapsLock ==
    /\ status = "up" /\ isCaps' = ~isCaps /\ ran' = NoCall
    /\ UNCHANGED <<buf, isShift, asleep, status, typed, mixed>>

Letter(k) == IF isCaps # isShift THEN sc_ascii_shift[k] ELSE sc_ascii[k]

(* append does not compare with the size of the buffer.                    *)
PressKey(k) ==
    /\ status = "up" /\ ran' = NoCall
    /\ \/ /\ Strlen(buf) + 1 < Cap
          /\ buf' = AppendChar(buf, Letter(k))
          /\ typed' = IF mixed THEN <<Letter(k)>> ELSE Append(typed, Letter(k))
          /\ UNCHANGED status
       \/ /\ Strlen(buf) + 1 >= Cap
          /\ status' = "astray"
          /\ UNCHANGED <<buf, typed>>
    /\ UNCHANGED <<isShift, isCaps, asleep, mixed>>

(* On an empty line the terminator is written to the byte before the       *)
(* buffer, which may be one of the flags declared next to it.              *)
Backspace ==
    /\ status = "up" /\ ran' = NoCall
    /\ \/ /\ Strlen(buf) > 0
          /\ buf' = [buf EXCEPT ![Strlen(buf) - 1] = NUL]
          /\ UNCHANGED <<isShift, isCaps>>
       \/ /\ Strlen(buf) = 0
          /\ \/ UNCHANGED <<isShift, isCaps>>
             \/ isShift' = FALSE /\ UNCHANGED isCaps
             \/ isCaps' = FALSE /\ UNCHANGED isShift
          /\ UNCHANGED buf
    /\ typed' = IF typed = <<>> \/ mixed THEN typed ELSE Front(typed)
    /\ UNCHANGED <<asleep, status, mixed>>

Entered(call) ==
    /\ ran' = call
    /\ typed' = <<>>
    /\ UNCHANGED <<isShift, isCaps>>

(* user_input has returned: the handler clears the line.                   *)
ClearLine == buf' = [buf EXCEPT ![0] = NUL]

EnterBuiltin ==
    /\ status = "up"
    /\ \/ Line(buf) \in StopLines /\ status' = "stopped" /\ UNCHANGED <<buf, mixed>>
       \/ Line(buf) = InfoLine /\ ClearLine /\ mixed' = FALSE /\ UNCHANGED status
    /\ Entered(NoCall)
    /\ UNCHANGED asleep

EnterCommand ==
    LET f == Parse(buf)
        call == CallOf(f)
    IN  /\ status = "up" /\ Line(buf) \notin StopLines \cup {InfoLine}
        /\ \/ /\ ParsesAstray(f)
              /\ status' = "astray" /\ Entered(NoCall)
              /\ UNCHANGED <<buf, asleep, mixed>>
           \/ /\ ~ParsesAstray(f) /\ Effect(call) # "fork"
              /\ Entered(IF Effect(call) = "none" THEN NoCall ELSE call)
              /\ ClearLine /\ mixed' = FALSE /\ UNCHANGED <<asleep, status>>
           \/ /\ ~ParsesAstray(f) /\ Entered(call)
              /\ Effect(call) = "sleep" /\ asleep < MaxAsleep
              /\ asleep' = asleep + 1 /\ mixed' = TRUE
              /\ UNCHANGED <<buf, status>>
           \/ /\ ~ParsesAstray(f) /\ Entered(call)
              /\ Effect(call) = "fork" /\ asleep + 2 <= MaxAsleep
              /\ asleep' = asleep + 2 /\ mixed' = TRUE
              /\ UNCHANGED <<buf, status>>

(* A sleeping command, or fork() in the parent or in the child, returns    *)
(* into its handler, which clears the line.                                *)
Wake ==
    /\ status = "up" /\ asleep > 0
    /\ asleep' = asleep - 1 /\ ClearLine /\ mixed' = (typed # <<>>)
    /\ ran' = NoCall
    /\ UNCHANGED <<isShift, isCaps, status, typed>>

Next ==
    \/ \E down \in BOOLEAN : LeftShift(down)
    \/ CapsLock
    \/ \E k \in Keys : PressKey(k)
    \/ Backspace
    \/ EnterBuiltin
    \/ EnterCommand
    \/ Wake

Spec == Init /\ [][Next]_vars

-----------------------------------------------------------------------------
(* The buffer and the key flags hold values of their C types.              *)
TypeOK ==
    /\ buf \in [0..(Cap - 1) -> Char]
    /\ {isShift, isCaps, mixed} \subseteq BOOLEAN
    /\ asleep \in 0..MaxAsleep /\ status \in {"up", "stopped", "astray"}
    /\ typed \in Seq(Char)

(***************************************************************************)
(* The C string in key_buffer is the line the user sees: the keys typed    *)
(* since the last Enter, whatever earlier lines left behind the            *)
(* terminator.  Excepted is a line that a command still asleep or forked,  *)
(* or one that returns while the line is being typed, cuts into (mixed),   *)
(* and whatever follows the key that overruns the buffer (astray).         *)
(***************************************************************************)
LineIsTyped == (status = "up" /\ ~mixed) => Line(buf) = typed

(***************************************************************************)
(* Calls are of functions in the symbol table, with one to three arguments *)
(* without commas and closing parentheses, strings with both quotes.  (The *)
(* parser splits at commas also inside a string.)  Their values are what   *)
(* check_param makes of the arguments without the spaces in front.         *)
(***************************************************************************)
ASSUME CallsAssumption ==
    \A call \in Calls :
       /\ call.name \in Seq(Char) /\ Trimmed(call.name) = call.name
       /\ "(" \notin ToSet(call.name) /\ Effect(call) # "none"
       /\ call.words \in Seq(Seq(Char)) /\ Len(call.words) \in 1..3
       /\ \A k \in DOMAIN call.words :
             /\ {",", ")"} \cap ToSet(call.words[k]) = {}
             /\ LET w == Trimmed(call.words[k]) IN Quoted(w) => Closing(w) # {}
       /\ call.values = [k \in 1..3 |-> CheckParam(IF k <= Len(call.words)
                                                  THEN Trimmed(call.words[k]) ELSE <<>>)]
       /\ Unparse(call) \notin StopLines \cup {InfoLine}

(***************************************************************************)
(* A line of the form name(arguments) runs that function with the values   *)
(* of those arguments and 0 for the missing ones, although the parser      *)
(* reads the buffer without regard to its terminator and the bytes of      *)
(* earlier lines are still behind it.                                      *)
(***************************************************************************)
RunsWhatWasTyped ==
    [][\A call \in Calls :
          (~mixed /\ typed = Unparse(call) /\ typed' = <<>>) =>
             ran' = [name |-> call.name, args |-> call.values]]_vars
=============================================================================
