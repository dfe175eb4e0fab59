-------------------------------- MODULE Screen --------------------------------
(***************************************************************************)
(* drivers/screen.c: video memory and the cursor, which is kept only in    *)
(* the display controller, behind an index register and two data bytes.    *)
(* Tasks print with kprint, one port access at a time, and are preempted   *)
(* anywhere; the keyboard handler prints masked, in one step, wherever it  *)
(* interrupts them.  Offsets count cells of two bytes; the attribute byte  *)
(* is left out, and a cell of zeros and a space are both blank.            *)
(***************************************************************************)
EXTENDS Integers, Sequences, SequencesExt

CONSTANTS
    Task,           \* the tasks that print
    Messages,       \* what they print: sequences of characters
    Letters,        \* what the keyboard handler echoes
    Places,         \* the columns and rows given to kprint_at
    Rows, Cols,     \* MAX_ROWS and MAX_COLS
    Radix,          \* the number of values of a cursor byte, 256 in the code
    MaxOps          \* a bound on the calls of kprint and the like

ASSUME ScreenAssumption ==
    /\ {Rows, Cols, Radix, MaxOps} \subseteq Nat \ {0}
    /\ Rows * Cols < Radix * Radix
    /\ Messages \subseteq Seq(STRING) \ {<<>>} /\ Letters \subseteq STRING
    /\ Places \subseteq Nat \X Nat

VARIABLES
    vidmem,         \* the cells
    index,          \* the index register, "hi" (14) or "lo" (15)
    hi, lo,         \* the cursor bytes
    pc, msg, off,   \* per task: next access in kprint, rest of message, offset
    ops,            \* calls made so far
    wrote,          \* history: the cell print_char has stored to in this step
    shown,          \* history: the last Rows lines of all that was printed
    orderly         \* history: no print has been cut in two, and no backspace
                    \* has left its line

crtc == <<index, hi, lo>>
local == <<pc, msg, off>>
vars == <<vidmem, crtc, local, ops, wrote, shown, orderly>>

Cells == Rows * Cols
Blank == " "
NoStore == 0

Init ==             \* as clear_screen leaves it
    /\ vidmem = [i \in 0..(Cells - 1) |-> Blank]
    /\ index = "lo" /\ hi = 0 /\ lo = 0
    /\ pc = [t \in Task |-> "idle"] /\ msg = [t \in Task |-> <<>>]
    /\ off = [t \in Task |-> 0]
    /\ ops = 0 /\ wrote = NoStore /\ shown = << <<>> >> /\ orderly = TRUE

-----------------------------------------------------------------------------
(* Plausible bugs of the code, for the mutation checks of the README.      *)

NoErrorControl(o) == FALSE

ByteNotTruncated(o) == IF o < 0 THEN o ELSE o \div Radix

NewlineKeepsColumn(o) == o + Cols

-----------------------------------------------------------------------------
(* print_char at offset o of the memory m: the memory and the offset       *)
(* after it.                                                               *)

get_offset_row(o) == IF o < 0 THEN 0 ELSE o \div Cols  \* / truncates
get_offset_col(o) == o - get_offset_row(o) * Cols

OutOfRange(o) == get_offset_row(o) >= Rows

NextRow(o) == (get_offset_row(o) + 1) * Cols

Scrolled(m) ==
    [i \in 0..(Cells - 1) |-> IF i + Cols < Cells THEN m[i + Cols] ELSE Blank]

Stored(m, c, o) == IF c = "\n" THEN m ELSE [m EXCEPT ![o] = c]

Advanced(c, o) == IF c = "\n" THEN NextRow(o) ELSE o + 1

PrintChar(m, c, o) ==
    CASE OutOfRange(o) ->
           [mem |-> [m EXCEPT ![Cells - 1] = "E"], at |-> o, cursor |-> FALSE,
            store |-> Cells - 1]
      [] OTHER ->
           LET n == Advanced(c, o)
               over == n >= Cells
           IN  [mem |-> IF over THEN Scrolled(Stored(m, c, o)) ELSE Stored(m, c, o),
                at |-> IF over THEN n - Cols ELSE n, cursor |-> TRUE,
                store |-> IF c = "\n" THEN NoStore ELSE o]

-----------------------------------------------------------------------------
(* The reference: the lines of text so far, the last one unfinished.  A    *)
(* line that is full is followed by a new one at once; only as many lines  *)
(* as the screen has rows are kept.                                        *)

LastRows(ls) == IF Len(ls) > Rows THEN Tail(ls) ELSE ls

Typed(ls, c) ==
    LET line == Append(Last(ls), c)
    IN  CASE c = "\n" -> LastRows(Append(ls, <<>>))
          [] c # "\n" /\ Len(line) < Cols -> Append(Front(ls), line)
          [] OTHER -> LastRows(Append(Append(Front(ls), line), <<>>))

(* Erasing keeps the blank behind a prompt.                                *)
Erased(ls) ==
    LET line == Last(ls)
    IN  Append(Front(ls),
               IF Len(line) = 2 /\ line[1] = ">" THEN <<">", Blank>> ELSE Front(line))

-----------------------------------------------------------------------------
(* kprint by a task: get_cursor_offset, then for each character print_char *)
(* with its set_cursor_offset.                                             *)

HiByte(o) == (o \div Radix) % Radix
LoByte(o) == o % Radix

AloneIn(t) == \A u \in Task \ {t} : pc[u] = "idle"

Access(t, from, to) ==
    /\ pc[t] = from /\ pc' = [pc EXCEPT ![t] = to]
    /\ orderly' = (orderly /\ AloneIn(t))

KPrint(t, m) ==
    /\ ops < MaxOps /\ ops' = ops + 1
    /\ Access(t, "idle", "get14") /\ msg' = [msg EXCEPT ![t] = m]
    /\ wrote' = NoStore
    /\ UNCHANGED <<vidmem, crtc, off, shown>>

Select(t) ==        \* port_byte_out(REG_SCREEN_CTRL, ...)
    /\ \/ Access(t, "get14", "gethi") /\ index' = "hi"
       \/ Access(t, "get15", "getlo") /\ index' = "lo"
       \/ Access(t, "set14", "sethi") /\ index' = "hi"
       \/ Access(t, "set15", "setlo") /\ index' = "lo"
    /\ wrote' = NoStore
    /\ UNCHANGED <<vidmem, hi, lo, msg, off, ops, shown>>

Data == IF index = "hi" THEN hi ELSE lo

ReadData(t) ==      \* port_byte_in(REG_SCREEN_DATA)
    /\ \/ Access(t, "gethi", "get15") /\ off' = [off EXCEPT ![t] = Data * Radix]
       \/ Access(t, "getlo", "put") /\ off' = [off EXCEPT ![t] = @ + Data]
    /\ wrote' = NoStore
    /\ UNCHANGED <<vidmem, crtc, msg, ops, shown>>

Put(t) ==
    LET p == PrintChar(vidmem, Head(msg[t]), off[t])
    IN  /\ pc[t] = "put"
        /\ IF p.cursor THEN Access(t, "put", "set14")
           ELSE Access(t, "put", IF Len(msg[t]) = 1 THEN "idle" ELSE "put")
        /\ vidmem' = p.mem /\ wrote' = p.store
        /\ off' = [off EXCEPT ![t] = IF pc'[t] = "idle" THEN 0 ELSE p.at]
        /\ msg' = [msg EXCEPT ![t] = Tail(@)]
        /\ shown' = IF orderly' THEN Typed(shown, Head(msg[t])) ELSE << <<>> >>
        /\ UNCHANGED <<crtc, ops>>

WriteData(t) ==     \* port_byte_out(REG_SCREEN_DATA, ...)
    /\ LET set(b) == /\ hi' = IF index = "hi" THEN b ELSE hi
                     /\ lo' = IF index = "lo" THEN b ELSE lo
       IN  \/ Access(t, "sethi", "set15") /\ set(HiByte(off[t]))
           \/ /\ Access(t, "setlo", IF msg[t] = <<>> THEN "idle" ELSE "put")
              /\ set(LoByte(off[t]))
    /\ off' = [off EXCEPT ![t] = IF pc'[t] = "idle" THEN 0 ELSE @]
    /\ wrote' = NoStore
    /\ UNCHANGED <<vidmem, index, msg, ops, shown>>

-----------------------------------------------------------------------------
(* The keyboard handler: echo, newline, backspace, and clear_screen called *)
(* from the shell.                                                         *)

Cursor == hi * Radix + lo

SetCursor(o) == index' = "lo" /\ hi' = HiByte(o) /\ lo' = LoByte(o)

Interrupts ==
    /\ ops < MaxOps /\ ops' = ops + 1
    /\ UNCHANGED local

Undisturbed == orderly /\ \A t \in Task : pc[t] = "idle"

Echo(c) ==
    LET p == PrintChar(vidmem, c, Cursor)
    IN  /\ Interrupts
        /\ vidmem' = p.mem /\ wrote' = p.store
        /\ IF p.cursor THEN SetCursor(p.at) ELSE index' = "lo" /\ UNCHANGED <<hi, lo>>
        /\ orderly' = Undisturbed
        /\ shown' = IF orderly' THEN Typed(shown, c) ELSE << <<>> >>

(***************************************************************************)
(* kprint_backspace: the cell before the cursor is blanked, and the cursor *)
(* put there unless that would cross the prompt.  In front of the first    *)
(* cell col is -1, print_char then takes the cursor for the offset, and    *)
(* the cursor is set to -1.                                                *)
(***************************************************************************)
Backspace ==
    LET o == Cursor - 1
        p == PrintChar(vidmem, Blank, IF o < 0 THEN Cursor ELSE o)
        back == \/ get_offset_col(o) > 1
                \/ OutOfRange(o)    \* reads behind the screen: no prompt
                \/ p.mem[get_offset_row(o) * Cols] # ">"
    IN  /\ Interrupts
        /\ vidmem' = p.mem /\ wrote' = p.store
        /\ CASE back -> SetCursor(o)
             [] ~back /\ p.cursor -> SetCursor(p.at)
             [] OTHER -> index' = "lo" /\ UNCHANGED <<hi, lo>>
        /\ orderly' = (Undisturbed /\ Last(shown) # <<>>)
        /\ shown' = IF orderly' THEN Erased(shown) ELSE << <<>> >>

(* kprint_at with a position, the interface of screen.h; within the kernel *)
(* kprint alone calls kprint_at, and leaves the position open.             *)
PrintAt(c, col, row) ==
    LET o == row * Cols + col
        p == PrintChar(vidmem, c, IF col >= Cols THEN Cells ELSE o)
    IN  /\ Interrupts
        /\ vidmem' = p.mem /\ wrote' = p.store
        /\ IF p.cursor THEN SetCursor(p.at) ELSE UNCHANGED crtc
        /\ orderly' = FALSE /\ shown' = << <<>> >>

ClearScreen ==
    /\ Interrupts
    /\ vidmem' = [i \in 0..(Cells - 1) |-> Blank] /\ SetCursor(0)
    /\ wrote' = NoStore
    /\ shown' = << <<>> >> /\ orderly' = (\A t \in Task : pc[t] = "idle")

Next ==
    \/ \E t \in Task : \/ \E m \in Messages : KPrint(t, m)
                       \/ Select(t) \/ ReadData(t) \/ Put(t) \/ WriteData(t)
    \/ \E c \in Letters : Echo(c)
    \/ \E c \in Letters, p \in Places : PrintAt(c, p[1], p[2])
    \/ Backspace
    \/ ClearScreen

Spec == Init /\ [][Next]_vars

-----------------------------------------------------------------------------
(* Cells hold characters and the cursor registers hold bytes.              *)
TypeOK ==
    /\ vidmem \in [0..(Cells - 1) -> Letters \cup {Blank, "E"}
                                     \cup UNION {ToSet(m) : m \in Messages}]
    /\ index \in {"hi", "lo"} /\ {hi, lo} \subseteq 0..(Radix - 1)
    /\ off \in [Task -> 0..(Radix * Radix - 1)] /\ orderly \in BOOLEAN

(***************************************************************************)
(* print_char never stores outside of video memory, however the accesses   *)
(* of several printers to the cursor are interleaved and wherever that and *)
(* the backspace key have put the cursor.                                  *)
(***************************************************************************)
StoresInVideoMemory == wrote \in 0..(Cells - 1)

(***************************************************************************)
(* The screen shows the last lines of all that was printed, wrapped at its *)
(* width, with the cursor behind the last character, as long as no print   *)
(* was interrupted by another one and no backspace left its line.  After   *)
(* either, clear_screen puts things right again.                           *)
(***************************************************************************)
RendersShown ==
    Undisturbed =>
       /\ \A r \in 1..Rows, c \in 1..Cols :
             vidmem[(r - 1) * Cols + c - 1] =
                IF r <= Len(shown) /\ c <= Len(shown[r]) THEN shown[r][c] ELSE Blank
       /\ Cursor = (Len(shown) - 1) * Cols + Len(Last(shown))
=============================================================================
