---------------------------- MODULE ScreenProofs ----------------------------
(***************************************************************************)
(* Proofs about Screen: however the accesses of several printers to the    *)
(* cursor registers are interleaved, print_char stores to video memory     *)
(* only, and offsets and cursor bytes stay in their ranges; and as long as *)
(* no print is cut in two, the screen shows the text that was printed.     *)
(***************************************************************************)
EXTENDS Screen, SequenceTheorems, TLAPS

Chars == Letters \cup {Blank, "E"} \cup UNION {ToSet(m) : m \in Messages}
Memory == [0..(Cells - 1) -> Chars]
Pcs == {"idle", "get14", "gethi", "get15", "getlo", "put", "set14", "sethi", "set15", "setlo"}

-----------------------------------------------------------------------------
(* Arithmetic of rows and bytes.                                           *)

(* The sizes of the screen and of a cursor byte.                           *)
LEMMA SizeTypes ==
    /\ Rows \in Nat \ {0} /\ Cols \in Nat \ {0} /\ Radix \in Nat \ {0}
    /\ MaxOps \in Nat /\ Cells \in Nat \ {0} /\ Cells < Radix * Radix
    /\ Cols <= Cells /\ Radix * Radix \in Nat
<1>1. /\ Rows \in Nat \ {0} /\ Cols \in Nat \ {0} /\ Radix \in Nat \ {0} /\ MaxOps \in Nat
      /\ Rows * Cols < Radix * Radix
  BY ScreenAssumption
<1>2. Rows * Cols \in Nat /\ Rows * Cols >= Cols /\ Radix * Radix \in Nat
  BY <1>1
<1> QED
  BY <1>1, <1>2 DEF Cells

(* Multiplication by a natural number is monotonic.                        *)
LEMMA MulMono ==
    ASSUME NEW a \in Int, NEW b \in Int, NEW k \in Nat, a <= b
    PROVE  a * k <= b * k
  OBVIOUS

(* An offset lies in its row.                                              *)
LEMMA RowFacts ==
    ASSUME NEW o \in Nat
    PROVE  /\ get_offset_row(o) \in Nat
           /\ get_offset_row(o) * Cols <= o /\ o < (get_offset_row(o) + 1) * Cols
<1>1. Cols \in Nat \ {0}
  BY SizeTypes
<1>2. get_offset_row(o) = o \div Cols
  BY DEF get_offset_row
<1> QED
  BY <1>1, <1>2

(* print_char works on the cells of the screen unless its error control    *)
(* answers, and a new line starts on the screen or one row below it.       *)
LEMMA RangeFacts ==
    ASSUME NEW o \in Nat, ~OutOfRange(o)
    PROVE  o \in 0..(Cells - 1) /\ NextRow(o) \in Nat /\ NextRow(o) <= Cells
<1> DEFINE r == get_offset_row(o)
<1>1. r \in Nat /\ o < (r + 1) * Cols /\ r < Rows
  BY RowFacts, SizeTypes DEF OutOfRange
<1>2. Rows \in Nat /\ Cols \in Nat /\ Cells = Rows * Cols /\ Cells \in Nat
  BY SizeTypes DEF Cells
<1> HIDE DEF r
<1>3. (r + 1) * Cols <= Rows * Cols /\ (r + 1) * Cols \in Nat
  BY <1>1, <1>2, MulMono
<1>4. NextRow(o) = (r + 1) * Cols
  BY DEF NextRow, r
<1> QED
  BY <1>1, <1>2, <1>3, <1>4

(* set_cursor_offset writes bytes, of a negative offset too.               *)
LEMMA ByteFacts ==
    ASSUME NEW o \in Int
    PROVE  HiByte(o) \in 0..(Radix - 1) /\ LoByte(o) \in 0..(Radix - 1)
<1>1. Radix \in Nat \ {0} /\ o \div Radix \in Int
  BY SizeTypes
<1>2. \A a \in Int : a % Radix \in 0..(Radix - 1)
  BY <1>1
<1> QED
  BY <1>1, <1>2 DEF HiByte, LoByte

(* Two bytes make an offset below Radix * Radix.                           *)
LEMMA OffsetOfBytes ==
    ASSUME NEW h \in 0..(Radix - 1), NEW l \in 0..(Radix - 1)
    PROVE  /\ h * Radix \in Nat /\ h * Radix <= (Radix - 1) * Radix
           /\ h * Radix + l \in 0..(Radix * Radix - 1)
<1>1. Radix \in Nat \ {0}
  BY SizeTypes
<1>2. h * Radix \in Nat /\ h * Radix <= (Radix - 1) * Radix
  BY <1>1, MulMono
<1>3. (Radix - 1) * Radix = Radix * Radix - Radix /\ Radix * Radix \in Nat
  BY <1>1
<1> QED
  BY <1>1, <1>2, <1>3

-----------------------------------------------------------------------------
(* What print_char does.                                                   *)

(***************************************************************************)
(* print_char, at any offset that is not negative, stores to a cell of the *)
(* screen, and returns an offset on the screen or, having refused, the one *)
(* it was given.                                                           *)
(***************************************************************************)
LEMMA PrintCharFacts ==
    ASSUME NEW m \in Memory, NEW c \in Chars, NEW o \in Nat
    PROVE  /\ PrintChar(m, c, o).mem \in Memory
           /\ PrintChar(m, c, o).store \in 0..(Cells - 1)
           /\ PrintChar(m, c, o).at \in Nat
           /\ PrintChar(m, c, o).at < Cells \/ PrintChar(m, c, o).at = o
<1>t. Cells \in Nat \ {0} /\ Cols \in Nat \ {0} /\ Cols <= Cells /\ "E" \in Chars /\ Blank \in Chars
  BY SizeTypes DEF Chars
<1>1. CASE OutOfRange(o)
  <2>1. PrintChar(m, c, o) =
           [mem |-> [m EXCEPT ![Cells - 1] = "E"], at |-> o, cursor |-> FALSE,
            store |-> Cells - 1]
    BY <1>1 DEF PrintChar
  <2>2. [m EXCEPT ![Cells - 1] = "E"] \in Memory
    BY <1>t DEF Memory
  <2> QED
    BY <1>t, <2>1, <2>2
<1>2. CASE ~OutOfRange(o)
  <2> DEFINE n == Advanced(c, o)
             s == Stored(m, c, o)
  <2>1. PrintChar(m, c, o) =
          [mem |-> IF n >= Cells THEN Scrolled(s) ELSE s,
           at |-> IF n >= Cells THEN n - Cols ELSE n, cursor |-> TRUE,
           store |-> IF c = "\n" THEN NoStore ELSE o]
    BY <1>2 DEF PrintChar
  <2>2. o \in 0..(Cells - 1) /\ NextRow(o) \in Nat /\ NextRow(o) <= Cells
    BY <1>2, RangeFacts
  <2>3. n \in Nat /\ n <= Cells
    BY <1>t, <2>2 DEF Advanced
  <2>4. s \in Memory
    BY <2>2 DEF Stored, Memory
  <2>5. Scrolled(s) \in Memory
    BY <1>t, <2>4 DEF Scrolled, Memory
  <2>6. NoStore \in 0..(Cells - 1)
    BY <1>t DEF NoStore
  <2> HIDE DEF n, s
  <2>7. PrintChar(m, c, o).mem \in Memory
    BY <2>1, <2>4, <2>5
  <2>8. PrintChar(m, c, o).store \in 0..(Cells - 1)
    BY <2>1, <2>2, <2>6
  <2>9. PrintChar(m, c, o).at \in Nat /\ PrintChar(m, c, o).at < Cells
    BY <1>t, <2>1, <2>3
  <2> QED
    BY <2>7, <2>8, <2>9
<1> QED
  BY <1>1, <1>2

-----------------------------------------------------------------------------
(* The inductive invariant.                                                *)

(***************************************************************************)
(* Beyond the types: what a task has read of the cursor half way through   *)
(* get_cursor_offset is the high byte alone, which leaves room for the low *)
(* one, and a task that is about to print has a character to print.        *)
(***************************************************************************)
PrinterInv ==
    /\ pc \in [Task -> Pcs]
    /\ msg \in [Task -> Seq(Chars)]
    /\ \A t \in Task :
          /\ pc[t] \in {"get15", "getlo"} => off[t] <= (Radix - 1) * Radix
          /\ pc[t] \in {"get14", "gethi", "get15", "getlo", "put"} => msg[t] # <<>>

ScreenInv == TypeOK /\ StoresInVideoMemory /\ PrinterInv

(* clear_screen leaves blank memory and the cursor in its first cell.      *)
LEMMA ScreenInvInit == Init => ScreenInv
<1> SUFFICES ASSUME Init PROVE ScreenInv
  OBVIOUS
<1>t. Cells \in Nat \ {0} /\ Radix \in Nat \ {0} /\ 0 < Radix * Radix /\ Radix * Radix \in Nat
  BY SizeTypes
<1>1. TypeOK
  BY <1>t DEF Init, TypeOK
<1>2. StoresInVideoMemory
  BY <1>t DEF Init, StoresInVideoMemory, NoStore
<1>3. PrinterInv
  BY DEF Init, PrinterInv, Pcs
<1> QED
  BY <1>1, <1>2, <1>3 DEF ScreenInv

(* A port access leaves the flow of control of its task in its labels.     *)
LEMMA AccessFacts ==
    ASSUME NEW t \in Task, NEW from \in Pcs, NEW to \in Pcs, Access(t, from, to),
           pc \in [Task -> Pcs]
    PROVE  /\ pc[t] = from /\ pc' \in [Task -> Pcs] /\ pc'[t] = to
           /\ \A u \in Task \ {t} : pc'[u] = pc[u]
           /\ orderly' \in BOOLEAN
<1>1. pc[t] = from /\ pc' = [pc EXCEPT ![t] = to]
  BY DEF Access
<1>2. orderly' = (orderly /\ AloneIn(t))
  BY DEF Access
<1>3. orderly' \in BOOLEAN
  BY <1>2, Zenon
<1> QED
  BY <1>1, <1>3

(* A message is made of characters and is not empty.                       *)
LEMMA MessageFacts ==
    ASSUME NEW m \in Messages
    PROVE  m \in Seq(Chars) /\ m # <<>>
<1>1. m \in Seq(STRING) /\ m # <<>>
  BY ScreenAssumption
<1>2. \A i \in 1..Len(m) : m[i] \in Chars
  BY <1>1 DEF Chars, ToSet
<1> QED
  BY <1>1, <1>2

(* The steps of a task in kprint.                                          *)
LEMMA PrinterSteps ==
    ASSUME ScreenInv, NEW t \in Task,
           \/ \E m \in Messages : KPrint(t, m)
           \/ Select(t) \/ ReadData(t) \/ Put(t) \/ WriteData(t)
    PROVE  ScreenInv'
<1> DEFINE Bytes == 0..(Radix - 1)
           Offsets == 0..(Radix * Radix - 1)
           Fetching == {"get14", "gethi", "get15", "getlo", "put"}
<1>c. /\ Cells \in Nat \ {0} /\ Radix \in Nat \ {0} /\ Radix * Radix \in Nat
      /\ Cells < Radix * Radix /\ NoStore \in 0..(Cells - 1)
      /\ (Radix - 1) * Radix \in Nat
  BY SizeTypes DEF NoStore
<1>t. /\ vidmem \in Memory /\ index \in {"hi", "lo"} /\ hi \in Bytes /\ lo \in Bytes
      /\ off \in [Task -> Offsets]
      /\ pc \in [Task -> Pcs] /\ msg \in [Task -> Seq(Chars)]
  BY DEF ScreenInv, TypeOK, PrinterInv, Memory, Chars
<1>p. \A u \in Task : /\ pc[u] \in {"get15", "getlo"} => off[u] <= (Radix - 1) * Radix
                      /\ pc[u] \in Fetching => msg[u] # <<>>
  BY DEF ScreenInv, PrinterInv
<1>s. ASSUME /\ vidmem' \in Memory /\ index' \in {"hi", "lo"} /\ hi' \in Bytes /\ lo' \in Bytes
             /\ wrote' \in 0..(Cells - 1),
             NEW from \in Pcs, NEW to \in Pcs, Access(t, from, to),
             NEW o \in Offsets, off' = [off EXCEPT ![t] = o],
             NEW m \in Seq(Chars), msg' = [msg EXCEPT ![t] = m],
             to \in {"get15", "getlo"} => o <= (Radix - 1) * Radix,
             to \in Fetching => m # <<>>
      PROVE  ScreenInv'
  <2>1. /\ pc' \in [Task -> Pcs] /\ pc'[t] = to
        /\ \A u \in Task \ {t} : pc'[u] = pc[u]
        /\ orderly' \in BOOLEAN
    BY <1>s, <1>t, AccessFacts
  <2>2. off' \in [Task -> Offsets] /\ msg' \in [Task -> Seq(Chars)]
    BY <1>s, <1>t
  <2>3. TypeOK'
    BY <1>s, <2>1, <2>2 DEF TypeOK, Memory, Chars
  <2>4. StoresInVideoMemory'
    BY <1>s DEF StoresInVideoMemory
  <2>5. ASSUME NEW u \in Task
        PROVE  /\ pc'[u] \in {"get15", "getlo"} => off'[u] <= (Radix - 1) * Radix
               /\ pc'[u] \in Fetching => msg'[u] # <<>>
    <3>1. CASE u = t
      BY <1>s, <1>t, <2>1, <3>1
    <3>2. CASE u # t
      <4>1. pc'[u] = pc[u] /\ off'[u] = off[u] /\ msg'[u] = msg[u]
        BY <1>s, <1>t, <2>1, <3>2
      <4> QED
        BY <1>p, <4>1
    <3> QED
      BY <3>1, <3>2
  <2> QED
    BY <2>1, <2>2, <2>3, <2>4, <2>5 DEF ScreenInv, PrinterInv
<1>e. /\ off = [off EXCEPT ![t] = off[t]] /\ msg = [msg EXCEPT ![t] = msg[t]]
      /\ off[t] \in Offsets /\ msg[t] \in Seq(Chars)
  BY <1>t
<1> HIDE DEF Bytes, Offsets, Fetching
<1>1. ASSUME NEW m \in Messages, KPrint(t, m) PROVE ScreenInv'
  <2>1. /\ Access(t, "idle", "get14") /\ msg' = [msg EXCEPT ![t] = m] /\ off' = off
        /\ wrote' = NoStore /\ UNCHANGED <<vidmem, index, hi, lo>>
    BY <1>1 DEF KPrint, crtc
  <2>2. m \in Seq(Chars) /\ m # <<>>
    BY MessageFacts
  <2> QED
    BY <1>c, <1>e, <1>s, <1>t, <2>1, <2>2 DEF Pcs
<1>2. CASE Select(t)
  <2>1. PICK from \in {"get14", "get15", "set14", "set15"} :
          \E to \in {"gethi", "getlo", "sethi", "setlo"} :
             /\ Access(t, from, to) /\ index' \in {"hi", "lo"}
             /\ from \in {"get14", "get15"} <=> to \in {"gethi", "getlo"}
             /\ to = "getlo" => from = "get15"
    BY <1>2 DEF Select
  <2>2. PICK to \in {"gethi", "getlo", "sethi", "setlo"} :
             /\ Access(t, from, to) /\ index' \in {"hi", "lo"}
             /\ from \in {"get14", "get15"} <=> to \in {"gethi", "getlo"}
             /\ to = "getlo" => from = "get15"
    BY <2>1
  <2>3. /\ off' = off /\ msg' = msg /\ wrote' = NoStore /\ UNCHANGED <<vidmem, hi, lo>>
    BY <1>2 DEF Select
  <2>4. pc[t] = from
    BY <2>2 DEF Access
  <2>5. /\ to \in {"get15", "getlo"} => off[t] <= (Radix - 1) * Radix
        /\ to \in Fetching => msg[t] # <<>>
    BY <1>p, <2>2, <2>4 DEF Fetching
  <2> QED
    BY <1>c, <1>e, <1>s, <1>t, <2>2, <2>3, <2>5 DEF Pcs
<1>3. CASE ReadData(t)
  <2>0. Data \in 0..(Radix - 1)
    BY <1>t DEF Data, Bytes
  <2>1. msg' = msg /\ wrote' = NoStore /\ UNCHANGED <<vidmem, index, hi, lo>>
    BY <1>3 DEF ReadData, crtc
  <2>2. CASE Access(t, "gethi", "get15") /\ off' = [off EXCEPT ![t] = Data * Radix]
    <3>1. Data * Radix \in Offsets /\ Data * Radix <= (Radix - 1) * Radix
      <4>1. 0 \in 0..(Radix - 1) /\ Data * Radix + 0 \in 0..(Radix * Radix - 1)
        BY <1>c, <2>0, OffsetOfBytes
      <4> QED
        BY <2>0, <4>1, OffsetOfBytes DEF Offsets
    <3>2. msg[t] # <<>>
      BY <1>p, <2>2 DEF Access, Fetching
    <3> QED
      BY <1>c, <1>e, <1>s, <1>t, <2>1, <2>2, <3>1, <3>2 DEF Pcs
  <2>3. CASE Access(t, "getlo", "put") /\ off' = [off EXCEPT ![t] = @ + Data]
    <3>1. pc[t] = "getlo"
      BY <2>3 DEF Access
    <3>2. off[t] + Data \in Offsets
      <4>1. off[t] \in Nat /\ off[t] <= (Radix - 1) * Radix
        BY <1>e, <1>p, <3>1 DEF Offsets
      <4>2. (Radix - 1) * Radix = Radix * Radix - Radix
        BY <1>c
      <4> QED
        BY <1>c, <2>0, <4>1, <4>2 DEF Offsets
    <3>3. msg[t] # <<>>
      BY <1>p, <3>1 DEF Fetching
    <3> QED
      BY <1>c, <1>e, <1>s, <1>t, <2>1, <2>3, <3>2, <3>3 DEF Pcs
  <2> QED
    BY <1>3, <2>2, <2>3 DEF ReadData
<1>4. CASE Put(t)
  <2> DEFINE p == PrintChar(vidmem, Head(msg[t]), off[t])
  <2>1. /\ pc[t] = "put" /\ vidmem' = p.mem /\ wrote' = p.store
        /\ off' = [off EXCEPT ![t] = IF pc'[t] = "idle" THEN 0 ELSE p.at]
        /\ msg' = [msg EXCEPT ![t] = Tail(msg[t])] /\ UNCHANGED <<index, hi, lo>>
        /\ \/ Access(t, "put", "set14")
           \/ Access(t, "put", IF Len(msg[t]) = 1 THEN "idle" ELSE "put")
    BY <1>4 DEF Put, crtc
  <2>2. msg[t] # <<>> /\ Head(msg[t]) \in Chars /\ Tail(msg[t]) \in Seq(Chars)
        /\ (Len(msg[t]) # 1 => Tail(msg[t]) # <<>>) /\ off[t] \in Nat
    <3>1. msg[t] # <<>>
      BY <1>p, <2>1 DEF Fetching
    <3>2. \A q \in Seq(Chars) : q # <<>> =>
             /\ Head(q) \in Chars /\ Tail(q) \in Seq(Chars)
             /\ Len(q) # 1 => Tail(q) # <<>>
      <4> SUFFICES ASSUME NEW q \in Seq(Chars), q # <<>>
                   PROVE  /\ Head(q) \in Chars /\ Tail(q) \in Seq(Chars)
                          /\ Len(q) # 1 => Tail(q) # <<>>
        OBVIOUS
      <4>1. Head(q) \in Chars /\ Tail(q) \in Seq(Chars) /\ Len(Tail(q)) = Len(q) - 1
        OBVIOUS
      <4>2. ASSUME Tail(q) = <<>> PROVE Len(q) = 1
        <5>1. Len(<<>>) = 0
          OBVIOUS
        <5>2. Len(Tail(q)) = 0
          BY <4>2, <5>1, Zenon
        <5>3. Len(q) \in Nat
          OBVIOUS
        <5> QED
          BY <4>1, <5>2, <5>3
      <4> QED
        BY <4>1, <4>2
    <3>3. off[t] \in Nat
      BY <1>e DEF Offsets
    <3> QED
      BY <1>e, <3>1, <3>2, <3>3
  <2>3. /\ p.mem \in Memory /\ p.store \in 0..(Cells - 1) /\ p.at \in Nat
        /\ p.at < Cells \/ p.at = off[t]
    BY <1>t, <2>2, PrintCharFacts
  <2> HIDE DEF p
  <2>4. p.at \in Offsets /\ 0 \in Offsets
    BY <1>c, <1>e, <2>3 DEF Offsets
  <2>5. PICK to \in {"set14", "idle", "put"} :
           Access(t, "put", to) /\ (to = "put" => Len(msg[t]) # 1)
    BY <2>1
  <2>6. PICK o \in Offsets : off' = [off EXCEPT ![t] = o]
    BY <2>1, <2>4
  <2> QED
    BY <1>s, <1>t, <2>1, <2>2, <2>3, <2>5, <2>6 DEF Pcs, Fetching
<1>5. CASE WriteData(t)
  <2>1. /\ off' = [off EXCEPT ![t] = IF pc'[t] = "idle" THEN 0 ELSE off[t]]
        /\ msg' = msg /\ wrote' = NoStore /\ UNCHANGED <<vidmem, index>>
    BY <1>5 DEF WriteData
  <2>2. PICK from \in {"sethi", "setlo"}, to \in {"set15", "idle", "put"} :
           Access(t, from, to) /\ (to = "put" => msg[t] # <<>>)
    BY <1>5 DEF WriteData
  <2>3. hi' \in Bytes /\ lo' \in Bytes
    <3>1. HiByte(off[t]) \in Bytes /\ LoByte(off[t]) \in Bytes
      BY <1>c, <1>e, ByteFacts DEF Bytes, Offsets
    <3> QED
      BY <1>5, <1>t, <3>1 DEF WriteData
  <2>4. 0 \in Offsets
    BY <1>c DEF Offsets
  <2>5. PICK o \in Offsets : off' = [off EXCEPT ![t] = o]
    BY <1>e, <2>1, <2>4
  <2> QED
    BY <1>c, <1>e, <1>s, <1>t, <2>1, <2>2, <2>3, <2>5 DEF Pcs, Fetching
<1> QED
  BY <1>1, <1>2, <1>3, <1>4, <1>5

(* The steps of the keyboard handler and of kprint_at.                     *)
LEMMA HandlerSteps ==
    ASSUME ScreenInv,
           \/ \E c \in Letters : Echo(c)
           \/ \E c \in Letters, p \in Places : PrintAt(c, p[1], p[2])
           \/ Backspace
           \/ ClearScreen
    PROVE  ScreenInv'
<1> DEFINE Bytes == 0..(Radix - 1)
<1>c. /\ Cells \in Nat \ {0} /\ Radix \in Nat \ {0} /\ NoStore \in 0..(Cells - 1)
      /\ Cols \in Nat \ {0} /\ Blank \in Chars /\ Letters \subseteq Chars
  BY SizeTypes DEF NoStore, Chars
<1>t. /\ vidmem \in Memory /\ index \in {"hi", "lo"} /\ hi \in Bytes /\ lo \in Bytes
      /\ Cursor \in Nat
  <2>1. hi \in Bytes /\ lo \in Bytes
    BY DEF ScreenInv, TypeOK
  <2>2. Cursor \in Nat
    BY <1>c, <2>1, OffsetOfBytes DEF Cursor
  <2> QED
    BY <2>1, <2>2 DEF ScreenInv, TypeOK, Memory, Chars
<1>s. ASSUME UNCHANGED local, vidmem' \in Memory, wrote' \in 0..(Cells - 1),
             index' \in {"hi", "lo"}, hi' \in Bytes, lo' \in Bytes,
             orderly' \in BOOLEAN
      PROVE  ScreenInv'
  BY <1>s DEF local, ScreenInv, TypeOK, StoresInVideoMemory, PrinterInv, Memory, Chars
<1>b. ASSUME NEW o \in Int, SetCursor(o)
      PROVE  index' \in {"hi", "lo"} /\ hi' \in Bytes /\ lo' \in Bytes
  BY <1>b, ByteFacts DEF SetCursor
<1>p. ASSUME NEW c \in Chars, NEW o \in Nat
      PROVE  /\ PrintChar(vidmem, c, o).mem \in Memory
             /\ PrintChar(vidmem, c, o).store \in 0..(Cells - 1)
             /\ PrintChar(vidmem, c, o).at \in Int
  BY <1>p, <1>t, PrintCharFacts
<1> HIDE DEF Bytes
<1>1. ASSUME NEW c \in Letters, Echo(c) PROVE ScreenInv'
  <2> DEFINE p == PrintChar(vidmem, c, Cursor)
  <2>1. /\ vidmem' = p.mem /\ wrote' = p.store /\ UNCHANGED local
        /\ SetCursor(p.at) \/ (index' = "lo" /\ UNCHANGED <<hi, lo>>)
    BY <1>1 DEF Echo, Interrupts
  <2>2. orderly' = Undisturbed
    BY <1>1 DEF Echo
  <2>3. orderly' \in BOOLEAN
    BY <2>2, Zenon DEF Undisturbed
  <2>4. p.mem \in Memory /\ p.store \in 0..(Cells - 1) /\ p.at \in Int
    BY <1>c, <1>p, <1>t
  <2> HIDE DEF p
  <2>5. index' \in {"hi", "lo"} /\ hi' \in Bytes /\ lo' \in Bytes
    BY <1>b, <1>t, <2>1, <2>4
  <2> QED
    BY <1>s, <2>1, <2>3, <2>4, <2>5
<1>2. ASSUME NEW c \in Letters, NEW q \in Places, PrintAt(c, q[1], q[2]) PROVE ScreenInv'
  <2> DEFINE at == IF q[1] >= Cols THEN Cells ELSE q[2] * Cols + q[1]
             p == PrintChar(vidmem, c, at)
  <2>1. /\ vidmem' = p.mem /\ wrote' = p.store /\ UNCHANGED local
        /\ SetCursor(p.at) \/ UNCHANGED <<index, hi, lo>>
        /\ orderly' = FALSE
    BY <1>2 DEF PrintAt, Interrupts, crtc
  <2>2. at \in Nat
    <3>1. q[1] \in Nat /\ q[2] \in Nat
      BY ScreenAssumption
    <3>2. q[2] * Cols \in Nat
      BY <1>c, <3>1
    <3> QED
      BY <1>c, <3>1, <3>2
  <2> HIDE DEF at
  <2>4. p.mem \in Memory /\ p.store \in 0..(Cells - 1) /\ p.at \in Int
    BY <1>c, <1>p, <2>2
  <2> HIDE DEF p
  <2>5. index' \in {"hi", "lo"} /\ hi' \in Bytes /\ lo' \in Bytes
    BY <1>b, <1>t, <2>1, <2>4
  <2> QED
    BY <1>s, <2>1, <2>4, <2>5
<1>3. CASE Backspace
  <2> DEFINE o == Cursor - 1
             at == IF o < 0 THEN Cursor ELSE o
             p == PrintChar(vidmem, Blank, at)
  <2>1. /\ vidmem' = p.mem /\ wrote' = p.store /\ UNCHANGED local
        /\ SetCursor(o) \/ SetCursor(p.at) \/ (index' = "lo" /\ UNCHANGED <<hi, lo>>)
    BY <1>3 DEF Backspace, Interrupts
  <2>2. orderly' = (Undisturbed /\ Last(shown) # <<>>)
    BY <1>3 DEF Backspace
  <2>3. orderly' \in BOOLEAN
    BY <2>2, Zenon
  <2>4. o \in Int /\ at \in Nat
    BY <1>t
  <2> HIDE DEF o, at
  <2>5. p.mem \in Memory /\ p.store \in 0..(Cells - 1) /\ p.at \in Int
    BY <1>c, <1>p, <2>4
  <2> HIDE DEF p
  <2>6. index' \in {"hi", "lo"} /\ hi' \in Bytes /\ lo' \in Bytes
    BY <1>b, <1>t, <2>1, <2>4, <2>5
  <2> QED
    BY <1>s, <2>1, <2>3, <2>5, <2>6
<1>4. CASE ClearScreen
  <2>1. /\ vidmem' = [i \in 0..(Cells - 1) |-> Blank] /\ SetCursor(0)
        /\ wrote' = NoStore /\ UNCHANGED local
    BY <1>4 DEF ClearScreen, Interrupts
  <2>2. orderly' = (\A t \in Task : pc[t] = "idle")
    BY <1>4 DEF ClearScreen
  <2>3. orderly' \in BOOLEAN
    BY <2>2, Zenon
  <2>4. vidmem' \in Memory
    BY <1>c, <2>1 DEF Memory
  <2> QED
    BY <1>b, <1>c, <1>s, <2>1, <2>3, <2>4
<1> QED
  BY <1>1, <1>2, <1>3, <1>4

(* Every step keeps the invariant.                                         *)
LEMMA ScreenInvStep == ScreenInv /\ [Next]_vars => ScreenInv'
<1> SUFFICES ASSUME ScreenInv, [Next]_vars PROVE ScreenInv'
  OBVIOUS
<1>1. CASE UNCHANGED vars
  BY <1>1 DEF vars, crtc, local, ScreenInv, TypeOK, StoresInVideoMemory, PrinterInv
<1>2. CASE Next
  BY <1>2, PrinterSteps, HandlerSteps DEF Next
<1> QED
  BY <1>1, <1>2

(* The invariant holds throughout.                                         *)
LEMMA ScreenInvariant == Spec => []ScreenInv
<1>1. Init => ScreenInv
  BY ScreenInvInit
<1>2. ScreenInv /\ [Next]_vars => ScreenInv'
  BY ScreenInvStep
<1> QED
  BY <1>1, <1>2, PTL DEF Spec

-----------------------------------------------------------------------------
(* Video memory holds characters, the cursor registers hold bytes, and     *)
(* what a printer takes for the cursor is an offset of two bytes.          *)
THEOREM TypeCorrect == Spec => []TypeOK
<1>1. ScreenInv => TypeOK
  BY DEF ScreenInv
<1> QED
  BY <1>1, ScreenInvariant, PTL

(* On a screen of any size, with any number of tasks that print anything:  *)
(* print_char stores to video memory only, though tasks and the keyboard   *)
(* handler race for the cursor registers and the backspace key may set     *)
(* them to -1.                                                             *)
THEOREM PrintStaysOnScreen == Spec => []StoresInVideoMemory
<1>1. ScreenInv => StoresInVideoMemory
  BY DEF ScreenInv
<1> QED
  BY <1>1, ScreenInvariant, PTL

-----------------------------------------------------------------------------
(* What the screen shows.                                                  *)

(* The offset of column c of row r, both counted from 1.                   *)
Cell(r, c) == (r - 1) * Cols + c - 1

(* What a screen with the lines ls has there.                              *)
ShownCell(ls, r, c) ==
    IF r <= Len(ls) /\ c <= Len(ls[r]) THEN ls[r][c] ELSE Blank

(* The memory m shows the lines ls, and blanks where they do not reach.    *)
Shows(m, ls) ==
    \A r \in 1..Rows, c \in 1..Cols : m[Cell(r, c)] = ShownCell(ls, r, c)

(* The offset behind the last character.                                   *)
Pos(ls) == (Len(ls) - 1) * Cols + Len(Last(ls))

(* Lines that fit the screen, the last one with room for a character.      *)
Fits(ls) ==
    /\ ls \in Seq(Seq(Chars)) /\ Len(ls) >= 1
    /\ \A r \in 1..Len(ls) : Len(ls[r]) <= Cols
    /\ Len(ls[Len(ls)]) < Cols

(* The lines a screen can show.                                            *)
Text(ls) == Fits(ls) /\ Len(ls) <= Rows

(***************************************************************************)
(* What a print that nobody cuts into has achieved at each of its port     *)
(* accesses: it has read the cursor, or it knows where it is and has to    *)
(* write it still.                                                         *)
(***************************************************************************)
InStep(t) ==
    /\ pc[t] \in {"get14", "gethi", "get15", "getlo"} => Cursor = Pos(shown)
    /\ pc[t] \in {"put", "set14", "sethi", "set15", "setlo"} => off[t] = Pos(shown)
    /\ pc[t] \in {"gethi", "sethi"} => index = "hi"
    /\ pc[t] \in {"getlo", "setlo"} => index = "lo"
    /\ pc[t] \in {"get15", "getlo"} => off[t] = hi * Radix
    /\ pc[t] \in {"set15", "setlo"} => hi = HiByte(Pos(shown))

AllIdle == \A t \in Task : pc[t] = "idle"

(* As long as no print was cut in two, the screen shows the text, at most  *)
(* one task is printing, and the cursor or that task knows where it ends.  *)
RenderInv ==
    orderly =>
       /\ Text(shown) /\ Shows(vidmem, shown)
       /\ AllIdle => Cursor = Pos(shown)
       /\ \A t \in Task : InStep(t)
       /\ \A t, u \in Task : pc[t] # "idle" /\ pc[u] # "idle" => t = u

(* Every cell of the screen has one row and one column.                    *)
LEMMA CellFacts ==
    ASSUME NEW r \in 1..Rows, NEW c \in 1..Cols
    PROVE  /\ Cell(r, c) \in 0..(Cells - 1)
           /\ get_offset_row(Cell(r, c)) = r - 1
           /\ NextRow(Cell(r, c)) = r * Cols
           /\ Cell(r, c) + Cols < Cells <=> r < Rows
           /\ Cell(r, c) + Cols = Cell(r + 1, c)
<1>1. /\ Rows \in Nat \ {0} /\ Cols \in Nat \ {0} /\ Cells = Rows * Cols /\ Cells \in Nat
      /\ r \in Nat /\ c \in Nat /\ r >= 1 /\ c >= 1 /\ r <= Rows /\ c <= Cols
  BY SizeTypes DEF Cells
<1> DEFINE a == (r - 1) * Cols
           b == r * Cols
<1>2. a \in Nat /\ b \in Nat /\ b = a + Cols
  BY <1>1
<1>3. b <= Cells
  BY <1>1, MulMono
<1>4. Cell(r, c) = a + c - 1 /\ Cell(r + 1, c) = b + c - 1
  <2>1. (r + 1) - 1 = r
    BY <1>1
  <2> QED
    BY <2>1 DEF Cell
<1>5. r < Rows => b + Cols <= Cells
  <2> SUFFICES ASSUME r < Rows PROVE b + Cols <= Cells
    OBVIOUS
  <2>1. (r + 1) * Cols <= Rows * Cols /\ (r + 1) * Cols = b + Cols
    BY <1>1, MulMono
  <2> QED
    BY <1>1, <2>1
<1>6. r = Rows => b = Cells
  BY <1>1
<1> HIDE DEF a, b
<1>7. /\ Cell(r, c) \in 0..(Cells - 1)
      /\ Cell(r, c) + Cols < Cells <=> r < Rows
      /\ Cell(r, c) + Cols = Cell(r + 1, c)
  BY <1>1, <1>2, <1>3, <1>4, <1>5, <1>6
<1>8. get_offset_row(Cell(r, c)) = r - 1
  <2> DEFINE o == Cell(r, c)
             q == get_offset_row(o)
  <2>1. o \in Nat /\ a <= o /\ o < b
    BY <1>1, <1>2, <1>4, <1>7
  <2> HIDE DEF o
  <2>2. q \in Nat /\ q * Cols <= o /\ o < (q + 1) * Cols
    BY <2>1, RowFacts
  <2> HIDE DEF q
  <2>3. ~(q < r - 1)
    <3> SUFFICES ASSUME q < r - 1 PROVE FALSE
      OBVIOUS
    <3>1. q + 1 <= r - 1 /\ q + 1 \in Int /\ r - 1 \in Int
      BY <1>1, <2>2
    <3>2. (q + 1) * Cols <= (r - 1) * Cols /\ (q + 1) * Cols \in Int
      BY <1>1, <3>1, MulMono
    <3> QED
      BY <1>2, <2>1, <2>2, <3>2 DEF a
  <2>4. ~(r - 1 < q)
    <3> SUFFICES ASSUME r - 1 < q PROVE FALSE
      OBVIOUS
    <3>1. r <= q /\ q \in Int /\ r \in Int
      BY <1>1, <2>2
    <3>2. r * Cols <= q * Cols /\ q * Cols \in Int
      BY <1>1, <3>1, MulMono
    <3> QED
      BY <1>2, <2>1, <2>2, <3>2 DEF b
  <2>5. q = r - 1
    BY <1>1, <2>2, <2>3, <2>4
  <2> QED
    BY <2>5 DEF q, o
<1>9. NextRow(Cell(r, c)) = r * Cols
  <2>1. (r - 1) + 1 = r
    BY <1>1
  <2> QED
    BY <1>8, <2>1 DEF NextRow
<1> QED
  BY <1>7, <1>8, <1>9

(* Two places of the screen are two cells.                                 *)
LEMMA CellUnique ==
    ASSUME NEW r \in 1..Rows, NEW c \in 1..Cols, NEW q \in 1..Rows, NEW d \in 1..Cols,
           Cell(r, c) = Cell(q, d)
    PROVE  r = q /\ c = d
<1>1. r - 1 = q - 1
  BY CellFacts
<1>2. r = q
  BY <1>1, SizeTypes
<1>3. (r - 1) * Cols \in Int
  BY SizeTypes
<1> QED
  BY <1>2, <1>3, SizeTypes DEF Cell

(* The place behind the last character is a cell of its line.              *)
LEMMA PosFacts ==
    ASSUME NEW ls, Text(ls)
    PROVE  /\ Len(ls) \in 1..Rows /\ Len(ls[Len(ls)]) + 1 \in 1..Cols
           /\ Pos(ls) = Cell(Len(ls), Len(ls[Len(ls)]) + 1)
           /\ Pos(ls) \in 0..(Cells - 1)
<1>1. Len(ls) \in 1..Rows /\ ls \in Seq(Seq(Chars)) /\ Len(ls[Len(ls)]) < Cols
  BY SizeTypes DEF Text, Fits
<1>2. ls[Len(ls)] \in Seq(Chars)
  BY <1>1
<1>3. Len(ls[Len(ls)]) \in Nat
  BY <1>2
<1> DEFINE l == Len(ls)
           k == Len(ls[l])
<1>4. l \in 1..Rows /\ k \in Nat /\ k < Cols
  BY <1>1, <1>3
<1>5. Pos(ls) = (l - 1) * Cols + k
  BY DEF Pos, Last
<1> HIDE DEF l, k
<1>6. k + 1 \in 1..Cols
  BY <1>4, SizeTypes
<1>7. Pos(ls) = Cell(l, k + 1)
  <2>1. (l - 1) * Cols \in Int
    BY <1>4, SizeTypes
  <2> QED
    BY <1>4, <1>5, <2>1 DEF Cell
<1>8. Cell(l, k + 1) \in 0..(Cells - 1)
  BY <1>4, <1>6, CellFacts
<1> QED
  BY <1>4, <1>6, <1>7, <1>8 DEF l, k

(* A sequence with another last element.                                   *)
LEMMA LastFacts ==
    ASSUME NEW S, NEW q \in Seq(S), Len(q) >= 1, NEW x \in S
    PROVE  /\ Append(Front(q), x) \in Seq(S) /\ Len(Append(Front(q), x)) = Len(q)
           /\ Append(Front(q), x)[Len(q)] = x
           /\ \A i \in 1..Len(q) : i # Len(q) => Append(Front(q), x)[i] = q[i]
<1> DEFINE k == Len(q) - 1
           f == SubSeq(q, 1, k)
<1>1. Front(q) = f
  BY DEF Front
<1>2. k \in Nat /\ Len(q) = k + 1
  OBVIOUS
<1>3. \A i \in 1..k : q[i] \in S
  OBVIOUS
<1> HIDE DEF k
<1>4. f \in Seq(S) /\ Len(f) = k /\ \A i \in 1..k : f[i] = q[i]
  <2>1. /\ f \in Seq(S) /\ Len(f) = (IF 1 <= k THEN k - 1 + 1 ELSE 0)
        /\ \A i \in 1..(k - 1 + 1) : f[i] = q[1 + i - 1]
    BY ONLY <1>2, <1>3, SubSeqProperties
  <2> HIDE DEF f
  <2>2. k - 1 + 1 = k /\ \A i \in 1..k : 1 + i - 1 = i
    BY <1>2
  <2> QED
    BY <1>2, <2>1, <2>2
<1> HIDE DEF f
<1>5. /\ Append(f, x) \in Seq(S) /\ Len(Append(f, x)) = k + 1
      /\ Append(f, x)[k + 1] = x
      /\ \A i \in 1..(k + 1) : i # k + 1 => Append(f, x)[i] = q[i]
  BY <1>2, <1>4
<1> QED
  BY ONLY <1>1, <1>2, <1>5

(* A sequence with one more element.                                       *)
LEMMA AppendFacts ==
    ASSUME NEW S, NEW q \in Seq(S), NEW x \in S
    PROVE  /\ Append(q, x) \in Seq(S) /\ Len(Append(q, x)) = Len(q) + 1
           /\ Append(q, x)[Len(q) + 1] = x
           /\ \A i \in 1..Len(q) : Append(q, x)[i] = q[i]
  OBVIOUS

(* An empty line changes nothing on the screen.                            *)
LEMMA NewLine ==
    ASSUME NEW q \in Seq(Seq(Chars)), \A r \in 1..Len(q) : Len(q[r]) <= Cols, NEW m,
           NEW w, w = Append(q, <<>>)
    PROVE  /\ Fits(w) /\ Len(w) = Len(q) + 1 /\ w[Len(w)] = <<>>
           /\ Shows(m, q) => Shows(m, w)
           /\ Pos(w) = Len(q) * Cols
<1> DEFINE e == <<>>
           l == Len(q)
<1>1. e \in Seq(Chars) /\ Len(e) = 0 /\ 0 < Cols /\ Cols \in Nat /\ l \in Nat /\ Rows \in Nat
  BY SizeTypes
<1>2. w = Append(q, e)
  OBVIOUS
<1> HIDE DEF e
<1>3. /\ w \in Seq(Seq(Chars)) /\ Len(w) = l + 1 /\ w[l + 1] = e
      /\ \A i \in 1..l : w[i] = q[i]
  BY <1>1, <1>2, AppendFacts
<1>a. \A r \in 1..l : Len(q[r]) <= Cols
  OBVIOUS
<1> HIDE DEF l
<1>4. \A r \in 1..Len(w) : Len(w[r]) <= Cols
  <2> SUFFICES ASSUME NEW r \in 1..(l + 1) PROVE Len(w[r]) <= Cols
    BY <1>3
  <2>1. CASE r = l + 1
    BY <1>1, <1>3, <2>1
  <2>2. CASE r # l + 1
    <3>1. r \in 1..l
      BY <1>1, <2>2
    <3> QED
      BY <1>3, <1>a, <3>1
  <2> QED
    BY <2>1, <2>2
<1>5. Fits(w) /\ w[Len(w)] = e
  BY <1>1, <1>3, <1>4 DEF Fits
<1>6. ASSUME Shows(m, q), NEW r \in 1..Rows, NEW c \in 1..Cols
      PROVE  m[Cell(r, c)] = ShownCell(w, r, c)
  <2>1. m[Cell(r, c)] = ShownCell(q, r, c)
    BY <1>6 DEF Shows
  <2>2. CASE r \in 1..l
    <3>1. r <= Len(q) /\ r <= Len(w) /\ w[r] = q[r]
      BY <1>1, <1>3, <2>2 DEF l
    <3> QED
      BY <2>1, <3>1 DEF ShownCell
  <2>3. CASE r = l + 1
    <3>1. ~(r <= Len(q)) /\ ~(c <= Len(w[r]))
      BY <1>1, <1>3, <2>3 DEF l
    <3> QED
      BY <2>1, <3>1 DEF ShownCell
  <2>4. CASE r > l + 1
    <3>1. ~(r <= Len(q)) /\ ~(r <= Len(w))
      BY <1>1, <1>3, <2>4 DEF l
    <3> QED
      BY <2>1, <3>1 DEF ShownCell
  <2> QED
    BY <1>1, <2>2, <2>3, <2>4
<1>7. Shows(m, q) => Shows(m, w)
  BY <1>6 DEF Shows
<1>8. Pos(w) = l * Cols
  <2>1. Last(w) = e
    BY <1>5 DEF Last
  <2>2. Len(w) - 1 = l /\ l * Cols \in Int
    BY <1>1, <1>3
  <2>3. Pos(w) = l * Cols + Len(e)
    BY ONLY <2>1, <2>2 DEF Pos
  <2> QED
    BY ONLY <1>1, <2>2, <2>3
<1> QED
  BY <1>3, <1>5, <1>7, <1>8 DEF e, l

(* A character stored behind the last one continues the last line.         *)
LEMMA LineContinued ==
    ASSUME NEW m \in Memory, NEW c \in Chars, NEW ls, Text(ls), Shows(m, ls),
           NEW n, n = [m EXCEPT ![Pos(ls)] = c],
           NEW w, w = Append(Front(ls), Append(Last(ls), c))
    PROVE  /\ w \in Seq(Seq(Chars)) /\ Len(w) = Len(ls) /\ Shows(n, w)
           /\ Len(w[Len(w)]) = Len(ls[Len(ls)]) + 1
           /\ \A r \in 1..Len(w) : Len(w[r]) <= Cols
<1> DEFINE l == Len(ls)
           old == ls[l]
           k == Len(old)
           line == Append(old, c)
           o == Pos(ls)
<1>1. /\ ls \in Seq(Seq(Chars)) /\ l \in 1..Rows /\ l \in Nat /\ l >= 1
      /\ old \in Seq(Chars) /\ k \in Nat /\ k + 1 \in 1..Cols /\ k < Cols
      /\ Cols \in Nat /\ Rows \in Nat
      /\ \A r \in 1..l : Len(ls[r]) <= Cols
  <2>1. ls \in Seq(Seq(Chars)) /\ l >= 1 /\ l <= Rows /\ \A r \in 1..l : Len(ls[r]) <= Cols
    BY DEF Text, Fits
  <2>2. l \in Nat /\ l \in 1..Rows /\ Cols \in Nat /\ Rows \in Nat
    BY <2>1, SizeTypes
  <2>3. old \in Seq(Chars)
    BY <2>1, <2>2
  <2>4. k \in Nat
    BY <2>3
  <2> QED
    BY <2>1, <2>2, <2>3, <2>4, PosFacts DEF Text, Fits
<1>2. o = Cell(l, k + 1) /\ o \in 0..(Cells - 1)
  BY PosFacts
<1>w. w = Append(Front(ls), line)
  BY DEF Last
<1>n. n = [m EXCEPT ![o] = c]
  OBVIOUS
<1> HIDE DEF o
<1>3. /\ line \in Seq(Chars) /\ Len(line) = k + 1 /\ line[k + 1] = c
      /\ \A i \in 1..k : line[i] = old[i]
  BY <1>1, AppendFacts
<1> HIDE DEF line
<1>4. /\ w \in Seq(Seq(Chars)) /\ Len(w) = l /\ w[l] = line
      /\ \A i \in 1..l : i # l => w[i] = ls[i]
  BY <1>1, <1>3, <1>w, LastFacts
<1>5. /\ n[o] = c /\ \A i \in 0..(Cells - 1) : i # o => n[i] = m[i]
  BY <1>2, <1>n DEF Memory
<1>6. ASSUME NEW r \in 1..Rows, NEW d \in 1..Cols
      PROVE  n[Cell(r, d)] = ShownCell(w, r, d)
  <2>1. m[Cell(r, d)] = ShownCell(ls, r, d) /\ Cell(r, d) \in 0..(Cells - 1)
    BY CellFacts DEF Shows
  <2>2. CASE r = l /\ d = k + 1
    <3>1. n[Cell(r, d)] = c
      BY <1>2, <1>5, <2>2
    <3>2. r <= Len(w) /\ d <= Len(w[r]) /\ w[r][d] = c
      BY <1>1, <1>3, <1>4, <2>2
    <3> QED
      BY <3>1, <3>2 DEF ShownCell
  <2>3. ASSUME r # l \/ d # k + 1 PROVE n[Cell(r, d)] = ShownCell(ls, r, d)
    <3>1. Cell(r, d) # o
      BY <1>1, <1>2, <2>3, CellUnique
    <3> QED
      BY <1>5, <2>1, <3>1
  <2>4. CASE r = l /\ d # k + 1
    <3>1. r <= Len(w) /\ r <= Len(ls) /\ w[r] = line /\ ls[r] = old /\ k = Len(ls[r])
      BY <1>1, <1>4, <2>4
    <3>2. CASE d <= k
      <4>1. d \in 1..k /\ d <= Len(line) /\ d <= Len(ls[r])
        BY <1>1, <1>3, <3>1, <3>2
      <4>2. line[d] = ls[r][d]
        BY <1>3, <3>1, <4>1
      <4> QED
        BY <2>3, <2>4, <3>1, <4>1, <4>2 DEF ShownCell
    <3>3. CASE ~(d <= k)
      <4>1. ~(d <= Len(line)) /\ ~(d <= Len(ls[r]))
        BY <1>1, <1>3, <2>4, <3>1, <3>3
      <4> QED
        BY <2>3, <2>4, <3>1, <4>1 DEF ShownCell
    <3> QED
      BY <3>2, <3>3
  <2>5. CASE r # l
    <3>1. CASE r <= l
      <4>1. r <= Len(w) /\ r <= Len(ls) /\ w[r] = ls[r]
        BY <1>1, <1>4, <2>5, <3>1
      <4> QED
        BY <2>3, <2>5, <4>1 DEF ShownCell
    <3>2. CASE ~(r <= l)
      <4>1. ~(r <= Len(w)) /\ ~(r <= Len(ls))
        BY <1>4, <3>2
      <4> QED
        BY <2>3, <2>5, <4>1 DEF ShownCell
    <3> QED
      BY <3>1, <3>2
  <2> QED
    BY <2>2, <2>4, <2>5
<1>7. Shows(n, w)
  BY <1>6 DEF Shows
<1>8. \A r \in 1..Len(w) : Len(w[r]) <= Cols
  <2> SUFFICES ASSUME NEW r \in 1..l PROVE Len(w[r]) <= Cols
    BY <1>4
  <2>1. CASE r = l
    BY <1>1, <1>3, <1>4, <2>1
  <2>2. CASE r # l
    BY <1>1, <1>4, <2>2
  <2> QED
    BY <2>1, <2>2
<1> QED
  BY <1>3, <1>4, <1>7, <1>8

(* Scrolling shows the lines without the first one.                        *)
LEMMA ScrolledShows ==
    ASSUME NEW m, NEW w, Fits(w), Len(w) = Rows + 1, w[Len(w)] = <<>>, Shows(m, w)
    PROVE  /\ Text(Tail(w)) /\ Shows(Scrolled(m), Tail(w))
           /\ Pos(w) = Cells /\ Pos(Tail(w)) = Cells - Cols
<1> DEFINE t == Tail(w)
           e == <<>>
<1>1. /\ Rows \in Nat /\ Rows >= 1 /\ Cols \in Nat /\ Cols >= 1 /\ Cells = Rows * Cols
      /\ Cells \in Nat /\ Len(e) = 0
  BY SizeTypes DEF Cells
<1>2. /\ w \in Seq(Seq(Chars)) /\ Len(w) = Rows + 1 /\ w[Rows + 1] = e
      /\ \A r \in 1..(Rows + 1) : Len(w[r]) <= Cols
  BY DEF Fits
<1> HIDE DEF e
<1>3. t \in Seq(Seq(Chars)) /\ Len(t) = Rows /\ \A i \in 1..Rows : t[i] = w[i + 1]
  <2>1. w # <<>>
    BY ONLY <1>1, <1>2
  <2>2. t \in Seq(Seq(Chars)) /\ Len(t) = Len(w) - 1 /\ \A i \in 1..Len(t) : t[i] = w[i + 1]
    BY ONLY <1>2, <2>1, HeadTailProperties
  <2> QED
    BY ONLY <1>1, <1>2, <2>2
<1> HIDE DEF t
<1>4. t[Rows] = e /\ \A r \in 1..Rows : Len(t[r]) <= Cols
  <2>1. \A r \in 1..Rows : r + 1 \in 1..(Rows + 1)
    BY ONLY <1>1
  <2> QED
    BY ONLY <1>1, <1>2, <1>3, <2>1
<1>5. Text(t)
  BY ONLY <1>1, <1>3, <1>4 DEF Text, Fits
<1>6. ASSUME NEW r \in 1..Rows, NEW c \in 1..Cols
      PROVE  Scrolled(m)[Cell(r, c)] = ShownCell(t, r, c)
  <2> DEFINE i == Cell(r, c)
  <2>1. i \in 0..(Cells - 1) /\ (i + Cols < Cells <=> r < Rows) /\ i + Cols = Cell(r + 1, c)
    BY CellFacts
  <2>2. Scrolled(m)[i] = IF i + Cols < Cells THEN m[i + Cols] ELSE Blank
    BY ONLY <2>1 DEF Scrolled
  <2> HIDE DEF i
  <2>3. CASE r < Rows
    <3>1. r + 1 \in 1..Rows /\ r <= Len(t) /\ r + 1 <= Len(w) /\ t[r] = w[r + 1]
      BY <1>1, <1>2, <1>3, <2>3
    <3>2. m[Cell(r + 1, c)] = ShownCell(w, r + 1, c)
      BY <3>1 DEF Shows
    <3>3. Scrolled(m)[i] = ShownCell(w, r + 1, c)
      BY <2>1, <2>2, <2>3, <3>2
    <3> QED
      BY <3>1, <3>3 DEF ShownCell, i
  <2>4. CASE r = Rows
    <3>1. ~(c <= Len(t[r]))
      BY <1>1, <1>4, <2>4
    <3>2. Scrolled(m)[i] = Blank
      BY <1>1, <2>1, <2>2, <2>4
    <3> QED
      BY <3>1, <3>2 DEF ShownCell, i
  <2> QED
    BY <1>1, <2>3, <2>4
<1>7. Shows(Scrolled(m), t)
  BY <1>6 DEF Shows
<1>8. Pos(w) = Cells
  <2>1. Len(w) - 1 = Rows /\ Last(w) = e
    BY <1>1, <1>2 DEF Last
  <2>2. Pos(w) = Rows * Cols + Len(e)
    BY ONLY <2>1 DEF Pos
  <2> QED
    BY ONLY <1>1, <2>2
<1>9. Pos(t) = Cells - Cols
  <2>1. Len(t) - 1 = Rows - 1 /\ Last(t) = e
    BY <1>1, <1>3, <1>4 DEF Last
  <2>2. Pos(t) = (Rows - 1) * Cols + Len(e)
    BY ONLY <2>1 DEF Pos
  <2>3. (Rows - 1) * Cols = Rows * Cols - Cols
    BY ONLY <1>1
  <2> QED
    BY ONLY <1>1, <2>2, <2>3
<1> QED
  BY <1>5, <1>7, <1>8, <1>9 DEF t

(***************************************************************************)
(* The reference types a character in the cell print_char stores it to,    *)
(* and its next place is where print_char advances to, before either       *)
(* drops a row.                                                            *)
(***************************************************************************)
LEMMA TypedText ==
    ASSUME NEW m \in Memory, NEW c \in Chars, NEW ls, Text(ls), Shows(m, ls)
    PROVE  \E w : /\ Typed(ls, c) = LastRows(w)
                  /\ Fits(w) /\ Len(w) <= Rows + 1
                  /\ Len(w) = Rows + 1 => w[Len(w)] = <<>>
                  /\ Shows(Stored(m, c, Pos(ls)), w)
                  /\ Pos(w) = Advanced(c, Pos(ls))
<1> DEFINE l == Len(ls)
           old == ls[l]
           k == Len(old)
           line == Append(Last(ls), c)
           o == Pos(ls)
<1>1. /\ ls \in Seq(Seq(Chars)) /\ l \in 1..Rows /\ k + 1 \in 1..Cols /\ k < Cols
      /\ o = Cell(l, k + 1) /\ \A r \in 1..l : Len(ls[r]) <= Cols
      /\ Rows \in Nat /\ Cols \in Nat
  BY PosFacts, SizeTypes DEF Text, Fits
<1>2. old \in Seq(Chars)
  BY <1>1
<1>3. k \in Nat /\ line \in Seq(Chars) /\ Len(line) = k + 1
  BY <1>2 DEF Last
<1>4. NextRow(o) = l * Cols
  BY <1>1, CellFacts
<1>5. o = (l - 1) * Cols + k
  BY DEF Pos, Last
<1>6. CASE c = "\n"
  <2> DEFINE w == Append(ls, <<>>)
  <2>1. Typed(ls, c) = LastRows(w)
    BY <1>6 DEF Typed
  <2>2. Stored(m, c, o) = m /\ Advanced(c, o) = l * Cols
    BY <1>4, <1>6 DEF Stored, Advanced
  <2>3. /\ Fits(w) /\ Len(w) = l + 1 /\ w[Len(w)] = <<>> /\ Shows(m, w)
        /\ Pos(w) = l * Cols
    BY <1>1, NewLine
  <2> HIDE DEF w, o, l
  <2>4. Len(w) <= Rows + 1
    BY <1>1, <2>3
  <2> QED
    BY <2>1, <2>2, <2>3, <2>4 DEF o
<1>7. CASE c # "\n"
  <2> DEFINE v == Append(Front(ls), line)
             n == [m EXCEPT ![o] = c]
  <2>1. Stored(m, c, o) = n /\ Advanced(c, o) = o + 1
    BY <1>7 DEF Stored, Advanced
  <2>2. /\ v \in Seq(Seq(Chars)) /\ Len(v) = l /\ Shows(n, v)
        /\ Len(v[Len(v)]) = k + 1 /\ \A r \in 1..Len(v) : Len(v[r]) <= Cols
    BY LineContinued
  <2>3. CASE Len(line) < Cols
    <3>1. Typed(ls, c) = v
      BY <1>7, <2>3 DEF Typed
    <3> HIDE DEF v, n, o, l, k, line
    <3>2. LastRows(v) = v /\ Len(v) <= Rows + 1 /\ Len(v) # Rows + 1 /\ l \in Nat /\ l >= 1
      BY <1>1, <2>2 DEF LastRows
    <3>3. Fits(v)
      BY <1>1, <1>3, <2>2, <2>3, <3>2 DEF Fits
    <3>4. Pos(v) = o + 1
      <4>1. Pos(v) = (l - 1) * Cols + (k + 1)
        BY <2>2 DEF Pos, Last
      <4>2. (l - 1) * Cols \in Int
        BY <1>1, <3>2
      <4> QED
        BY <1>3, <1>5, <4>1, <4>2
    <3> QED
      BY <2>1, <2>2, <3>1, <3>2, <3>3, <3>4 DEF o
  <2>4. CASE ~(Len(line) < Cols)
    <3> DEFINE w == Append(v, <<>>)
    <3>1. Typed(ls, c) = LastRows(w)
      BY <1>7, <2>4 DEF Typed
    <3> HIDE DEF v, n, o, l, k, line
    <3>2. /\ Fits(w) /\ Len(w) = l + 1 /\ w[Len(w)] = <<>> /\ Shows(n, w)
          /\ Pos(w) = l * Cols
      BY <2>2, NewLine
    <3> HIDE DEF w
    <3>3. Len(w) <= Rows + 1
      BY <1>1, <3>2
    <3>4. l * Cols = o + 1
      <4>1. k + 1 = Cols
        BY <1>1, <1>3, <2>4
      <4>2. l * Cols = (l - 1) * Cols + Cols /\ (l - 1) * Cols \in Int
        BY <1>1
      <4> QED
        BY <1>3, <1>5, <4>1, <4>2
    <3> QED
      BY <2>1, <3>1, <3>2, <3>3, <3>4 DEF o
  <2> QED
    BY <2>3, <2>4
<1> QED
  BY <1>6, <1>7

(* print_char behind the last character shows one character more, and      *)
(* returns the place behind that.                                          *)
LEMMA PrintShows ==
    ASSUME NEW m \in Memory, NEW c \in Chars, NEW ls, Text(ls), Shows(m, ls)
    PROVE  /\ PrintChar(m, c, Pos(ls)).cursor
           /\ Text(Typed(ls, c)) /\ Shows(PrintChar(m, c, Pos(ls)).mem, Typed(ls, c))
           /\ PrintChar(m, c, Pos(ls)).at = Pos(Typed(ls, c))
<1> DEFINE o == Pos(ls)
           s == Stored(m, c, o)
           n == Advanced(c, o)
           p == PrintChar(m, c, o)
<1>1. ~OutOfRange(o)
  <2>1. Len(ls) \in 1..Rows /\ Len(ls[Len(ls)]) + 1 \in 1..Cols
        /\ o = Cell(Len(ls), Len(ls[Len(ls)]) + 1)
    BY PosFacts
  <2>2. get_offset_row(o) = Len(ls) - 1
    BY <2>1, CellFacts
  <2> QED
    BY <2>1, <2>2, SizeTypes DEF OutOfRange
<1> DEFINE mem == IF n >= Cells THEN Scrolled(s) ELSE s
           at == IF n >= Cells THEN n - Cols ELSE n
<1>2. p.mem = mem /\ p.at = at /\ p.cursor = TRUE
  <2>1. p = [mem |-> mem, at |-> at, cursor |-> TRUE,
             store |-> IF c = "\n" THEN NoStore ELSE o]
    BY <1>1 DEF PrintChar
  <2> HIDE DEF p, mem, at
  <2> QED
    BY <2>1
<1>3. PICK w : /\ Typed(ls, c) = LastRows(w)
               /\ Fits(w) /\ Len(w) <= Rows + 1
               /\ Len(w) = Rows + 1 => w[Len(w)] = <<>>
               /\ Shows(s, w) /\ Pos(w) = n
  BY TypedText
<1> HIDE DEF p, s, n
<1>4. Len(w) \in Nat /\ Rows \in Nat /\ Cells \in Nat /\ Cols \in Nat
  BY <1>3, SizeTypes DEF Fits
<1>5. CASE Len(w) = Rows + 1
  <2>1. /\ Text(Tail(w)) /\ Shows(Scrolled(s), Tail(w))
        /\ n = Cells /\ Pos(Tail(w)) = Cells - Cols
    BY <1>3, <1>5, ScrolledShows
  <2>2. LastRows(w) = Tail(w)
    BY <1>4, <1>5 DEF LastRows
  <2>3. mem = Scrolled(s) /\ at = Cells - Cols
    BY <1>4, <2>1
  <2> QED
    BY <1>2, <1>3, <2>1, <2>2, <2>3 DEF p
<1>6. CASE Len(w) # Rows + 1
  <2>1. Len(w) <= Rows /\ LastRows(w) = w
    BY <1>3, <1>4, <1>6 DEF LastRows
  <2>2. Text(w)
    BY <1>3, <2>1 DEF Text
  <2>3. n < Cells
    BY <1>3, <1>4, <2>2, PosFacts
  <2>4. mem = s /\ at = n
    BY <1>4, <2>2, <2>3, <1>3, PosFacts
  <2> QED
    BY <1>2, <1>3, <2>1, <2>2, <2>4 DEF p
<1> QED
  BY <1>5, <1>6

(* The memory n is m with the cell of the last character of ls blanked,    *)
(* and line the last line without it, or with a blank for it.              *)
LastErased(m, n, ls, line) ==
    LET l == Len(ls)
        k == Len(ls[l])
    IN  /\ k # 0 /\ n[Cell(l, k)] = Blank
        /\ \A i \in 0..(Cells - 1) : i # Cell(l, k) => n[i] = m[i]
        /\ line \in Seq(Chars) /\ Len(line) \in {k - 1, k}
        /\ \A i \in 1..(k - 1) : line[i] = ls[l][i]
        /\ Len(line) = k => line[k] = Blank

(* The screen then shows the text with that line for its last.             *)
LEMMA LineErased ==
    ASSUME NEW m \in Memory, NEW ls, Text(ls), Shows(m, ls), NEW n, NEW line,
           LastErased(m, n, ls, line)
    PROVE  /\ Text(Append(Front(ls), line)) /\ Shows(n, Append(Front(ls), line))
           /\ Pos(Append(Front(ls), line)) = (Len(ls) - 1) * Cols + Len(line)
<1> DEFINE l == Len(ls)
           k == Len(ls[l])
           w == Append(Front(ls), line)
<1>a. /\ ls \in Seq(Seq(Chars)) /\ l \in 1..Rows /\ l \in Nat /\ l >= 1 /\ k # 0
      /\ line \in Seq(Chars) /\ Len(line) \in {k - 1, k}
      /\ \A i \in 1..(k - 1) : line[i] = ls[l][i]
      /\ Len(line) = k => line[k] = Blank
  BY PosFacts, SizeTypes DEF Text, Fits, LastErased
<1>b. ls[l] \in Seq(Chars)
  BY <1>a
<1>c. k \in Nat \ {0}
  BY <1>a, <1>b
<1>1. /\ ls \in Seq(Seq(Chars)) /\ l \in 1..Rows /\ l \in Nat /\ l >= 1
      /\ k + 1 \in 1..Cols /\ k < Cols /\ Cols \in Nat /\ Rows \in Nat
      /\ \A r \in 1..l : Len(ls[r]) <= Cols
  BY PosFacts, SizeTypes DEF Text, Fits
<1>2. k \in 1..Cols /\ Cell(l, k) \in 0..(Cells - 1)
  <2>1. k \in 1..Cols
    BY ONLY <1>1, <1>c
  <2> QED
    BY ONLY <1>1, <2>1, CellFacts
<1> HIDE DEF k
<1>3. /\ w \in Seq(Seq(Chars)) /\ Len(w) = l /\ w[l] = line
      /\ \A i \in 1..l : i # l => w[i] = ls[i]
  BY <1>1, <1>a, LastFacts
<1> HIDE DEF w
<1>4. Len(line) \in Nat /\ Len(line) < Cols /\ Len(line) <= k /\ Len(line) >= k - 1
  BY <1>1, <1>a, <1>c
<1>5. n[Cell(l, k)] = Blank /\ \A i \in 0..(Cells - 1) : i # Cell(l, k) => n[i] = m[i]
  BY DEF LastErased, k
<1>6. \A r \in 1..Len(w) : Len(w[r]) <= Cols
  <2> SUFFICES ASSUME NEW r \in 1..l PROVE Len(w[r]) <= Cols
    BY <1>3
  <2>1. CASE r = l
    BY <1>1, <1>3, <1>4, <2>1
  <2>2. CASE r # l
    BY <1>1, <1>3, <2>2
  <2> QED
    BY <2>1, <2>2
<1>7. Text(w)
  BY <1>1, <1>3, <1>4, <1>6 DEF Text, Fits
<1>8. ASSUME NEW r \in 1..Rows, NEW d \in 1..Cols
      PROVE  n[Cell(r, d)] = ShownCell(w, r, d)
  <2>1. m[Cell(r, d)] = ShownCell(ls, r, d) /\ Cell(r, d) \in 0..(Cells - 1)
    BY CellFacts DEF Shows
  <2>2. CASE r = l /\ d = k
    <3>1. n[Cell(r, d)] = Blank
      BY <1>5, <2>2
    <3>2. w[r] = line /\ (d <= Len(line) => Len(line) = k /\ line[d] = Blank)
      BY <1>3, <1>4, <1>a, <1>c, <2>2
    <3> QED
      BY <3>1, <3>2 DEF ShownCell
  <2>3. ASSUME r # l \/ d # k PROVE n[Cell(r, d)] = ShownCell(ls, r, d)
    <3>1. Cell(r, d) # Cell(l, k)
      BY <1>1, <1>2, <2>3, CellUnique
    <3> QED
      BY <1>5, <2>1, <3>1
  <2>4. CASE r = l /\ d # k
    <3>1. r <= Len(w) /\ r <= Len(ls) /\ w[r] = line
      BY <1>1, <1>3, <2>4
    <3>2. CASE d < k
      <4>1. d <= Len(line) /\ d <= Len(ls[r]) /\ line[d] = ls[r][d]
        BY <1>1, <1>4, <1>a, <1>c, <2>4, <3>2 DEF k
      <4> QED
        BY <2>3, <2>4, <3>1, <4>1 DEF ShownCell
    <3>3. CASE ~(d < k)
      <4>1. ~(d <= Len(line)) /\ ~(d <= Len(ls[r]))
        BY <1>1, <1>4, <1>c, <2>4, <3>3 DEF k
      <4> QED
        BY <2>3, <2>4, <3>1, <4>1 DEF ShownCell
    <3> QED
      BY <3>2, <3>3
  <2>5. CASE r # l
    <3>1. CASE r <= l
      <4>1. r <= Len(w) /\ r <= Len(ls) /\ w[r] = ls[r]
        BY <1>1, <1>3, <2>5, <3>1
      <4> QED
        BY <2>3, <2>5, <4>1 DEF ShownCell
    <3>2. CASE ~(r <= l)
      <4>1. ~(r <= Len(w)) /\ ~(r <= Len(ls))
        BY <1>3, <3>2
      <4> QED
        BY <2>3, <2>5, <4>1 DEF ShownCell
    <3> QED
      BY <3>1, <3>2
  <2> QED
    BY <2>2, <2>4, <2>5
<1>9. Shows(n, w)
  BY <1>8 DEF Shows
<1>10. Pos(w) = (l - 1) * Cols + Len(line)
  BY <1>3 DEF Pos, Last
<1> QED
  BY <1>7, <1>9, <1>10 DEF w

(* kprint_backspace sets the cursor one cell back.                         *)
GoesBack(m, o) ==
    \/ get_offset_col(o) > 1 \/ OutOfRange(o)
    \/ PrintChar(m, Blank, o).mem[get_offset_row(o) * Cols] # ">"

(* kprint_backspace behind a character of the line erases it, and leaves   *)
(* the cursor behind what is left.                                         *)
LEMMA EraseShows ==
    ASSUME NEW m \in Memory, NEW ls, Text(ls), Shows(m, ls), Last(ls) # <<>>,
           NEW o, o = Pos(ls) - 1, NEW p, p = PrintChar(m, Blank, o)
    PROVE  /\ o \in Nat /\ p.cursor
           /\ Text(Erased(ls)) /\ Shows(p.mem, Erased(ls))
           /\ Pos(Erased(ls)) = IF GoesBack(m, o) THEN o ELSE p.at
<1> DEFINE l == Len(ls)
           old == ls[l]
           k == Len(old)
           a == (l - 1) * Cols
           n == [m EXCEPT ![o] = Blank]
<1>1. /\ ls \in Seq(Seq(Chars)) /\ l \in 1..Rows /\ k + 1 \in 1..Cols /\ k < Cols
      /\ Pos(ls) = Cell(l, k + 1) /\ Pos(ls) \in 0..(Cells - 1)
      /\ Rows \in Nat /\ Cols \in Nat /\ Cols # 0 /\ Cells \in Nat
  BY PosFacts, SizeTypes DEF Text, Fits
<1>2. old \in Seq(Chars) /\ old # <<>>
  BY <1>1 DEF Last
<1>3. k \in Nat /\ k # 0
  BY ONLY <1>2
<1>4. Last(ls) = old /\ a \in Int /\ Pos(ls) = a + k
  BY <1>1 DEF Last, Pos
<1> HIDE DEF l, old, k
<1>5. k \in 1..Cols /\ 1 \in 1..Cols
  BY <1>1, <1>3
<1>6. Cell(l, k) = a + k - 1 /\ Cell(l, 1) = a
  BY <1>1, <1>3, <1>4 DEF Cell
<1> HIDE DEF a
<1>7. o = Cell(l, k) /\ o = a + k - 1
  BY <1>3, <1>4, <1>6
<1>8. o \in 0..(Cells - 1) /\ get_offset_row(o) = l - 1 /\ ~OutOfRange(o)
  <2>1. o \in 0..(Cells - 1) /\ get_offset_row(o) = l - 1
    BY <1>1, <1>5, <1>7, CellFacts
  <2> QED
    BY <1>1, <2>1 DEF OutOfRange
<1>9. get_offset_row(o) * Cols = a /\ get_offset_col(o) = k - 1
  <2>1. get_offset_row(o) * Cols = a
    BY <1>8 DEF a
  <2> QED
    BY <1>3, <1>4, <1>7, <2>1 DEF get_offset_col
<1>10. p.mem = n /\ p.at = o + 1 /\ p.cursor = TRUE
  <2>1. Blank # "\n"
    BY DEF Blank
  <2>2. Stored(m, Blank, o) = n /\ Advanced(Blank, o) = o + 1
    BY <2>1 DEF Stored, Advanced
  <2>3. ~(o + 1 >= Cells)
    BY <1>1, <1>8
  <2>4. p = [mem |-> n, at |-> o + 1, cursor |-> TRUE, store |-> o]
    BY <1>8, <2>1, <2>2, <2>3 DEF PrintChar
  <2> QED
    BY ONLY <2>4
<1>11. GoesBack(m, o) <=> k > 2 \/ n[a] # ">"
  <2>1. PrintChar(m, Blank, o).mem[get_offset_row(o) * Cols] = n[a]
    BY <1>9, <1>10
  <2>2. k - 1 > 1 <=> k > 2
    BY <1>3
  <2> QED
    BY <1>8, <1>9, <2>1, <2>2 DEF GoesBack
<1>12. n[a] = IF k = 1 THEN Blank ELSE old[1]
  <2>1. CASE k = 1
    BY <1>6, <1>7, <1>8, <2>1 DEF Memory
  <2>2. CASE k # 1
    <3>1. a # o /\ a \in 0..(Cells - 1)
      <4>1. a # o
        BY ONLY <1>3, <1>4, <1>7, <2>2
      <4> QED
        BY ONLY <1>1, <1>5, <1>6, <4>1, CellFacts
    <3>2. n[a] = m[Cell(l, 1)]
      BY <1>6, <3>1 DEF Memory
    <3>3. l <= Len(ls) /\ 1 <= Len(ls[l]) /\ ls[l] = old
      BY <1>1, <1>3 DEF l, k, old
    <3>4. m[Cell(l, 1)] = old[1]
      BY <1>1, <1>5, <3>3 DEF Shows, ShownCell
    <3> QED
      BY <2>2, <3>2, <3>4
  <2> QED
    BY <2>1, <2>2
<1> HIDE DEF n
<1> DEFINE Prompt == k = 2 /\ old[1] = ">"
           line == IF Prompt THEN <<">", Blank>> ELSE Front(old)
           w == Append(Front(ls), line)
<1>13. Erased(ls) = w
  BY <1>4 DEF Erased, k
<1>14. GoesBack(m, o) <=> ~Prompt
  <2>1. Blank # ">"
    BY DEF Blank
  <2> QED
    BY <1>3, <1>11, <1>12, <2>1
<1>15. /\ line \in Seq(Chars) /\ Len(line) = (IF Prompt THEN k ELSE k - 1)
       /\ \A i \in 1..(k - 1) : line[i] = old[i]
       /\ Len(line) = k => line[k] = Blank
  <2>1. CASE Prompt
    <3>1. ">" \in Chars /\ Blank \in Chars /\ line = <<">", Blank>>
      <4>1. old[1] \in Chars
        BY <1>2, <2>1 DEF k
      <4> QED
        BY <2>1, <4>1 DEF Chars
    <3> HIDE DEF line
    <3>2. line \in Seq(Chars) /\ Len(line) = 2 /\ line[1] = ">" /\ line[2] = Blank
      BY ONLY <3>1
    <3>3. \A i \in 1..(k - 1) : i = 1
      BY <2>1
    <3> QED
      BY <2>1, <3>2, <3>3
  <2>2. CASE ~Prompt
    <3>1. line = SubSeq(old, 1, k - 1)
      BY <2>2 DEF Front, k
    <3> HIDE DEF Prompt, line
    <3>2. \A i \in 1..(k - 1) : old[i] \in Chars
      <4>1. \A i \in 1..Len(old) : old[i] \in Chars
        BY <1>2
      <4> QED
        BY <1>3, <4>1 DEF k
    <3>3. /\ line \in Seq(Chars) /\ Len(line) = (IF 1 <= k - 1 THEN k - 1 - 1 + 1 ELSE 0)
          /\ \A i \in 1..(k - 1 - 1 + 1) : line[i] = old[1 + i - 1]
      BY ONLY <1>3, <3>1, <3>2, SubSeqProperties
    <3>4. k - 1 - 1 + 1 = k - 1 /\ \A i \in 1..(k - 1) : 1 + i - 1 = i
      BY <1>3
    <3>5. /\ Len(line) = k - 1 /\ \A i \in 1..(k - 1) : line[i] = old[i]
      BY <1>3, <3>3, <3>4
    <3> QED
      BY <1>3, <2>2, <3>3, <3>5
  <2> QED
    BY <2>1, <2>2
<1> HIDE DEF Prompt, line, w
<1>16. Text(w) /\ Shows(n, w) /\ Pos(w) = a + Len(line)
  <2>1. Len(line) \in {k - 1, k}
    BY <1>3, <1>15
  <2>2. l = Len(ls) /\ k = Len(ls[l]) /\ old = ls[l]
    BY DEF l, k, old
  <2>3. /\ n[Cell(l, k)] = Blank
        /\ \A i \in 0..(Cells - 1) : i # Cell(l, k) => n[i] = m[i]
    BY <1>7, <1>8 DEF n, Memory
  <2>4. LastErased(m, n, ls, line)
    BY ONLY <1>3, <1>15, <2>1, <2>2, <2>3 DEF LastErased
  <2>5. Text(w) /\ Shows(n, w) /\ Pos(w) = (l - 1) * Cols + Len(line)
    BY <2>4, LineErased DEF w, l
  <2> QED
    BY <2>5 DEF a
<1>17. Pos(w) = IF GoesBack(m, o) THEN o ELSE p.at
  BY <1>3, <1>4, <1>7, <1>10, <1>14, <1>15, <1>16
<1> QED
  BY <1>8, <1>10, <1>13, <1>16, <1>17

(* Division, and the remainder of a number that is small already.          *)
LEMMA DivFacts ==
    ASSUME NEW o \in Nat, NEW d \in Nat, d > 0
    PROVE  /\ o \div d \in Nat /\ (o \div d) * d \in Nat /\ (o \div d) * d <= o
           /\ o % d = o - (o \div d) * d
           /\ o < d => o % d = o
  OBVIOUS

(* get_cursor_offset reads what set_cursor_offset wrote.                   *)
LEMMA BytesOfOffset ==
    ASSUME NEW o \in 0..(Radix * Radix - 1)
    PROVE  HiByte(o) * Radix + LoByte(o) = o
<1> DEFINE q == o \div Radix
           a == q * Radix
<1>1. Radix \in Nat /\ Radix > 0 /\ Radix * Radix \in Nat /\ o \in Nat /\ o < Radix * Radix
  BY SizeTypes
<1>2. q \in Nat /\ a \in Nat /\ a <= o /\ o % Radix = o - a
  BY ONLY <1>1, DivFacts
<1>3. HiByte(o) = q % Radix /\ LoByte(o) = o % Radix
  BY DEF HiByte, LoByte
<1> HIDE DEF q
<1>4. q < Radix
  <2> SUFFICES ASSUME Radix <= q PROVE FALSE
    BY ONLY <1>1, <1>2
  <2>1. Radix * Radix <= a
    BY ONLY <1>1, <1>2, Radix <= q, MulMono
  <2> HIDE DEF a
  <2> QED
    BY ONLY <1>1, <1>2, <2>1
<1>5. q % Radix = q
  BY ONLY <1>1, <1>2, <1>4, DivFacts
<1>6. HiByte(o) * Radix = a
  BY ONLY <1>3, <1>5
<1> HIDE DEF a
<1> QED
  BY ONLY <1>1, <1>2, <1>3, <1>6

(* A blank screen shows no text.                                           *)
LEMMA BlankShows ==
    /\ Text(<< <<>> >>) /\ Pos(<< <<>> >>) = 0
    /\ Shows([i \in 0..(Cells - 1) |-> Blank], << <<>> >>)
<1> DEFINE q == <<>>
           w == Append(q, <<>>)
           m == [i \in 0..(Cells - 1) |-> Blank]
<1>1. << <<>> >> = w
  OBVIOUS
<1>2. q \in Seq(Seq(Chars)) /\ Len(q) = 0
  OBVIOUS
<1>3. \A r \in Int, c \in Int : r >= 1 => ShownCell(q, r, c) = Blank
  BY <1>2 DEF ShownCell
<1>4. Shows(m, q)
  <2> SUFFICES ASSUME NEW r \in 1..Rows, NEW c \in 1..Cols
               PROVE  m[Cell(r, c)] = ShownCell(q, r, c)
    BY DEF Shows
  <2>1. Cell(r, c) \in 0..(Cells - 1)
    BY CellFacts
  <2> QED
    BY <1>3, <2>1
<1> HIDE DEF q, m
<1>5. \A r \in 1..Len(q) : Len(q[r]) <= Cols
  BY <1>2
<1>6. /\ Fits(w) /\ Len(w) = Len(q) + 1 /\ Shows(m, w) /\ Pos(w) = Len(q) * Cols
  BY ONLY <1>2, <1>4, <1>5, NewLine
<1> HIDE DEF w
<1>7. Pos(w) = 0 /\ Len(w) <= Rows
  BY <1>2, <1>6, SizeTypes
<1> QED
  BY <1>1, <1>6, <1>7 DEF Text, m

(* The cursor that set_cursor_offset leaves.                               *)
LEMMA CursorSet ==
    ASSUME NEW ls, Text(ls), hi' = HiByte(Pos(ls)), lo' = LoByte(Pos(ls))
    PROVE  Cursor' = Pos(ls)
<1>1. Pos(ls) \in 0..(Radix * Radix - 1)
  BY PosFacts, SizeTypes
<1>2. HiByte(Pos(ls)) * Radix + LoByte(Pos(ls)) = Pos(ls)
  BY <1>1, BytesOfOffset
<1> QED
  BY <1>2 DEF Cursor

-----------------------------------------------------------------------------
(* The screen shows the text after every step.                             *)

(* The screen is blank at first.                                           *)
LEMMA RenderInvInit == Init => RenderInv
<1> SUFFICES ASSUME Init PROVE RenderInv
  OBVIOUS
<1>1. /\ vidmem = [i \in 0..(Cells - 1) |-> Blank] /\ shown = << <<>> >>
      /\ hi = 0 /\ lo = 0 /\ \A t \in Task : pc[t] = "idle"
  BY DEF Init
<1>2. Text(shown) /\ Shows(vidmem, shown) /\ Pos(shown) = 0
  BY <1>1, BlankShows
<1>3. Cursor = 0
  BY <1>1, SizeTypes DEF Cursor
<1>4. \A t \in Task : InStep(t)
  BY <1>1 DEF InStep
<1> QED
  BY <1>1, <1>2, <1>3, <1>4 DEF RenderInv

(* An access of a task that prints alone keeps the invariant if it does    *)
(* what its place in kprint has to.                                        *)
LEMMA RenderAccess ==
    ASSUME ScreenInv, NEW t \in Task, NEW from \in Pcs, NEW to \in Pcs, Access(t, from, to),
           orderly' =>
              /\ Text(shown') /\ Shows(vidmem', shown')
              /\ to = "idle" => Cursor' = Pos(shown')
              /\ InStep(t)'
    PROVE  RenderInv'
<1> SUFFICES ASSUME orderly' PROVE RenderInv'
  BY DEF RenderInv
<1>1. pc \in [Task -> Pcs]
  BY DEF ScreenInv, PrinterInv
<1>2. pc'[t] = to /\ \A u \in Task \ {t} : pc'[u] = pc[u]
  BY <1>1, AccessFacts
<1>3. \A u \in Task \ {t} : pc'[u] = "idle"
  BY <1>2 DEF Access, AloneIn
<1>4. ASSUME NEW u \in Task PROVE InStep(u)'
  <2>1. CASE u = t
    BY <2>1
  <2>2. CASE u # t
    <3>1. pc'[u] = "idle"
      BY <1>3, <2>2
    <3> QED
      BY <3>1 DEF InStep
  <2> QED
    BY <2>1, <2>2
<1>5. AllIdle' => Cursor' = Pos(shown')
  BY <1>2 DEF AllIdle
<1>6. \A u, v \in Task : pc'[u] # "idle" /\ pc'[v] # "idle" => u = v
  BY <1>3
<1> QED
  BY <1>4, <1>5, <1>6 DEF RenderInv

(* What a task knows that prints alone.                                    *)
LEMMA AloneFacts ==
    ASSUME ScreenInv, RenderInv, NEW t \in Task, NEW from, NEW to, Access(t, from, to), orderly'
    PROVE  /\ Text(shown) /\ Shows(vidmem, shown) /\ InStep(t) /\ pc[t] = from
           /\ from = "idle" => Cursor = Pos(shown)
<1>1. orderly /\ AloneIn(t) /\ pc[t] = from
  BY DEF Access
<1>2. from = "idle" => AllIdle
  BY <1>1 DEF AloneIn, AllIdle
<1> QED
  BY <1>1, <1>2 DEF RenderInv

(* The steps of a task in kprint.                                          *)
LEMMA RenderPrinter ==
    ASSUME ScreenInv, RenderInv, NEW t \in Task,
           \/ \E m \in Messages : KPrint(t, m)
           \/ Select(t) \/ ReadData(t) \/ Put(t) \/ WriteData(t)
    PROVE  RenderInv'
<1>t. /\ vidmem \in Memory /\ index \in {"hi", "lo"}
      /\ off \in [Task -> 0..(Radix * Radix - 1)]
      /\ pc \in [Task -> Pcs] /\ msg \in [Task -> Seq(Chars)]
  BY DEF ScreenInv, TypeOK, PrinterInv, Memory, Chars
<1>k. ASSUME NEW from \in Pcs, NEW to \in Pcs, Access(t, from, to)
      PROVE  pc[t] = from /\ pc'[t] = to
  BY <1>k, <1>t, AccessFacts
<1>1. ASSUME NEW m \in Messages, KPrint(t, m) PROVE RenderInv'
  <2>1. /\ Access(t, "idle", "get14") /\ UNCHANGED <<vidmem, index, hi, lo, off, shown>>
    BY <1>1 DEF KPrint, crtc
  <2>2. "idle" \in Pcs /\ "get14" \in Pcs /\ "get14" # "idle"
    BY DEF Pcs
  <2>3. ASSUME orderly'
        PROVE  Text(shown') /\ Shows(vidmem', shown') /\ InStep(t)'
    <3>1. Text(shown) /\ Shows(vidmem, shown) /\ Cursor = Pos(shown)
      BY <2>1, <2>3, AloneFacts
    <3>2. pc'[t] = "get14" /\ Cursor' = Cursor
      BY <1>k, <2>1, <2>2 DEF Cursor
    <3> QED
      BY <2>1, <3>1, <3>2 DEF InStep
  <2> QED
    BY <2>1, <2>2, <2>3, RenderAccess
<1>2. CASE Select(t)
  <2>1. UNCHANGED <<vidmem, hi, lo, off, shown>>
    BY <1>2 DEF Select
  <2>2. ASSUME NEW from \in Pcs, NEW to \in Pcs, Access(t, from, to),
               \/ from = "get14" /\ to = "gethi" /\ index' = "hi"
               \/ from = "get15" /\ to = "getlo" /\ index' = "lo"
               \/ from = "set14" /\ to = "sethi" /\ index' = "hi"
               \/ from = "set15" /\ to = "setlo" /\ index' = "lo"
        PROVE  RenderInv'
    <3>1. pc'[t] = to /\ Cursor' = Cursor /\ to # "idle"
      BY <1>k, <2>1, <2>2 DEF Cursor
    <3>2. ASSUME orderly'
          PROVE  Text(shown') /\ Shows(vidmem', shown') /\ InStep(t)'
      <4>1. Text(shown) /\ Shows(vidmem, shown) /\ InStep(t) /\ pc[t] = from
        BY <2>2, <3>2, AloneFacts
      <4> QED
        BY <2>1, <2>2, <3>1, <4>1 DEF InStep
    <3> QED
      BY <2>2, <3>1, <3>2, RenderAccess
  <2>3. {"get14", "get15", "set14", "set15", "gethi", "getlo", "sethi", "setlo"} \subseteq Pcs
    BY DEF Pcs
  <2> QED
    BY <1>2, <2>2, <2>3 DEF Select
<1>3. CASE ReadData(t)
  <2>1. UNCHANGED <<vidmem, index, hi, lo, shown>>
    BY <1>3 DEF ReadData, crtc
  <2>2. CASE Access(t, "gethi", "get15") /\ off' = [off EXCEPT ![t] = Data * Radix]
    <3>1. "gethi" \in Pcs /\ "get15" \in Pcs /\ "get15" # "idle"
      BY DEF Pcs
    <3>2. pc'[t] = "get15" /\ off'[t] = Data * Radix /\ Cursor' = Cursor
      BY <1>k, <1>t, <2>1, <2>2, <3>1 DEF Cursor
    <3>3. ASSUME orderly'
          PROVE  Text(shown') /\ Shows(vidmem', shown') /\ InStep(t)'
      <4>1. Text(shown) /\ Shows(vidmem, shown) /\ InStep(t) /\ pc[t] = "gethi"
        BY <2>2, <3>3, AloneFacts
      <4>2. index = "hi" /\ Data = hi /\ Cursor = Pos(shown)
        BY <4>1 DEF InStep, Data
      <4> QED
        BY <2>1, <3>2, <4>1, <4>2 DEF InStep
    <3> QED
      BY <2>2, <3>1, <3>3, RenderAccess
  <2>3. CASE Access(t, "getlo", "put") /\ off' = [off EXCEPT ![t] = @ + Data]
    <3>1. "getlo" \in Pcs /\ "put" \in Pcs /\ "put" # "idle"
      BY DEF Pcs
    <3>2. pc'[t] = "put" /\ off'[t] = off[t] + Data
      BY <1>k, <1>t, <2>3, <3>1
    <3>3. ASSUME orderly'
          PROVE  Text(shown') /\ Shows(vidmem', shown') /\ InStep(t)'
      <4>1. Text(shown) /\ Shows(vidmem, shown) /\ InStep(t) /\ pc[t] = "getlo"
        BY <2>3, <3>3, AloneFacts
      <4>2. index = "lo" /\ Cursor = Pos(shown) /\ off[t] = hi * Radix
        BY <4>1 DEF InStep
      <4>3. Data = lo
        BY <4>2 DEF Data
      <4>4. off'[t] = Pos(shown')
        BY <2>1, <3>2, <4>2, <4>3 DEF Cursor
      <4> QED
        BY <2>1, <3>2, <4>1, <4>4 DEF InStep
    <3> QED
      BY <2>3, <3>1, <3>3, RenderAccess
  <2> QED
    BY <1>3, <2>2, <2>3 DEF ReadData
<1>4. CASE Put(t)
  <2> DEFINE c == Head(msg[t])
             p == PrintChar(vidmem, c, off[t])
  <2>1. /\ pc[t] = "put" /\ vidmem' = p.mem
        /\ off' = [off EXCEPT ![t] = IF pc'[t] = "idle" THEN 0 ELSE p.at]
        /\ shown' = IF orderly' THEN Typed(shown, c) ELSE << <<>> >>
    BY <1>4 DEF Put
  <2>a. IF p.cursor THEN Access(t, "put", "set14")
        ELSE Access(t, "put", IF Len(msg[t]) = 1 THEN "idle" ELSE "put")
    BY <1>4 DEF Put
  <2>2. c \in Chars
    <3>1. msg[t] \in Seq(Chars) /\ msg[t] # <<>>
      BY <1>t, <2>1 DEF ScreenInv, PrinterInv
    <3> QED
      BY ONLY <3>1
  <2>3. {"put", "set14", "idle"} \subseteq Pcs /\ "set14" # "idle"
    BY DEF Pcs
  <2>4. PICK to \in {"set14", "idle", "put"} :
           Access(t, "put", to) /\ (p.cursor => to = "set14")
    <3> HIDE DEF p
    <3> QED
      BY <2>a
  <2>5. ASSUME orderly'
        PROVE  /\ Text(shown') /\ Shows(vidmem', shown') /\ InStep(t)' /\ to # "idle"
    <3>1. Text(shown) /\ Shows(vidmem, shown) /\ InStep(t)
      BY <2>4, <2>5, AloneFacts
    <3>2. off[t] = Pos(shown)
      BY <2>1, <3>1 DEF InStep
    <3> HIDE DEF c
    <3>3. /\ p.cursor /\ Text(Typed(shown, c)) /\ Shows(p.mem, Typed(shown, c))
          /\ p.at = Pos(Typed(shown, c))
      BY <1>t, <2>2, <3>1, <3>2, PrintShows
    <3> HIDE DEF p
    <3>4. to = "set14"
      BY <2>4, <3>3
    <3>5. pc'[t] = "set14" /\ shown' = Typed(shown, c)
      BY <1>k, <2>1, <2>3, <2>4, <2>5, <3>4
    <3>6. off'[t] = Pos(shown')
      BY <1>t, <2>1, <3>3, <3>5
    <3>7. InStep(t)'
      BY <3>5, <3>6 DEF InStep
    <3> QED
      BY <2>1, <2>3, <3>3, <3>4, <3>5, <3>7
  <2> HIDE DEF p, c
  <2> QED
    BY <2>3, <2>4, <2>5, RenderAccess
<1>5. CASE WriteData(t)
  <2>1. UNCHANGED <<vidmem, index, shown>>
        /\ off' = [off EXCEPT ![t] = IF pc'[t] = "idle" THEN 0 ELSE @]
    BY <1>5 DEF WriteData
  <2>o. off'[t] = IF pc'[t] = "idle" THEN 0 ELSE off[t]
    BY <1>t, <2>1
  <2>2. CASE /\ Access(t, "sethi", "set15")
             /\ hi' = IF index = "hi" THEN HiByte(off[t]) ELSE hi
    <3>1. "sethi" \in Pcs /\ "set15" \in Pcs /\ "set15" # "idle"
      BY DEF Pcs
    <3>2. pc'[t] = "set15" /\ off'[t] = off[t]
      BY <1>k, <2>2, <2>o, <3>1
    <3>3. ASSUME orderly'
          PROVE  Text(shown') /\ Shows(vidmem', shown') /\ InStep(t)'
      <4>1. Text(shown) /\ Shows(vidmem, shown) /\ InStep(t) /\ pc[t] = "sethi"
        BY <2>2, <3>3, AloneFacts
      <4>2. off[t] = Pos(shown) /\ index = "hi"
        BY <4>1 DEF InStep
      <4>3. hi' = HiByte(Pos(shown')) /\ off'[t] = Pos(shown')
        BY <2>1, <2>2, <3>2, <4>2
      <4> QED
        BY <2>1, <3>2, <4>1, <4>3 DEF InStep
    <3> QED
      BY <2>2, <3>1, <3>3, RenderAccess
  <2>3. CASE /\ Access(t, "setlo", IF msg[t] = <<>> THEN "idle" ELSE "put")
             /\ hi' = IF index = "hi" THEN LoByte(off[t]) ELSE hi
             /\ lo' = IF index = "lo" THEN LoByte(off[t]) ELSE lo
    <3> DEFINE to == IF msg[t] = <<>> THEN "idle" ELSE "put"
    <3>1. "setlo" \in Pcs /\ to \in {"idle", "put"} /\ to \in Pcs
      BY DEF Pcs
    <3>2. Access(t, "setlo", to)
      BY <2>3
    <3> HIDE DEF to
    <3>3. pc'[t] = to
      BY <1>k, <3>1, <3>2
    <3>4. ASSUME orderly'
          PROVE  /\ Text(shown') /\ Shows(vidmem', shown') /\ InStep(t)'
                 /\ Cursor' = Pos(shown')
      <4>1. Text(shown) /\ Shows(vidmem, shown) /\ InStep(t) /\ pc[t] = "setlo"
        BY <3>2, <3>4, AloneFacts
      <4>2. off[t] = Pos(shown) /\ index = "lo" /\ hi = HiByte(Pos(shown))
        BY <4>1 DEF InStep
      <4>3. hi' = HiByte(Pos(shown)) /\ lo' = LoByte(Pos(shown))
        BY <2>3, <4>2
      <4>4. Cursor' = Pos(shown')
        BY <2>1, <4>1, <4>3, CursorSet
      <4>5. pc'[t] = "put" => off'[t] = Pos(shown')
        BY <2>1, <2>o, <4>2
      <4> QED
        BY <2>1, <3>1, <3>3, <4>1, <4>4, <4>5 DEF InStep
    <3> QED
      BY <3>1, <3>2, <3>4, RenderAccess
  <2> QED
    BY <1>5, <2>2, <2>3 DEF WriteData
<1> QED
  BY <1>1, <1>2, <1>3, <1>4, <1>5

(* A step of the keyboard handler that nobody's print is cut by.           *)
LEMMA RenderIdle ==
    ASSUME UNCHANGED local,
           orderly' => /\ AllIdle /\ Text(shown') /\ Shows(vidmem', shown')
                       /\ Cursor' = Pos(shown')
    PROVE  RenderInv'
<1> SUFFICES ASSUME orderly' PROVE RenderInv'
  BY DEF RenderInv
<1>1. \A t \in Task : pc'[t] = "idle"
  BY DEF local, AllIdle
<1>2. \A t \in Task : InStep(t)'
  BY <1>1 DEF InStep
<1> QED
  BY <1>1, <1>2 DEF RenderInv

(* The steps of the keyboard handler.                                      *)
LEMMA RenderHandler ==
    ASSUME ScreenInv, RenderInv,
           \/ \E c \in Letters : Echo(c)
           \/ \E c \in Letters, p \in Places : PrintAt(c, p[1], p[2])
           \/ Backspace
           \/ ClearScreen
    PROVE  RenderInv'
<1>t. vidmem \in Memory
  BY DEF ScreenInv, TypeOK, Memory, Chars
<1>u. ASSUME Undisturbed
      PROVE  AllIdle /\ Text(shown) /\ Shows(vidmem, shown) /\ Cursor = Pos(shown)
  BY <1>u DEF Undisturbed, AllIdle, RenderInv
<1>1. ASSUME NEW c \in Letters, Echo(c) PROVE RenderInv'
  <2> DEFINE p == PrintChar(vidmem, c, Cursor)
  <2>1. /\ UNCHANGED local /\ vidmem' = p.mem
        /\ p.cursor => SetCursor(p.at)
        /\ orderly' = Undisturbed
        /\ shown' = IF orderly' THEN Typed(shown, c) ELSE << <<>> >>
    BY <1>1 DEF Echo, Interrupts
  <2>2. c \in Chars
    BY DEF Chars
  <2>3. ASSUME orderly'
        PROVE  /\ AllIdle /\ Text(shown') /\ Shows(vidmem', shown')
               /\ Cursor' = Pos(shown')
    <3>1. AllIdle /\ Text(shown) /\ Shows(vidmem, shown) /\ Cursor = Pos(shown)
      BY <1>u, <2>1, <2>3
    <3>2. /\ p.cursor /\ Text(Typed(shown, c)) /\ Shows(p.mem, Typed(shown, c))
          /\ p.at = Pos(Typed(shown, c))
      BY <1>t, <2>2, <3>1, PrintShows
    <3> HIDE DEF p
    <3>3. shown' = Typed(shown, c) /\ SetCursor(p.at)
      BY <2>1, <2>3, <3>2
    <3>4. Cursor' = Pos(shown')
      BY <3>2, <3>3, CursorSet DEF SetCursor
    <3> QED
      BY <2>1, <3>1, <3>2, <3>3, <3>4
  <2> HIDE DEF p
  <2> QED
    BY <2>1, <2>3, RenderIdle
<1>2. ASSUME NEW c \in Letters, NEW q \in Places, PrintAt(c, q[1], q[2]) PROVE RenderInv'
  <2>1. orderly' = FALSE
    BY <1>2 DEF PrintAt
  <2> QED
    BY <2>1 DEF RenderInv
<1>3. CASE Backspace
  <2> DEFINE o == Cursor - 1
             p == PrintChar(vidmem, Blank, IF o < 0 THEN Cursor ELSE o)
             back == \/ get_offset_col(o) > 1
                     \/ OutOfRange(o)
                     \/ p.mem[get_offset_row(o) * Cols] # ">"
  <2>1. /\ UNCHANGED local /\ vidmem' = p.mem
        /\ back => SetCursor(o)
        /\ ~back /\ p.cursor => SetCursor(p.at)
        /\ shown' = IF orderly' THEN Erased(shown) ELSE << <<>> >>
    BY <1>3 DEF Backspace, Interrupts
  <2>2. orderly' = (Undisturbed /\ Last(shown) # <<>>)
    BY <1>3 DEF Backspace
  <2>3. ASSUME orderly'
        PROVE  /\ AllIdle /\ Text(shown') /\ Shows(vidmem', shown')
               /\ Cursor' = Pos(shown')
    <3>1. /\ AllIdle /\ Text(shown) /\ Shows(vidmem, shown) /\ Cursor = Pos(shown)
          /\ Last(shown) # <<>>
      BY <1>u, <2>2, <2>3
    <3> DEFINE q == PrintChar(vidmem, Blank, o)
    <3>2. /\ o \in Nat /\ q.cursor
          /\ Text(Erased(shown)) /\ Shows(q.mem, Erased(shown))
          /\ Pos(Erased(shown)) = IF GoesBack(vidmem, o) THEN o ELSE q.at
      BY <1>t, <3>1, EraseShows
    <3>3. p = q
      BY <3>2
    <3>4. back <=> GoesBack(vidmem, o)
      BY <3>3 DEF GoesBack
    <3> HIDE DEF p, q, back, o
    <3>5. shown' = Erased(shown) /\ SetCursor(Pos(shown'))
      BY <2>1, <2>3, <3>2, <3>3, <3>4
    <3>6. Cursor' = Pos(shown')
      BY <3>2, <3>5, CursorSet DEF SetCursor
    <3> QED
      BY <2>1, <3>1, <3>2, <3>3, <3>5, <3>6
  <2> HIDE DEF p, back, o
  <2> QED
    BY <2>1, <2>3, RenderIdle
<1>4. CASE ClearScreen
  <2>1. /\ UNCHANGED local /\ vidmem' = [i \in 0..(Cells - 1) |-> Blank]
        /\ SetCursor(0) /\ shown' = << <<>> >>
        /\ orderly' = (\A t \in Task : pc[t] = "idle")
    BY <1>4 DEF ClearScreen, Interrupts
  <2>2. orderly' => AllIdle
    BY <2>1 DEF AllIdle
  <2>3. Text(shown') /\ Shows(vidmem', shown') /\ Pos(shown') = 0
    BY <2>1, BlankShows
  <2>4. Cursor' = Pos(shown')
    BY <2>1, <2>3, CursorSet DEF SetCursor
  <2> QED
    BY <2>1, <2>2, <2>3, <2>4, RenderIdle
<1> QED
  BY <1>1, <1>2, <1>3, <1>4

(***************************************************************************)
(* On a screen of any size, with any messages and any number of tasks:     *)
(* the screen shows the last lines of all that was printed, wrapped at its *)
(* width, with the cursor behind the last character, as long as no print   *)
(* was cut in two and no backspace left its line; clear_screen restores    *)
(* that.                                                                   *)
(***************************************************************************)
THEOREM ScreenShowsText == Spec => []RendersShown
<1>1. Init => RenderInv
  BY RenderInvInit
<1>2. ScreenInv /\ RenderInv /\ [Next]_vars => RenderInv'
  <2> SUFFICES ASSUME ScreenInv, RenderInv, [Next]_vars PROVE RenderInv'
    OBVIOUS
  <2>1. CASE UNCHANGED vars
    BY <2>1 DEF vars, crtc, local, RenderInv, InStep, AllIdle, Cursor
  <2>2. CASE Next
    BY <2>2, RenderPrinter, RenderHandler DEF Next
  <2> QED
    BY <2>1, <2>2
<1>3. RenderInv => RendersShown
  <2> SUFFICES ASSUME RenderInv, Undisturbed
               PROVE  /\ \A r \in 1..Rows, c \in 1..Cols :
                           vidmem[(r - 1) * Cols + c - 1] = ShownCell(shown, r, c)
                      /\ Cursor = (Len(shown) - 1) * Cols + Len(Last(shown))
    BY DEF RendersShown, ShownCell
  <2>1. Shows(vidmem, shown) /\ Cursor = Pos(shown)
    BY DEF RenderInv, Undisturbed, AllIdle
  <2> QED
    BY <2>1 DEF Shows, Cell, Pos
<1> QED
  BY <1>1, <1>2, <1>3, ScreenInvariant, PTL DEF Spec
=============================================================================
