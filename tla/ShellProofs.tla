---------------------------- MODULE ShellProofs -----------------------------
(***************************************************************************)
(* Proofs about Shell: the string in the line buffer is the line the user  *)
(* sees, and a line that spells a call runs that call, whatever earlier    *)
(* lines have left behind its terminator.                                  *)
(***************************************************************************)
EXTENDS Shell, SequenceTheorems, WellFoundedInduction, TLAPS

Buffer == [0..(Cap - 1) -> Char]

-----------------------------------------------------------------------------
(* The C string in a buffer.                                               *)

(* A set of natural numbers has a least element.                           *)
LEMMA LeastFacts ==
    ASSUME NEW S \in SUBSET Nat, S # {}
    PROVE  Min(S) \in S /\ \A y \in S : Min(S) <= y
<1>1. PICK x \in S : \A y \in S : ~(<<y, x>> \in OpToRel(<, Nat))
  BY NatLessThanWellFounded, WFMin
<1>2. \A y \in S : x <= y
  <2> SUFFICES ASSUME NEW y \in S, y < x PROVE FALSE
    OBVIOUS
  <2>1. <<y, x>> \in {ss \in Nat \X Nat : ss[1] < ss[2]}
    OBVIOUS
  <2> QED
    BY <1>1, <2>1 DEF OpToRel
<1> QED
  BY <1>2 DEF Min

(* strlen finds the first terminator.                                      *)
LEMMA StrlenFacts ==
    ASSUME NEW b \in Buffer
    PROVE  /\ Strlen(b) \in 0..Cap
           /\ Strlen(b) < Cap => b[Strlen(b)] = NUL
           /\ \A i \in 0..(Cap - 1) : i < Strlen(b) => b[i] # NUL
<1> DEFINE S == {i \in 0..(Cap - 1) : b[i] = NUL} \cup {Cap}
<1>1. Cap \in Nat
  BY CapAssumption
<1>2. S \in SUBSET Nat /\ S # {} /\ Strlen(b) = Min(S)
  <2>1. DOMAIN b = 0..(Cap - 1)
    BY DEF Buffer
  <2> QED
    BY <1>1, <2>1 DEF Strlen
<1>3. Min(S) \in S /\ \A y \in S : Min(S) <= y
  BY <1>2, LeastFacts
<1>4. Strlen(b) \in S /\ \A y \in S : Strlen(b) <= y
  BY <1>2, <1>3
<1> QED
  BY <1>1, <1>4

(* The first terminator is where strlen says it is.                        *)
LEMMA StrlenIs ==
    ASSUME NEW b \in Buffer, NEW n \in 0..(Cap - 1), b[n] = NUL,
           \A i \in 0..(Cap - 1) : i < n => b[i] # NUL
    PROVE  Strlen(b) = n
<1>1. /\ Strlen(b) \in 0..Cap
      /\ Strlen(b) < Cap => b[Strlen(b)] = NUL
      /\ \A i \in 0..(Cap - 1) : i < Strlen(b) => b[i] # NUL
  BY StrlenFacts
<1> QED
  BY <1>1, CapAssumption

(* The line has the length of the string, and its characters.              *)
LEMMA LineFacts ==
    ASSUME NEW b \in Buffer
    PROVE  /\ Line(b) \in Seq(Char) /\ Len(Line(b)) = Strlen(b)
           /\ \A k \in 1..Strlen(b) : Line(b)[k] = b[k - 1]
<1>1. Strlen(b) \in Nat /\ \A k \in 1..Strlen(b) : k - 1 \in 0..(Cap - 1)
  BY StrlenFacts, CapAssumption
<1>2. \A k \in 1..Strlen(b) : b[k - 1] \in Char
  BY <1>1 DEF Buffer
<1> QED
  BY <1>1, <1>2 DEF Line

(* append puts a character at the end of the line, over whatever an        *)
(* earlier line has left there.                                            *)
LEMMA AppendLine ==
    ASSUME NEW b \in Buffer, NEW c \in Char, c # NUL, Strlen(b) + 1 < Cap
    PROVE  AppendChar(b, c) \in Buffer /\ Line(AppendChar(b, c)) = Append(Line(b), c)
<1> DEFINE n == Strlen(b)
           d == AppendChar(b, c)
<1>1. /\ Cap \in Nat /\ n \in Nat /\ n \in 0..(Cap - 1) /\ n + 1 \in 0..(Cap - 1)
      /\ \A i \in 0..(Cap - 1) : i < n => b[i] # NUL
  BY StrlenFacts, CapAssumption
<1>2. d = [b EXCEPT ![n] = c, ![n + 1] = NUL]
  BY DEF AppendChar
<1> HIDE DEF n, d
<1>3. /\ d \in Buffer /\ d[n] = c /\ d[n + 1] = NUL
      /\ \A i \in 0..(Cap - 1) : i < n => d[i] = b[i]
  <2>1. NUL \in Char
    BY DEF Char
  <2> QED
    BY <1>1, <1>2, <2>1 DEF Buffer
<1>4. Strlen(d) = n + 1
  <2>1. \A i \in 0..(Cap - 1) : i < n + 1 => d[i] # NUL
    BY <1>1, <1>3
  <2> QED
    BY <1>1, <1>3, <2>1, StrlenIs
<1>5. /\ Line(d) \in Seq(Char) /\ Len(Line(d)) = n + 1
      /\ \A k \in 1..(n + 1) : Line(d)[k] = d[k - 1]
  BY <1>3, <1>4, LineFacts
<1> DEFINE l == Line(b)
           a == Append(l, c)
<1>6. /\ l \in Seq(Char) /\ Len(l) = n /\ \A k \in 1..n : l[k] = b[k - 1]
  BY LineFacts DEF n
<1> HIDE DEF l
<1>7. /\ a \in Seq(Char) /\ Len(a) = n + 1 /\ a[n + 1] = c /\ \A k \in 1..n : a[k] = l[k]
  BY <1>1, <1>6
<1> HIDE DEF a
<1>8. ASSUME NEW k \in 1..(n + 1) PROVE Line(d)[k] = a[k]
  <2>1. CASE k = n + 1
    BY <1>1, <1>3, <1>5, <1>7, <2>1
  <2>2. CASE k # n + 1
    <3>1. k \in 1..n /\ k - 1 \in 0..(Cap - 1) /\ k - 1 < n
      BY <1>1, <2>2
    <3> QED
      BY <1>3, <1>5, <1>6, <1>7, <3>1
  <2> QED
    BY <2>1, <2>2
<1>9. Line(d) = a
  BY <1>5, <1>7, <1>8, SeqEqual
<1> QED
  BY <1>3, <1>9 DEF d, a, l

(* backspace takes the last character of the line away.                    *)
LEMMA ShortenLine ==
    ASSUME NEW b \in Buffer, Strlen(b) > 0, NEW d, d = [b EXCEPT ![Strlen(b) - 1] = NUL]
    PROVE  d \in Buffer /\ Line(b) # <<>> /\ Line(d) = Front(Line(b))
<1> DEFINE n == Strlen(b)
           l == Line(b)
           f == SubSeq(l, 1, n - 1)
<1>1. /\ Cap \in Nat /\ n \in Nat /\ n > 0 /\ n <= Cap /\ n - 1 \in 0..(Cap - 1)
      /\ \A i \in 0..(Cap - 1) : i < n => b[i] # NUL
  BY StrlenFacts, CapAssumption
<1>2. d = [b EXCEPT ![n - 1] = NUL]
  OBVIOUS
<1>3. /\ l \in Seq(Char) /\ Len(l) = n /\ \A k \in 1..n : l[k] = b[k - 1]
  BY LineFacts
<1> HIDE DEF n, l
<1>4. /\ d \in Buffer /\ d[n - 1] = NUL
      /\ \A i \in 0..(Cap - 1) : i < n - 1 => d[i] = b[i]
  <2>1. NUL \in Char
    BY DEF Char
  <2> QED
    BY <1>1, <1>2, <2>1 DEF Buffer
<1>5. Strlen(d) = n - 1
  <2>1. \A i \in 0..(Cap - 1) : i < n - 1 => d[i] # NUL
    BY <1>1, <1>4
  <2> QED
    BY <1>1, <1>4, <2>1, StrlenIs
<1>6. /\ Line(d) \in Seq(Char) /\ Len(Line(d)) = n - 1
      /\ \A k \in 1..(n - 1) : Line(d)[k] = d[k - 1]
  BY <1>4, <1>5, LineFacts
<1>7. f \in Seq(Char) /\ Len(f) = n - 1 /\ \A k \in 1..(n - 1) : f[k] = l[k]
  <2> DEFINE j == n - 1
  <2>1. j \in Nat
    BY <1>1
  <2>2. \A k \in 1..j : l[k] \in Char
    BY <1>1, <1>3
  <2> HIDE DEF j
  <2>3. /\ SubSeq(l, 1, j) \in Seq(Char)
        /\ Len(SubSeq(l, 1, j)) = (IF 1 <= j THEN j - 1 + 1 ELSE 0)
        /\ \A k \in 1..(j - 1 + 1) : SubSeq(l, 1, j)[k] = l[1 + k - 1]
    BY ONLY <2>1, <2>2, SubSeqProperties
  <2>4. j - 1 + 1 = j /\ \A k \in 1..j : 1 + k - 1 = k
    BY <2>1
  <2>5. SubSeq(l, 1, j) \in Seq(Char) /\ Len(SubSeq(l, 1, j)) = j
        /\ \A k \in 1..j : SubSeq(l, 1, j)[k] = l[k]
    BY <2>1, <2>3, <2>4
  <2> QED
    BY <2>5 DEF j
<1>8. Front(l) = f /\ l # <<>>
  BY <1>1, <1>3 DEF Front
<1> HIDE DEF f
<1>9. ASSUME NEW k \in 1..(n - 1) PROVE Line(d)[k] = f[k]
  <2>1. k \in 1..n /\ k - 1 \in 0..(Cap - 1) /\ k - 1 < n - 1
    BY <1>1
  <2> QED
    BY <1>3, <1>4, <1>6, <1>7, <2>1
<1>10. Line(d) = f
  BY <1>6, <1>7, <1>9, SeqEqual
<1> QED
  BY <1>4, <1>8, <1>10 DEF l

(* A terminator in the first byte makes the line empty.                    *)
LEMMA ClearedLine ==
    ASSUME NEW b \in Buffer, NEW d, d = [b EXCEPT ![0] = NUL]
    PROVE  d \in Buffer /\ Line(d) = <<>>
<1>1. 0 \in 0..(Cap - 1) /\ NUL \in Char
  BY CapAssumption DEF Char
<1>2. d \in Buffer /\ d[0] = NUL
  BY <1>1 DEF Buffer
<1>3. Strlen(d) = 0
  <2>1. \A i \in 0..(Cap - 1) : i < 0 => d[i] # NUL
    BY CapAssumption
  <2> QED
    BY <1>1, <1>2, <2>1, StrlenIs
<1>4. Line(d) \in Seq(Char) /\ Len(Line(d)) = 0
  BY <1>2, <1>3, LineFacts
<1> QED
  BY <1>2, <1>4

-----------------------------------------------------------------------------
(* The invariant.                                                          *)

ShellInv == TypeOK /\ LineIsTyped

(* The buffer is all zeros at first.                                       *)
LEMMA ShellInvInit == Init => ShellInv
<1> SUFFICES ASSUME Init PROVE ShellInv
  OBVIOUS
<1>1. 0 \in 0..(Cap - 1) /\ NUL \in Char /\ MaxAsleep \in Nat
  BY CapAssumption, ShellAssumption DEF Char
<1>2. buf \in Buffer /\ buf = [buf EXCEPT ![0] = NUL]
  BY <1>1 DEF Init, Buffer
<1>3. Line(buf) = <<>>
  BY <1>2, ClearedLine
<1>4. TypeOK
  <2>1. isShift = FALSE /\ isCaps = FALSE /\ mixed = FALSE
    BY DEF Init
  <2>2. {isShift, isCaps, mixed} \subseteq BOOLEAN
    BY ONLY <2>1
  <2>3. asleep \in 0..MaxAsleep /\ status = "up" /\ typed = <<>>
    BY <1>1 DEF Init
  <2>4. typed \in Seq(Char)
    BY ONLY <2>3
  <2> QED
    BY ONLY <1>2, <2>2, <2>3, <2>4 DEF TypeOK, Buffer
<1> QED
  BY <1>3, <1>4 DEF Init, LineIsTyped, ShellInv

(* Every key is a character and no terminator.                             *)
LEMMA LetterFacts ==
    ASSUME NEW k \in Keys
    PROVE  Letter(k) \in Char /\ Letter(k) # NUL
<1>1. sc_ascii[k] # NUL /\ sc_ascii_shift[k] # NUL
  BY ShellAssumption
<1>2. sc_ascii[k] \in Char /\ sc_ascii_shift[k] \in Char
  BY DEF Char
<1> QED
  BY <1>1, <1>2 DEF Letter

(* Every branch of the handler keeps the invariant.                        *)
LEMMA ShellInvStep == ShellInv /\ [Next]_vars => ShellInv'
<1> SUFFICES ASSUME ShellInv, [Next]_vars PROVE ShellInv'
  OBVIOUS
<1>t. /\ buf \in Buffer /\ typed \in Seq(Char) /\ asleep \in 0..MaxAsleep
      /\ status \in {"up", "stopped", "astray"} /\ MaxAsleep \in Nat
  BY ShellAssumption DEF ShellInv, TypeOK, Buffer
<1>b. isShift \in BOOLEAN /\ isCaps \in BOOLEAN /\ mixed \in BOOLEAN
  BY DEF ShellInv, TypeOK
<1>l. status = "up" /\ ~mixed => Line(buf) = typed
  BY DEF ShellInv, LineIsTyped
<1>s. ASSUME /\ buf' \in Buffer /\ typed' \in Seq(Char) /\ asleep' \in 0..MaxAsleep
             /\ status' \in {"up", "stopped", "astray"},
             isShift' \in BOOLEAN /\ isCaps' \in BOOLEAN /\ mixed' \in BOOLEAN,
             status' = "up" /\ ~mixed' => Line(buf') = typed'
      PROVE  ShellInv'
  BY <1>s DEF ShellInv, TypeOK, LineIsTyped, Buffer
<1>0. CASE UNCHANGED vars
  BY <1>0, <1>t, <1>b, <1>l, <1>s DEF vars
<1>1. ASSUME NEW down \in BOOLEAN, LeftShift(down) PROVE ShellInv'
  BY <1>1, <1>t, <1>b, <1>l, <1>s DEF LeftShift
<1>2. CASE CapsLock
  <2>1. isCaps' \in BOOLEAN
    BY <1>2, Zenon DEF CapsLock
  <2> QED
    BY <1>2, <1>t, <1>b, <1>l, <1>s, <2>1 DEF CapsLock
<1>3. ASSUME NEW k \in Keys, PressKey(k) PROVE ShellInv'
  <2> DEFINE c == Letter(k)
  <2>1. c \in Char /\ c # NUL
    BY LetterFacts
  <2>2. status = "up" /\ UNCHANGED <<isShift, isCaps, asleep, mixed>>
    BY <1>3 DEF PressKey
  <2> HIDE DEF c
  <2>3. CASE /\ Strlen(buf) + 1 < Cap /\ buf' = AppendChar(buf, c)
             /\ typed' = IF mixed THEN <<c>> ELSE Append(typed, c)
             /\ UNCHANGED status
    <3>1. buf' \in Buffer /\ Line(buf') = Append(Line(buf), c)
      BY <1>t, <2>1, <2>3, AppendLine
    <3>2. <<c>> \in Seq(Char) /\ Append(typed, c) \in Seq(Char)
      BY <1>t, <2>1
    <3>3. typed' \in Seq(Char)
      BY <2>3, <3>2
    <3>4. ~mixed' => Line(buf') = typed'
      BY <1>l, <2>2, <2>3, <3>1
    <3> QED
      BY <1>t, <1>b, <1>s, <2>2, <2>3, <3>1, <3>3, <3>4
  <2>4. CASE status' = "astray" /\ UNCHANGED <<buf, typed>>
    BY <1>t, <1>b, <1>s, <2>2, <2>4
  <2> QED
    BY <1>3, <2>3, <2>4 DEF PressKey, c
<1>4. CASE Backspace
  <2>1. /\ status = "up" /\ UNCHANGED <<asleep, status, mixed>>
        /\ typed' = IF typed = <<>> \/ mixed THEN typed ELSE Front(typed)
    BY <1>4 DEF Backspace
  <2>2. typed' \in Seq(Char)
    <3>1. ASSUME typed # <<>> PROVE Front(typed) \in Seq(Char)
      BY <1>t, <3>1 DEF Front
    <3> QED
      BY <1>t, <2>1, <3>1
  <2>3. CASE /\ Strlen(buf) > 0 /\ buf' = [buf EXCEPT ![Strlen(buf) - 1] = NUL]
             /\ UNCHANGED <<isShift, isCaps>>
    <3>1. buf' \in Buffer /\ Line(buf) # <<>> /\ Line(buf') = Front(Line(buf))
      BY <1>t, <2>3, ShortenLine
    <3>2. ~mixed' => Line(buf') = typed'
      BY <1>l, <2>1, <3>1
    <3> QED
      BY <1>t, <1>b, <1>s, <2>1, <2>2, <2>3, <3>1, <3>2
  <2>4. CASE /\ Strlen(buf) = 0 /\ UNCHANGED buf
             /\ \/ UNCHANGED <<isShift, isCaps>>
                \/ isShift' = FALSE /\ UNCHANGED isCaps
                \/ isCaps' = FALSE /\ UNCHANGED isShift
    <3>1. isShift' \in BOOLEAN /\ isCaps' \in BOOLEAN
      BY <1>b, <2>4
    <3>2. Line(buf) = <<>>
      BY <1>t, <2>4, LineFacts
    <3>3. ~mixed' => Line(buf') = typed'
      BY <1>l, <2>1, <2>4, <3>2
    <3> QED
      BY <1>t, <1>b, <1>s, <2>1, <2>2, <2>4, <3>1, <3>3
  <2> QED
    BY <1>4, <2>3, <2>4 DEF Backspace
<1>c. ASSUME ClearLine PROVE buf' \in Buffer /\ Line(buf') = <<>>
  BY <1>c, <1>t, ClearedLine DEF ClearLine
<1>e. <<>> \in Seq(Char)
  OBVIOUS
<1>5. CASE EnterBuiltin
  <2>1. status = "up" /\ typed' = <<>> /\ UNCHANGED <<isShift, isCaps, asleep>>
    BY <1>5 DEF EnterBuiltin, Entered
  <2>2. CASE status' = "stopped" /\ UNCHANGED <<buf, mixed>>
    BY <1>t, <1>b, <1>e, <1>s, <2>1, <2>2
  <2>3. CASE ClearLine /\ mixed' = FALSE /\ UNCHANGED status
    BY <1>t, <1>b, <1>c, <1>e, <1>s, <2>1, <2>3
  <2> QED
    BY <1>5, <2>2, <2>3 DEF EnterBuiltin
<1>6. CASE EnterCommand
  <2>1. status = "up" /\ typed' = <<>> /\ UNCHANGED <<isShift, isCaps>>
    BY <1>6 DEF EnterCommand, Entered
  <2>2. CASE status' = "astray" /\ UNCHANGED <<buf, asleep, mixed>>
    BY <1>t, <1>b, <1>e, <1>s, <2>1, <2>2
  <2>3. CASE ClearLine /\ mixed' = FALSE /\ UNCHANGED <<asleep, status>>
    BY <1>t, <1>b, <1>c, <1>e, <1>s, <2>1, <2>3
  <2>4. CASE /\ asleep < MaxAsleep /\ asleep' = asleep + 1 /\ mixed' = TRUE
             /\ UNCHANGED <<buf, status>>
    BY <1>t, <1>b, <1>e, <1>s, <2>1, <2>4
  <2>5. CASE /\ asleep + 2 <= MaxAsleep /\ asleep' = asleep + 2 /\ mixed' = TRUE
             /\ UNCHANGED <<buf, status>>
    BY <1>t, <1>b, <1>e, <1>s, <2>1, <2>5
  <2> QED
    BY <1>6, <2>2, <2>3, <2>4, <2>5 DEF EnterCommand
<1>7. CASE Wake
  <2>1. /\ asleep > 0 /\ asleep' = asleep - 1 /\ ClearLine
        /\ UNCHANGED <<isShift, isCaps, status, typed>>
    BY <1>7 DEF Wake
  <2>2. mixed' = (typed # <<>>)
    BY <1>7 DEF Wake
  <2>3. mixed' \in BOOLEAN
    BY <2>2, Zenon
  <2>4. ~mixed' => Line(buf') = typed'
    BY <1>c, <2>1, <2>2
  <2>5. asleep' \in 0..MaxAsleep
    BY <1>t, <2>1
  <2> QED
    BY <1>t, <1>b, <1>c, <1>s, <2>1, <2>3, <2>4, <2>5
<1> QED
  BY <1>0, <1>1, <1>2, <1>3, <1>4, <1>5, <1>6, <1>7 DEF Next

(* The invariant holds throughout.                                         *)
LEMMA ShellInvariant == Spec => []ShellInv
<1> QED
  BY ShellInvInit, ShellInvStep, PTL DEF Spec

-----------------------------------------------------------------------------
(* The parser on a line.                                                   *)

(* The element of a set that is below all of them is its least one.        *)
LEMMA LeastIs ==
    ASSUME NEW S \in SUBSET Nat, NEW m \in S, \A y \in S : m <= y
    PROVE  Min(S) = m
<1>1. Min(S) \in S /\ \A y \in S : Min(S) <= y
  BY LeastFacts
<1>2. Min(S) \in Nat /\ m \in Nat /\ Min(S) <= m /\ m <= Min(S)
  BY <1>1
<1> QED
  BY ONLY <1>2

(* The buffer in has the characters of w from position p on.               *)
Holds(in, p, w) == \A i \in 1..Len(w) : in[p + i - 1] = w[i]

(* The characters of a call.                                               *)
Glyph == Char \cup {"(", ",", ")"}

(* One word after the other.                                               *)
LEMMA HoldsConcat ==
    ASSUME NEW in, NEW p \in Nat, NEW a \in Seq(Glyph), NEW b \in Seq(Glyph),
           Holds(in, p, a \o b)
    PROVE  /\ Holds(in, p, a) /\ Holds(in, p + Len(a), b)
           /\ a \o b \in Seq(Glyph) /\ Len(a \o b) = Len(a) + Len(b)
<1> DEFINE c == a \o b
<1>1. Len(a) \in Nat /\ Len(b) \in Nat
  OBVIOUS
<1>2. /\ c \in Seq(Glyph) /\ Len(c) = Len(a) + Len(b)
      /\ \A i \in 1..(Len(a) + Len(b)) :
            c[i] = IF i <= Len(a) THEN a[i] ELSE b[i - Len(a)]
  BY ConcatProperties
<1>3. \A i \in 1..(Len(a) + Len(b)) : in[p + i - 1] = c[i]
  BY <1>2 DEF Holds
<1> HIDE DEF c
<1>4. ASSUME NEW i \in 1..Len(a) PROVE in[p + i - 1] = a[i]
  <2>1. i \in 1..(Len(a) + Len(b)) /\ i <= Len(a)
    BY ONLY <1>1, i \in 1..Len(a)
  <2> QED
    BY <1>2, <1>3, <2>1
<1>5. ASSUME NEW i \in 1..Len(b) PROVE in[(p + Len(a)) + i - 1] = b[i]
  <2>1. PICK j : j = Len(a) + i
    OBVIOUS
  <2>2. /\ j \in 1..(Len(a) + Len(b)) /\ ~(j <= Len(a)) /\ j - Len(a) = i
        /\ p + j - 1 = (p + Len(a)) + i - 1
    BY ONLY <1>1, <2>1, i \in 1..Len(b), p \in Nat
  <2> QED
    BY <1>2, <1>3, <2>2
<1> QED
  BY <1>2, <1>4, <1>5 DEF Holds, c

(* A single character.                                                     *)
LEMMA HoldsOne ==
    ASSUME NEW in, NEW p \in Nat, NEW c, Holds(in, p, <<c>>)
    PROVE  in[p] = c
<1>1. Len(<<c>>) = 1 /\ <<c>>[1] = c /\ 1 \in 1..1 /\ p + 1 - 1 = p
  OBVIOUS
<1> QED
  BY <1>1 DEF Holds

(* The spaces in front of a word.                                          *)
LEMMA TrimFacts ==
    ASSUME NEW w \in Seq(Char)
    PROVE  \E n \in 0..Len(w) :
              /\ \A i \in 1..n : w[i] = " "
              /\ n < Len(w) => w[n + 1] # " "
              /\ Trimmed(w) = [k \in 1..(Len(w) - n) |-> w[n + k]]
<1> DEFINE S == {i \in 0..Len(w) : i < Len(w) => w[i + 1] # " "}
<1>0. PICK l \in Nat : l = Len(w)
  OBVIOUS
<1>r. l \in 0..l /\ ~(l < l)
  BY ONLY l \in Nat
<1>a. \A i \in 0..l : i \in Nat
  BY ONLY l \in Nat
<1>1. Len(w) \in S /\ S \in SUBSET Nat
  <2>1. Len(w) \in S
    BY ONLY <1>0, <1>r
  <2> QED
    BY ONLY <1>0, <1>a, <2>1
<1>2. PICK n : n = Min(S)
  OBVIOUS
<1>3. n \in S /\ \A y \in S : n <= y
  BY <1>1, <1>2, LeastFacts
<1>4. Trimmed(w) = [k \in 1..(Len(w) - n) |-> w[n + k]]
  BY <1>2 DEF Trimmed
<1>5. n \in 0..Len(w) /\ (n < Len(w) => w[n + 1] # " ")
  BY <1>3
<1>6. ASSUME NEW i \in 1..n PROVE w[i] = " "
  <2>0. n \in 0..l
    BY <1>0, <1>5
  <2>1. /\ i - 1 \in 0..l /\ i - 1 < l /\ ~(n <= i - 1) /\ (i - 1) + 1 = i
    BY ONLY <2>0, l \in Nat, i \in 1..n
  <2>2. i - 1 \notin S
    BY <1>3, <2>1
  <2> QED
    BY <1>0, <2>1, <2>2
<1> HIDE DEF S
<1> QED
  BY <1>4, <1>5, <1>6

(* What a scan of the buffer finds first.                                  *)
LEMMA FirstIs ==
    ASSUME NEW lo \in Nat, NEW S \in SUBSET (lo..(Cap - 1) \cup {Cap}),
           NEW m \in lo..(Cap - 1), m \in S, \A k \in lo..(m - 1) : k \notin S
    PROVE  Min(S) = m
<1>0. Cap \in Nat
  BY CapAssumption
<1>1. S \in SUBSET Nat
  <2>1. \A k \in lo..(Cap - 1) : k \in Nat
    BY ONLY <1>0, lo \in Nat
  <2> QED
    BY <1>0, <2>1
<1>2. ASSUME NEW y \in S PROVE m <= y
  <2>1. y \in lo..(Cap - 1) \/ y = Cap
    OBVIOUS
  <2>2. y \notin lo..(m - 1)
    OBVIOUS
  <2> QED
    BY ONLY <1>0, <2>1, <2>2, lo \in Nat, m \in lo..(Cap - 1)
<1> QED
  BY <1>1, <1>2, LeastIs

(* The line in the buffer has n characters.                                *)
Ends(in, n) ==
    /\ in \in Buffer /\ n \in 0..(Cap - 1) /\ in[n] = NUL
    /\ \A i \in 0..(n - 1) : in[i] \notin {NUL, Stray}

(* From position p to q it has the word w and the character c.             *)
WordAt(in, p, w, c, q) ==
    /\ p \in Nat /\ q \in Nat /\ w \in Seq(Char)
    /\ Holds(in, p, w) /\ q = p + Len(w) + 1 /\ in[p + Len(w)] = c

(* A stage reads the word w up to the character c.                         *)
Reads(stage, w, c) ==
    /\ c \in stage.stops /\ " " \notin stage.stops
    /\ \A i \in 1..Len(w) : w[i] \notin stage.stops

(* The parser has read the words ws and is at position p.                  *)
Reading(f, ws, p) == f = [words |-> ws, at |-> p, more |-> TRUE]

(* A stage of the parser that is not at the end of the line reads a word   *)
(* up to the first stop, and nothing behind it.                            *)
LEMMA StageReads ==
    ASSUME NEW in, NEW n, Ends(in, n), NEW p, NEW q, NEW w, NEW c,
           WordAt(in, p, w, c, q), q <= n, NEW f, NEW ws, Reading(f, ws, p),
           NEW stage, Reads(stage, w, c), NEW m \in BOOLEAN,
           m <=> in[q] \notin stage.ends
    PROVE  /\ Stage(in, f, stage)
                 = [words |-> Append(ws, Trimmed(w)), at |-> q, more |-> m]
           /\ Byte(in, q) = in[q]
<1>w. /\ p \in Nat /\ q \in Nat /\ w \in Seq(Char)
      /\ Holds(in, p, w) /\ q = p + Len(w) + 1 /\ in[p + Len(w)] = c
  BY DEF WordAt
<1>e. /\ in \in Buffer /\ n \in 0..(Cap - 1) /\ Cap \in Nat
      /\ \A i \in 0..(n - 1) : in[i] \notin {NUL, Stray}
  BY CapAssumption DEF Ends
<1>r. /\ in[p + Len(w)] \in stage.stops /\ " " \notin stage.stops
      /\ \A i \in 1..Len(w) : w[i] \notin stage.stops
  BY <1>w DEF Reads
<1>b. p + Len(w) < Cap /\ p \in 0..(n - 1) /\ q < Cap
  <2>1. Len(w) \in Nat
    BY ONLY <1>w
  <2> QED
    BY ONLY <1>w, <1>e, <2>1, q <= n
<1>i. in[p] \notin {NUL, Stray} /\ Byte(in, q) = in[q] /\ Byte(in, p) = in[p]
  <2>1. p < Cap
    BY ONLY <1>b, <1>e
  <2> QED
    BY ONLY <1>e, <1>b, <2>1 DEF Byte
<1>p. p \in Nat
  BY ONLY <1>w
<1>l. Len(w) \in Nat
  BY ONLY <1>w
<1>0. PICK l \in Nat : l = Len(w)
  BY ONLY <1>l
<1>1. PICK t \in 0..l :
              /\ \A i \in 1..t : w[i] = " "
              /\ t < l => w[t + 1] # " "
              /\ Trimmed(w) = [k \in 1..(l - t) |-> w[t + k]]
  BY <1>w, <1>0, TrimFacts
<1>2. PICK a, b : a = p + t /\ b = p + l
  OBVIOUS
<1>c. Cap \in Nat /\ p + l < Cap
  BY ONLY <1>0, <1>e, <1>b
<1>3. /\ b \in a..(Cap - 1) /\ a \in Nat /\ b \in Nat /\ a \in p..(Cap - 1)
      /\ b - a = l - t /\ p < Cap
  BY ONLY <1>c, <1>2, l \in Nat, t \in 0..l, <1>p
<1>4. \A i \in 1..l : in[p + i - 1] = w[i] /\ w[i] \notin stage.stops
  BY <1>0, <1>w, <1>r DEF Holds
<1>s. in[b] \in stage.stops
  BY <1>0, <1>2, <1>r
<1>5. ASSUME NEW k \in p..(b - 1)
      PROVE  k - p + 1 \in 1..l /\ in[k] = w[k - p + 1]
  <2>1. k - p + 1 \in 1..l /\ p + (k - p + 1) - 1 = k
    BY ONLY <1>2, k \in p..(b - 1), <1>p, l \in Nat
  <2> QED
    BY <1>4, <2>1
<1>6. Seek(in, p, LAMBDA x : x # " ") = a
  <2> DEFINE S == {k \in p..(Cap - 1) : in[k] # " "} \cup {Cap}
  <2>2. in[a] # " "
    <3>1. CASE t < l
      <4>1. a \in p..(b - 1) /\ a - p + 1 = t + 1
        BY ONLY <1>2, <3>1, l \in Nat, t \in 0..l, <1>p
      <4>2. in[a] = w[t + 1]
        BY <1>5, <4>1
      <4> QED
        BY <1>1, <3>1, <4>2
    <3>2. CASE ~(t < l)
      <4>1. a = b
        BY ONLY <1>2, <3>2, l \in Nat, t \in 0..l, <1>p
      <4> QED
        BY <1>s, <1>r, <4>1
    <3> QED
      BY <3>1, <3>2
  <2>3. ASSUME NEW k \in p..(a - 1) PROVE k \notin S
    <3>1. k \in p..(b - 1) /\ k - p + 1 \in 1..t /\ k # Cap
      BY ONLY <1>2, <1>c, l \in Nat, t \in 0..l, <1>p, k \in p..(a - 1)
    <3>2. in[k] = " "
      BY <1>1, <1>5, <3>1
    <3> QED
      BY <3>1, <3>2
  <2>1. S \in SUBSET (p..(Cap - 1) \cup {Cap}) /\ a \in S
    BY <1>3, <2>2
  <2> HIDE DEF S
  <2>4. Min(S) = a
    BY ONLY <1>p, <1>3, <2>1, <2>3, FirstIs
  <2> QED
    BY <2>4 DEF Seek, S
<1>7. Seek(in, a, LAMBDA x : x \in stage.stops) = b
  <2> DEFINE S == {k \in a..(Cap - 1) : in[k] \in stage.stops} \cup {Cap}
  <2>3. ASSUME NEW k \in a..(b - 1) PROVE k \notin S
    <3>1. k \in p..(b - 1) /\ k # Cap
      BY ONLY <1>2, <1>c, l \in Nat, t \in 0..l, <1>p, k \in a..(b - 1)
    <3>2. in[k] \notin stage.stops
      BY <1>4, <1>5, <3>1
    <3> QED
      BY <3>1, <3>2
  <2>1. S \in SUBSET (a..(Cap - 1) \cup {Cap}) /\ b \in S
    BY <1>3, <1>s
  <2> HIDE DEF S
  <2>4. Min(S) = b
    BY ONLY <1>3, <2>1, <2>3, FirstIs
  <2> QED
    BY <2>4 DEF Seek, S
<1>8. [k \in 1..(b - a) |-> in[a + k - 1]] = Trimmed(w)
  <2>2. ASSUME NEW k \in 1..(l - t) PROVE in[a + k - 1] = w[t + k]
    <3>1. a + k - 1 \in p..(b - 1) /\ (a + k - 1) - p + 1 = t + k
      BY ONLY <1>2, l \in Nat, t \in 0..l, <1>p, k \in 1..(l - t)
    <3> QED
      BY <1>5, <3>1
  <2> QED
    BY <1>1, <1>3, <2>2
<1>9. Byte(in, p) = in[p] /\ Byte(in, p) \notin {NUL, Stray}
  BY ONLY <1>i
<1>10. f.words = ws /\ f.at = p /\ f.more = TRUE
  BY DEF Reading
<1>q. q = b + 1
  BY ONLY <1>0, <1>2, <1>w
<1>m. (Byte(in, q) \notin stage.ends) = m
  BY ONLY <1>i, m <=> in[q] \notin stage.ends, m \in BOOLEAN
<1>11. Stage(in, f, stage)
          = [words |-> Append(f.words, [k \in 1..(b - a) |-> in[a + k - 1]]),
             at |-> b + 1, more |-> Byte(in, b + 1) \notin stage.ends]
  BY <1>6, <1>7, <1>9, <1>10 DEF Stage
<1> QED
  BY ONLY <1>i, <1>q, <1>8, <1>10, <1>11, <1>m

(* It has read ws, and every stage from now on adds an empty word.         *)
Done(in, f, ws, p) ==
    \E m \in BOOLEAN : /\ f = [words |-> ws, at |-> p, more |-> m]
                       /\ m => Byte(in, p) \in {NUL, Stray}

(* A stage behind the end of the call adds an empty word.                  *)
LEMMA StageSkips ==
    ASSUME NEW in, NEW f, NEW ws, NEW p, NEW stage, Done(in, f, ws, p)
    PROVE  Done(in, Stage(in, f, stage), Append(ws, <<>>), p)
<1>1. PICK m \in BOOLEAN : /\ f = [words |-> ws, at |-> p, more |-> m]
                           /\ m => Byte(in, p) \in {NUL, Stray}
  BY DEF Done
<1>2. f.words = ws /\ f.at = p /\ f.more = m
  BY <1>1
<1>3. Stage(in, f, stage) = [f EXCEPT !.words = Append(@, <<>>), !.more = FALSE]
  BY <1>1, <1>2 DEF Stage
<1>4. Stage(in, f, stage) = [words |-> Append(ws, <<>>), at |-> p, more |-> FALSE]
  BY <1>1, <1>3
<1> QED
  BY ONLY <1>4 DEF Done

(* A stage reads a word.                                                   *)
LEMMA StageWord ==
    ASSUME NEW in, NEW n, Ends(in, n), NEW p, NEW q, NEW w, NEW c,
           WordAt(in, p, w, c, q), q <= n, NEW f, NEW ws, Reading(f, ws, p),
           NEW stage, Reads(stage, w, c)
    PROVE  /\ in[q] \in stage.ends \cup {NUL} =>
                 Done(in, Stage(in, f, stage), Append(ws, Trimmed(w)), q)
           /\ in[q] \notin stage.ends =>
                 Reading(Stage(in, f, stage), Append(ws, Trimmed(w)), q)
<1>8. PICK m \in BOOLEAN : m <=> in[q] \notin stage.ends
  OBVIOUS
<1>9. /\ Stage(in, f, stage)
            = [words |-> Append(ws, Trimmed(w)), at |-> q, more |-> m]
      /\ Byte(in, q) = in[q]
  BY <1>8, StageReads
<1>10. ASSUME in[q] \in stage.ends \cup {NUL}
       PROVE  Done(in, Stage(in, f, stage), Append(ws, Trimmed(w)), q)
  BY ONLY <1>8, <1>9, <1>10, m \in BOOLEAN DEF Done
<1>11. ASSUME in[q] \notin stage.ends
       PROVE  Reading(Stage(in, f, stage), Append(ws, Trimmed(w)), q)
  <2>1. m = TRUE
    BY ONLY <1>8, <1>11, m \in BOOLEAN
  <2> QED
    BY ONLY <1>9, <2>1 DEF Reading
<1> QED
  BY ONLY <1>10, <1>11

(* An argument as it is typed.                                             *)
Param(w) == \A i \in 1..Len(w) : w[i] \notin {",", ")"}

(* The stages read such arguments up to a comma or a parenthesis.          *)
LEMMA StagesRead ==
    ASSUME NEW w, Param(w)
    PROVE  /\ \A c \in {",", ")"} : Reads(Stages[2], w, c) /\ Reads(Stages[3], w, c)
           /\ Reads(Stages[4], w, ")")
<1>1. /\ Stages[2].stops = {",", ")"} /\ Stages[3].stops = {",", ")"}
      /\ Stages[4].stops = {")"}
  BY DEF Stages
<1>2. \A i \in 1..Len(w) : w[i] \notin {",", ")"} /\ w[i] \notin {")"}
  BY DEF Param
<1> QED
  BY <1>1, <1>2 DEF Reads

(* The parser looks for the end of the call after the first arguments.     *)
LEMMA StagesEnd == Stages[2].ends = {")"} /\ Stages[3].ends = {")"}
  BY DEF Stages

(* The first character of an argument, or the one behind an empty one.     *)
LEMMA WordStart ==
    ASSUME NEW in, NEW p, NEW q, NEW w, NEW c, WordAt(in, p, w, c, q), Param(w)
    PROVE  IF w = <<>> THEN in[p] = c ELSE in[p] \notin {",", ")"}
<1>1. /\ p \in Nat /\ w \in Seq(Char) /\ in[p + Len(w)] = c
      /\ \A i \in 1..Len(w) : in[p + i - 1] = w[i]
  BY DEF WordAt, Holds
<1>2. CASE w = <<>>
  <2>1. Len(w) = 0
    BY ONLY <1>2
  <2>2. p + Len(w) = p
    BY ONLY <1>1, <2>1
  <2> QED
    BY <1>1, <1>2, <2>2
<1>3. CASE w # <<>>
  <2>0. Len(w) \in Nat /\ Len(w) # 0
    BY ONLY <1>1, <1>3
  <2>1. 1 \in 1..Len(w) /\ p + 1 - 1 = p
    BY ONLY <1>1, <2>0
  <2>2. in[p] = w[1]
    BY ONLY <1>1, <2>1
  <2> QED
    BY <1>3, <2>1, <2>2 DEF Param
<1> QED
  BY <1>2, <1>3

(* An empty argument.                                                      *)
LEMMA TrimmedEmpty == Trimmed(<<>>) = <<>>
<1>1. <<>> \in Seq(Char) /\ Len(<<>>) = 0
  OBVIOUS
<1>2. PICK e : e = <<>>
  OBVIOUS
<1>3. e \in Seq(Char) /\ Len(e) = 0
  BY ONLY <1>1, <1>2
<1>4. PICK n : /\ n \in 0..Len(e)
               /\ Trimmed(e) = [k \in 1..(Len(e) - n) |-> e[n + k]]
  BY <1>3, TrimFacts
<1>5. Len(e) - n = 0
  <2>1. n \in 0..0
    BY ONLY <1>3, <1>4
  <2>2. n = 0
    BY ONLY <2>1
  <2> QED
    BY ONLY <1>3, <2>2
<1>6. Trimmed(e) = <<>>
  <2>1. PICK g : g = [k \in 1..0 |-> e[n + k]]
    OBVIOUS
  <2>2. g \in [1..0 -> Char] /\ DOMAIN g = 1..0
    BY ONLY <2>1
  <2>3. g \in Seq(Char)
    BY ONLY <2>2, IsASeq
  <2>4. Len(g) = 0
    BY ONLY <2>2, <2>3, LenProperties
  <2>5. g = <<>>
    BY ONLY <2>3, <2>4, EmptySeq
  <2> QED
    BY ONLY <1>4, <1>5, <2>1, <2>5
<1> QED
  BY ONLY <1>2, <1>6

(* The end of the line.                                                    *)
LEMMA EndFacts ==
    ASSUME NEW in, NEW n, Ends(in, n)
    PROVE  n \in Nat /\ n <= n /\ n \in 0..n /\ in[n] = NUL /\ n < Cap /\ NUL # ")"
<1>1. n \in 0..(Cap - 1) /\ in[n] = NUL /\ Cap \in Nat
  BY CapAssumption DEF Ends
<1> QED
  BY ONLY <1>1 DEF NUL

(* The parser behind the name.                                             *)
Params(in, f) == Stage(in, Stage(in, Stage(in, f, Stages[2]), Stages[3]), Stages[4])

(* A call with one argument.                                               *)
LEMMA ParamsOne ==
    ASSUME NEW in, NEW n, Ends(in, n), NEW f, NEW ws, NEW p, Reading(f, ws, p),
           NEW w1, WordAt(in, p, w1, ")", n), Param(w1)
    PROVE  Done(in, Params(in, f),
                Append(Append(Append(ws, Trimmed(w1)), <<>>), <<>>), n)
<1> DEFINE f2 == Stage(in, f, Stages[2])
           f3 == Stage(in, f2, Stages[3])
           ws2 == Append(ws, Trimmed(w1))
           ws3 == Append(ws2, <<>>)
<1>0. n \in Nat /\ n <= n /\ in[n] \in Stages[2].ends \cup {NUL}
  BY EndFacts
<1>r. Reads(Stages[2], w1, ")")
  BY StagesRead
<1>1. Done(in, f2, ws2, n)
  BY <1>0, <1>r, StageWord
<1> HIDE DEF f2, ws2
<1>2. Done(in, f3, ws3, n)
  BY <1>1, StageSkips
<1> HIDE DEF f3, ws3
<1>3. Done(in, Stage(in, f3, Stages[4]), Append(ws3, <<>>), n)
  BY <1>2, StageSkips
<1> QED
  BY <1>3 DEF Params, f3, f2, ws3, ws2

(* A call with two arguments.                                              *)
LEMMA ParamsTwo ==
    ASSUME NEW in, NEW n, Ends(in, n), NEW f, NEW ws, NEW p, Reading(f, ws, p),
           NEW w1, NEW w2, NEW q \in 0..n, WordAt(in, p, w1, ",", q),
           WordAt(in, q, w2, ")", n), Param(w1), Param(w2)
    PROVE  \E at \in 0..n : Done(in, Params(in, f),
              Append(Append(Append(ws, Trimmed(w1)), Trimmed(w2)), <<>>), at)
<1> DEFINE f2 == Stage(in, f, Stages[2])
           f3 == Stage(in, f2, Stages[3])
           f4 == Stage(in, f3, Stages[4])
           ws2 == Append(ws, Trimmed(w1))
           ws3 == Append(ws2, Trimmed(w2))
           ws4 == Append(ws3, <<>>)
<1>0. n \in Nat /\ n <= n /\ n \in 0..n /\ in[n] \in Stages[3].ends \cup {NUL}
  BY EndFacts
<1>q. q <= n
  BY ONLY <1>0, q \in 0..n
<1>r. Reads(Stages[2], w1, ",") /\ Reads(Stages[3], w2, ")")
  BY StagesRead
<1>1. /\ in[q] \in Stages[2].ends \cup {NUL} => Done(in, f2, ws2, q)
      /\ in[q] \notin Stages[2].ends => Reading(f2, ws2, q)
  BY <1>q, <1>r, StageWord
<1> HIDE DEF f2, ws2
<1>2. PICK at \in 0..n : Done(in, f3, ws3, at)
  <2>1. CASE w2 = <<>>
    <3>1. in[q] \in Stages[2].ends \cup {NUL}
      BY <2>1, WordStart, StagesEnd
    <3>2. Done(in, f3, Append(ws2, <<>>), q)
      BY <1>1, <3>1, StageSkips
    <3> QED
      BY <2>1, <3>2, TrimmedEmpty
  <2>2. CASE w2 # <<>>
    <3>1. in[q] \notin Stages[2].ends
      BY <2>2, WordStart, StagesEnd
    <3>2. Reading(f2, ws2, q)
      BY <1>1, <3>1
    <3>3. Done(in, f3, ws3, n)
      BY <1>0, <1>r, <3>2, StageWord
    <3> QED
      BY <1>0, <3>3
  <2> QED
    BY <2>1, <2>2
<1> HIDE DEF f3, ws3
<1>3. Done(in, f4, ws4, at)
  BY <1>2, StageSkips
<1> HIDE DEF f4, ws4
<1>4. \E at_1 \in 0..n : Done(in, f4, ws4, at_1)
  BY <1>3
<1> QED
  BY <1>4 DEF Params, f4, f3, f2, ws4, ws3, ws2

(* A call with three arguments.                                            *)
LEMMA ParamsThree ==
    ASSUME NEW in, NEW n, Ends(in, n), NEW f, NEW ws, NEW p, Reading(f, ws, p),
           NEW w1, NEW w2, NEW w3, NEW q \in 0..n, NEW r \in 0..n,
           WordAt(in, p, w1, ",", q), WordAt(in, q, w2, ",", r),
           WordAt(in, r, w3, ")", n), Param(w1), Param(w2), Param(w3)
    PROVE  \E at \in 0..n : Done(in, Params(in, f),
              Append(Append(Append(ws, Trimmed(w1)), Trimmed(w2)), Trimmed(w3)), at)
<1> DEFINE f2 == Stage(in, f, Stages[2])
           f3 == Stage(in, f2, Stages[3])
           f4 == Stage(in, f3, Stages[4])
           ws2 == Append(ws, Trimmed(w1))
           ws3 == Append(ws2, Trimmed(w2))
           ws4 == Append(ws3, Trimmed(w3))
<1>0. n \in Nat /\ n <= n /\ n \in 0..n /\ in[n] \in Stages[4].ends \cup {NUL}
  BY EndFacts
<1>q. q <= n /\ r <= n
  BY ONLY <1>0, q \in 0..n, r \in 0..n
<1>r. /\ Reads(Stages[2], w1, ",") /\ Reads(Stages[3], w2, ",")
      /\ Reads(Stages[4], w3, ")")
  BY StagesRead
<1>1. in[q] \notin Stages[2].ends => Reading(f2, ws2, q)
  BY <1>q, <1>r, StageWord
<1>2. in[q] # ")"
  <2>1. IF w2 = <<>> THEN in[q] = "," ELSE in[q] \notin {",", ")"}
    BY WordStart
  <2> QED
    BY ONLY <2>1
<1>3. Reading(f2, ws2, q)
  BY <1>1, <1>2, StagesEnd
<1> HIDE DEF f2, ws2
<1>4. /\ in[r] \in Stages[3].ends \cup {NUL} => Done(in, f3, ws3, r)
      /\ in[r] \notin Stages[3].ends => Reading(f3, ws3, r)
  BY <1>3, <1>q, <1>r, StageWord
<1> HIDE DEF f3, ws3
<1>5. PICK at \in 0..n : Done(in, f4, ws4, at)
  <2>1. CASE w3 = <<>>
    <3>1. in[r] \in Stages[3].ends \cup {NUL}
      BY <2>1, WordStart, StagesEnd
    <3>2. Done(in, f4, Append(ws3, <<>>), r)
      BY <1>4, <3>1, StageSkips
    <3> QED
      BY <2>1, <3>2, TrimmedEmpty
  <2>2. CASE w3 # <<>>
    <3>1. in[r] \notin Stages[3].ends
      BY <2>2, WordStart, StagesEnd
    <3>2. Reading(f3, ws3, r)
      BY <1>4, <3>1
    <3>3. Done(in, f4, ws4, n)
      BY <1>0, <1>r, <3>2, StageWord
    <3> QED
      BY <1>0, <3>3
  <2> QED
    BY <2>1, <2>2
<1> HIDE DEF f4, ws4
<1>6. \E at_1 \in 0..n : Done(in, f4, ws4, at_1)
  BY <1>5
<1> QED
  BY <1>6 DEF Params, f4, f3, f2, ws4, ws3, ws2

(* The characters from position p to q spell s.                            *)
Spelled(in, p, s, q) ==
    p \in Nat /\ q \in Nat /\ s \in Seq(Glyph) /\ Holds(in, p, s) /\ q = p + Len(s)

(* What is spelled part by part.                                           *)
LEMMA SpelledConcat ==
    ASSUME NEW in, NEW p, NEW q, NEW a \in Seq(Glyph), NEW b \in Seq(Glyph),
           Spelled(in, p, a \o b, q)
    PROVE  \E r \in 0..q : Spelled(in, p, a, r) /\ Spelled(in, r, b, q)
<1>1. p \in Nat /\ q \in Nat /\ Holds(in, p, a \o b) /\ q = p + Len(a \o b)
  BY DEF Spelled
<1>2. /\ Holds(in, p, a) /\ Holds(in, p + Len(a), b)
      /\ Len(a \o b) = Len(a) + Len(b)
  BY <1>1, HoldsConcat
<1>3. Len(a) \in Nat /\ Len(b) \in Nat
  OBVIOUS
<1>4. PICK r : r = p + Len(a)
  OBVIOUS
<1>5. r \in Nat /\ r \in 0..q /\ q = r + Len(b)
  BY ONLY <1>1, <1>2, <1>3, <1>4
<1>6. Spelled(in, p, a, r)
  BY <1>1, <1>2, <1>4, <1>5 DEF Spelled
<1>7. Spelled(in, r, b, q)
  BY <1>1, <1>2, <1>4, <1>5 DEF Spelled
<1> QED
  BY ONLY <1>5, <1>6, <1>7

(* A word and the character behind it.                                     *)
LEMMA SpelledWord ==
    ASSUME NEW in, NEW p, NEW q, NEW r, NEW w \in Seq(Char), NEW c,
           Spelled(in, p, w, q), Spelled(in, q, <<c>>, r)
    PROVE  WordAt(in, p, w, c, r)
<1>1. p \in Nat /\ q \in Nat /\ Holds(in, p, w) /\ q = p + Len(w)
  BY DEF Spelled
<1>2. r \in Nat /\ Holds(in, q, <<c>>) /\ r = q + Len(<<c>>)
  BY DEF Spelled
<1>3. in[q] = c
  BY <1>1, <1>2, HoldsOne
<1>4. Len(<<c>>) = 1
  OBVIOUS
<1>5. r = p + Len(w) + 1
  BY ONLY <1>1, <1>2, <1>4
<1> QED
  BY ONLY <1>1, <1>2, <1>3, <1>5, w \in Seq(Char) DEF WordAt

(* Words, and the characters between them.                                 *)
LEMMA Glyphs ==
    /\ \A w \in Seq(Char) : w \in Seq(Glyph)
    /\ <<"(">> \in Seq(Glyph) /\ <<",">> \in Seq(Glyph) /\ <<")">> \in Seq(Glyph)
<1>1. ASSUME NEW w \in Seq(Char) PROVE w \in Seq(Glyph)
  <2>1. Len(w) \in Nat /\ w \in [1..Len(w) -> Char]
    OBVIOUS
  <2>2. w \in [1..Len(w) -> Glyph]
    BY <2>1 DEF Glyph
  <2> QED
    BY <2>1, <2>2
<1>2. "(" \in Glyph /\ "," \in Glyph /\ ")" \in Glyph
  BY DEF Glyph
<1>3. ASSUME NEW c \in Glyph PROVE <<c>> \in Seq(Glyph)
  OBVIOUS
<1> QED
  BY ONLY <1>1, <1>2, <1>3

(* A terminated buffer ends behind its line and spells it.                 *)
LEMMA LineEnds ==
    ASSUME NEW b \in Buffer, NEW i \in 0..(Cap - 1), b[i] = NUL
    PROVE  Ends(b, Strlen(b)) /\ Holds(b, 0, Line(b)) /\ Len(Line(b)) = Strlen(b)
<1>1. /\ Strlen(b) \in 0..Cap
      /\ Strlen(b) < Cap => b[Strlen(b)] = NUL
      /\ \A k \in 0..(Cap - 1) : k < Strlen(b) => b[k] # NUL
  BY StrlenFacts
<1>2. PICK n : n = Strlen(b)
  OBVIOUS
<1>c. Cap \in Nat
  BY CapAssumption
<1>3. ~(i < n)
  BY <1>1, <1>2
<1>4. n \in 0..(Cap - 1) /\ n < Cap
  BY ONLY <1>1, <1>2, <1>3, <1>c, i \in 0..(Cap - 1)
<1>5. Stray \notin Char
  <2>1. \A k \in Keys : Stray # sc_ascii[k] /\ Stray # sc_ascii_shift[k]
    BY ShellAssumption
  <2>2. Stray # NUL
    BY DEF Stray, NUL
  <2> QED
    BY <2>1, <2>2 DEF Char
<1>6. ASSUME NEW k \in 0..(n - 1) PROVE b[k] \notin {NUL, Stray}
  <2>1. k \in 0..(Cap - 1) /\ k < n
    BY ONLY <1>4, <1>c, k \in 0..(n - 1)
  <2>2. b[k] \in Char
    BY <2>1 DEF Buffer
  <2> QED
    BY <1>1, <1>2, <1>5, <2>1, <2>2
<1>7. Ends(b, n)
  BY <1>1, <1>2, <1>4, <1>6 DEF Ends
<1>8. /\ Len(Line(b)) = Strlen(b)
      /\ \A k \in 1..Strlen(b) : Line(b)[k] = b[k - 1]
  BY LineFacts
<1>9. ASSUME NEW k \in 1..Len(Line(b)) PROVE b[0 + k - 1] = Line(b)[k]
  <2>1. k \in 1..n
    BY ONLY <1>2, <1>8, k \in 1..Len(Line(b))
  <2>2. 0 + k - 1 = k - 1
    BY ONLY <1>4, <2>1
  <2> QED
    BY ONLY <1>2, <1>8, <2>1, <2>2
<1> QED
  BY ONLY <1>2, <1>7, <1>8, <1>9 DEF Holds

(* What the parser gets out of a line that spells the call.                *)
Argument(call, k) == IF k <= Len(call.words) THEN Trimmed(call.words[k]) ELSE <<>>

Understood(f, call, n) ==
    /\ f.at \in 0..n /\ f.words[1] = call.name
    /\ \A k \in 1..3 : f.words[k + 1] = Argument(call, k)

(* One word behind the others.                                             *)
LEMMA OneMore ==
    ASSUME NEW S, NEW s \in Seq(S), NEW x \in S, NEW l \in Nat, l = Len(s),
           NEW r, r = Append(s, x)
    PROVE  /\ r \in Seq(S) /\ Len(r) = l + 1 /\ r[l + 1] = x
           /\ \A i \in 1..l : r[i] = s[i]
  BY AppendProperties

(* Four words, one behind the other.                                       *)
LEMMA FourWords ==
    ASSUME NEW a, NEW b, NEW c, NEW d, NEW ws,
           ws = Append(Append(Append(Append(<<>>, a), b), c), d)
    PROVE  ws[1] = a /\ ws[2] = b /\ ws[3] = c /\ ws[4] = d
<1>0. PICK S : a \in S /\ b \in S /\ c \in S /\ d \in S
  <2>1. /\ a \in {a, b, c, d} /\ b \in {a, b, c, d}
        /\ c \in {a, b, c, d} /\ d \in {a, b, c, d}
    OBVIOUS
  <2> QED
    BY ONLY <2>1
<1>1. PICK s1 : s1 = Append(<<>>, a)
  OBVIOUS
<1>2. s1 \in Seq(S) /\ 1 = Len(s1) /\ s1[1] = a
  BY ONLY <1>0, <1>1
<1>3. PICK s2 : s2 = Append(s1, b)
  OBVIOUS
<1>4. /\ s2 \in Seq(S) /\ Len(s2) = 1 + 1 /\ s2[1 + 1] = b
      /\ \A i \in 1..1 : s2[i] = s1[i]
  BY ONLY <1>0, <1>2, <1>3, 1 \in Nat, OneMore
<1>5. s2 \in Seq(S) /\ 2 = Len(s2) /\ s2[1] = a /\ s2[2] = b
  BY ONLY <1>2, <1>4
<1>6. PICK s3 : s3 = Append(s2, c)
  OBVIOUS
<1>7. /\ s3 \in Seq(S) /\ Len(s3) = 2 + 1 /\ s3[2 + 1] = c
      /\ \A i \in 1..2 : s3[i] = s2[i]
  BY ONLY <1>0, <1>5, <1>6, 2 \in Nat, OneMore
<1>8. s3 \in Seq(S) /\ 3 = Len(s3) /\ s3[1] = a /\ s3[2] = b /\ s3[3] = c
  BY ONLY <1>5, <1>7
<1>9. ws = Append(s3, d)
  BY ONLY <1>1, <1>3, <1>6, ws = Append(Append(Append(Append(<<>>, a), b), c), d)
<1>10. ws[3 + 1] = d /\ \A i \in 1..3 : ws[i] = s3[i]
  BY ONLY <1>0, <1>8, <1>9, 3 \in Nat, OneMore
<1> QED
  BY ONLY <1>8, <1>10

(* The words of a call are the ones its parser returns.                    *)
LEMMA DoneUnderstands ==
    ASSUME NEW in, NEW f, NEW call, NEW n, NEW at \in 0..n, NEW ws,
           ws = Append(Append(Append(Append(<<>>, call.name), Argument(call, 1)),
                              Argument(call, 2)), Argument(call, 3)),
           Done(in, f, ws, at)
    PROVE  Understood(f, call, n)
<1>1. f.words = ws /\ f.at = at
  BY DEF Done
<1>2. /\ ws[1] = call.name /\ ws[2] = Argument(call, 1)
      /\ ws[3] = Argument(call, 2) /\ ws[4] = Argument(call, 3)
  BY FourWords
<1>3. \A k \in 1..3 : k = 1 \/ k = 2 \/ k = 3
  OBVIOUS
<1>4. ASSUME NEW k \in 1..3 PROVE ws[k + 1] = Argument(call, k)
  <2>1. CASE k = 1
    BY <1>2, <2>1
  <2>2. CASE k = 2
    BY <1>2, <2>2
  <2>3. CASE k = 3
    BY <1>2, <2>3
  <2> QED
    BY <1>3, <2>1, <2>2, <2>3
<1> QED
  BY <1>1, <1>2, <1>4 DEF Understood

(* What is assumed of the calls, in the terms of the lemmas above.         *)
LEMMA CallFacts ==
    ASSUME NEW call \in Calls
    PROVE  /\ call.name \in Seq(Char) /\ Trimmed(call.name) = call.name
           /\ \A i \in 1..Len(call.name) : call.name[i] # "("
           /\ Len(call.words) \in 1..3
           /\ \A k \in 1..Len(call.words) :
                 call.words[k] \in Seq(Char) /\ Param(call.words[k])
<1>1. /\ call.name \in Seq(Char) /\ Trimmed(call.name) = call.name
      /\ "(" \notin ToSet(call.name)
      /\ call.words \in Seq(Seq(Char)) /\ Len(call.words) \in 1..3
      /\ \A k \in DOMAIN call.words : {",", ")"} \cap ToSet(call.words[k]) = {}
  BY CallsAssumption
<1>2. ASSUME NEW i \in 1..Len(call.name) PROVE call.name[i] # "("
  <2>0. call.name \in Seq(Char)
    BY ONLY <1>1
  <2>1. DOMAIN call.name = 1..Len(call.name)
    BY ONLY <2>0
  <2>2. call.name[i] \in ToSet(call.name)
    BY <2>1 DEF ToSet
  <2> QED
    BY <1>1, <2>2
<1>3. ASSUME NEW k \in 1..Len(call.words)
      PROVE  call.words[k] \in Seq(Char) /\ Param(call.words[k])
  <2>0. call.words \in Seq(Seq(Char))
    BY ONLY <1>1
  <2>1. k \in DOMAIN call.words /\ call.words[k] \in Seq(Char)
    BY ONLY <2>0, k \in 1..Len(call.words)
  <2>2. PICK w \in Seq(Char) : w = call.words[k]
    BY <2>1
  <2>3. {",", ")"} \cap ToSet(w) = {}
    BY <1>1, <2>1, <2>2
  <2>4. ASSUME NEW i \in 1..Len(w) PROVE w[i] \notin {",", ")"}
    <3>1. w[i] \in ToSet(w)
      BY DEF ToSet
    <3> QED
      BY <2>3, <3>1
  <2>5. Param(w)
    BY <2>4 DEF Param
  <2> QED
    BY <2>1, <2>2, <2>5
<1> QED
  BY <1>1, <1>2, <1>3

(* The parser reads the name of the call.                                  *)
LEMMA CommandReads ==
    ASSUME NEW in, NEW n, Ends(in, n), NEW call \in Calls, NEW y \in 0..n,
           WordAt(in, 0, call.name, "(", y)
    PROVE  \E f : /\ Reading(f, Append(<<>>, call.name), y)
                  /\ Parse(in) = Params(in, f)
<1> DEFINE f0 == [words |-> <<>>, at |-> 0, more |-> TRUE]
           f == Stage(in, f0, Stages[1])
<1>1. Parse(in) = Params(in, f)
  BY DEF Parse, Params
<1>2. Stages[1].stops = {"("} /\ Stages[1].ends = {}
  BY DEF Stages
<1>3. Reads(Stages[1], call.name, "(")
  BY <1>2, CallFacts DEF Reads
<1>4. Reading(f0, <<>>, 0)
  BY DEF Reading
<1> HIDE DEF f0
<1>5. n \in Nat
  BY EndFacts
<1>6. y <= n
  BY ONLY <1>5, y \in 0..n
<1>7. in[y] \notin Stages[1].ends
  BY <1>2
<1>8. Reading(f, Append(<<>>, Trimmed(call.name)), y)
  BY ONLY <1>3, <1>4, <1>6, <1>7, Ends(in, n), WordAt(in, 0, call.name, "(", y),
          StageWord
<1>9. Trimmed(call.name) = call.name
  BY CallFacts
<1> HIDE DEF f
<1> QED
  BY <1>1, <1>8, <1>9

(* A call is spelled by its name, a parenthesis, its arguments and a       *)
(* parenthesis.                                                            *)
LEMMA ArgListFacts ==
    ASSUME NEW ws, Len(ws) \in 1..3, \A k \in 1..Len(ws) : ws[k] \in Seq(Char)
    PROVE  /\ ArgList(ws) \in Seq(Glyph)
           /\ Len(ws) = 1 => ArgList(ws) = ws[1]
           /\ Len(ws) = 2 => ArgList(ws) = ws[1] \o <<",">> \o ws[2]
           /\ Len(ws) = 3 => ArgList(ws) = ws[1] \o <<",">> \o ws[2] \o <<",">> \o ws[3]
<1>1. \A k \in 1..Len(ws) : ws[k] \in Seq(Glyph)
  BY Glyphs
<1>c. <<",">> \in Seq(Glyph)
  BY Glyphs
<1>2. CASE Len(ws) = 1
  <2>1. ArgList(ws) = ws[1]
    BY ONLY <1>2 DEF ArgList
  <2>2. 1 \in 1..Len(ws) /\ Len(ws) # 2 /\ Len(ws) # 3
    BY ONLY <1>2
  <2> QED
    BY ONLY <1>1, <2>1, <2>2
<1>3. CASE Len(ws) = 2
  <2>2. 1 \in 1..Len(ws) /\ 2 \in 1..Len(ws) /\ Len(ws) # 1 /\ Len(ws) # 3
    BY ONLY <1>3
  <2>1. ArgList(ws) = ws[1] \o <<",">> \o ws[2]
    BY ONLY <1>3, <2>2, Zenon DEF ArgList
  <2>3. ws[1] \in Seq(Glyph) /\ ws[2] \in Seq(Glyph)
    BY ONLY <1>1, <2>2
  <2>4. ws[1] \o <<",">> \o ws[2] \in Seq(Glyph)
    <3>1. PICK c : c = <<",">>
      OBVIOUS
    <3>2. PICK a : a = ws[1] \o c
      OBVIOUS
    <3>c. c \in Seq(Glyph)
      BY ONLY <1>c, <3>1
    <3>3. c \in Seq(Glyph) /\ a \in Seq(Glyph)
      BY ONLY <2>3, <3>c, <3>2
    <3>4. a \o ws[2] \in Seq(Glyph)
      BY ONLY <2>3, <3>3
    <3> QED
      BY ONLY <3>1, <3>2, <3>4
  <2> QED
    BY ONLY <2>1, <2>2, <2>4
<1>4. CASE Len(ws) = 3
  <2>2. /\ 1 \in 1..Len(ws) /\ 2 \in 1..Len(ws) /\ 3 \in 1..Len(ws)
        /\ Len(ws) # 1 /\ Len(ws) # 2
    BY ONLY <1>4
  <2>1. ArgList(ws) = ws[1] \o <<",">> \o ws[2] \o <<",">> \o ws[3]
    BY ONLY <1>4, <2>2, Zenon DEF ArgList
  <2>3. ws[1] \in Seq(Glyph) /\ ws[2] \in Seq(Glyph) /\ ws[3] \in Seq(Glyph)
    BY ONLY <1>1, <2>2
  <2>4. ws[1] \o <<",">> \o ws[2] \o <<",">> \o ws[3] \in Seq(Glyph)
    <3>1. PICK c : c = <<",">>
      OBVIOUS
    <3>2. PICK a : a = ws[1] \o c
      OBVIOUS
    <3>c. c \in Seq(Glyph)
      BY ONLY <1>c, <3>1
    <3>3. c \in Seq(Glyph) /\ a \in Seq(Glyph)
      BY ONLY <2>3, <3>c, <3>2
    <3>4. PICK b : b = a \o ws[2]
      OBVIOUS
    <3>5. b \in Seq(Glyph)
      BY ONLY <2>3, <3>3, <3>4
    <3>6. PICK d : d = b \o c
      OBVIOUS
    <3>7. d \in Seq(Glyph)
      BY ONLY <3>3, <3>5, <3>6
    <3>8. d \o ws[3] \in Seq(Glyph)
      BY ONLY <2>3, <3>7
    <3> QED
      BY ONLY <3>1, <3>2, <3>4, <3>6, <3>8
  <2> QED
    BY ONLY <2>1, <2>2, <2>4
<1>5. Len(ws) = 1 \/ Len(ws) = 2 \/ Len(ws) = 3
  BY ONLY Len(ws) \in 1..3
<1> QED
  BY ONLY <1>2, <1>3, <1>4, <1>5

(* Where the name of a call, its arguments and its end are in the line.    *)
LEMMA CallSpelled ==
    ASSUME NEW in, NEW n \in Nat, NEW call \in Calls, Spelled(in, 0, Unparse(call), n)
    PROVE  \E x, y \in 0..n :
              /\ WordAt(in, 0, call.name, "(", y) /\ y <= x
              /\ Spelled(in, 0, call.name, y - 1)
              /\ Spelled(in, y, ArgList(call.words), x) /\ Spelled(in, x, <<")">>, n)
<1>1. PICK A : A = ArgList(call.words)
  OBVIOUS
<1>2. call.name \in Seq(Char) /\ call.name \in Seq(Glyph)
  BY CallFacts, Glyphs
<1>3. A \in Seq(Glyph)
  BY <1>1, CallFacts, ArgListFacts
<1>4. <<"(">> \in Seq(Glyph) /\ <<")">> \in Seq(Glyph)
  BY Glyphs
<1>5. PICK Y : Y = call.name \o <<"(">>
  OBVIOUS
<1>6. Y \in Seq(Glyph)
  BY ONLY <1>2, <1>4, <1>5
<1>7. PICK X : X = Y \o A
  OBVIOUS
<1>8. X \in Seq(Glyph)
  BY ONLY <1>3, <1>6, <1>7
<1>9. Spelled(in, 0, X \o <<")">>, n)
  BY <1>1, <1>5, <1>7 DEF Unparse
<1>10. PICK x \in 0..n : Spelled(in, 0, X, x) /\ Spelled(in, x, <<")">>, n)
  BY ONLY <1>4, <1>8, <1>9, SpelledConcat
<1>11. PICK y \in 0..x : Spelled(in, 0, Y, y) /\ Spelled(in, y, A, x)
  BY ONLY <1>3, <1>6, <1>7, <1>10, SpelledConcat
<1>12. PICK z \in 0..y : Spelled(in, 0, call.name, z) /\ Spelled(in, z, <<"(">>, y)
  BY ONLY <1>2, <1>4, <1>5, <1>11, SpelledConcat
<1>13. WordAt(in, 0, call.name, "(", y)
  BY ONLY <1>2, <1>12, SpelledWord
<1>14. y \in 0..n /\ y <= x
  BY ONLY n \in Nat, x \in 0..n, y \in 0..x
<1>15. z = y - 1
  <2>1. y = z + Len(<<"(">>)
    BY ONLY <1>12 DEF Spelled
  <2>2. Len(<<"(">>) = 1
    OBVIOUS
  <2> QED
    BY ONLY <1>14, <2>1, <2>2, z \in 0..y
<1> QED
  BY <1>1, <1>10, <1>11, <1>12, <1>13, <1>14, <1>15

(* Two arguments, separated by a comma.                                    *)
LEMMA TwoSpelled ==
    ASSUME NEW in, NEW n \in Nat, NEW x \in 0..n, NEW y \in Nat,
           NEW w1 \in Seq(Char), NEW w2 \in Seq(Char), NEW c,
           Spelled(in, y, w1 \o <<",">> \o w2, x), Spelled(in, x, <<c>>, n)
    PROVE  \E q \in 0..n : WordAt(in, y, w1, ",", q) /\ WordAt(in, q, w2, c, n)
<1>1. w1 \in Seq(Glyph) /\ w2 \in Seq(Glyph) /\ <<",">> \in Seq(Glyph)
  BY Glyphs
<1>2. PICK B : B = w1 \o <<",">>
  OBVIOUS
<1>3. B \in Seq(Glyph)
  <2>1. PICK k : k = <<",">>
    OBVIOUS
  <2>2. k \in Seq(Glyph) /\ B = w1 \o k
    BY ONLY <1>1, <1>2, <2>1
  <2>3. w1 \in Seq(Glyph)
    BY ONLY <1>1
  <2> QED
    BY ONLY <2>2, <2>3
<1>4. Spelled(in, y, B \o w2, x)
  BY ONLY <1>2, Spelled(in, y, w1 \o <<",">> \o w2, x)
<1>5. PICK q \in 0..x : Spelled(in, y, B, q) /\ Spelled(in, q, w2, x)
  BY ONLY <1>1, <1>3, <1>4, SpelledConcat
<1>6. PICK z \in 0..q : Spelled(in, y, w1, z) /\ Spelled(in, z, <<",">>, q)
  BY ONLY <1>1, <1>2, <1>5, SpelledConcat
<1>7. WordAt(in, y, w1, ",", q)
  BY ONLY <1>6, w1 \in Seq(Char), SpelledWord
<1>8. WordAt(in, q, w2, c, n)
  BY ONLY <1>5, w2 \in Seq(Char), Spelled(in, x, <<c>>, n), SpelledWord
<1>9. q \in 0..n
  BY ONLY n \in Nat, x \in 0..n, q \in 0..x
<1> QED
  BY ONLY <1>7, <1>8, <1>9

(* Three arguments.                                                        *)
LEMMA ThreeSpelled ==
    ASSUME NEW in, NEW n \in Nat, NEW x \in 0..n, NEW y \in Nat,
           NEW w1 \in Seq(Char), NEW w2 \in Seq(Char), NEW w3 \in Seq(Char), NEW c,
           Spelled(in, y, w1 \o <<",">> \o w2 \o <<",">> \o w3, x),
           Spelled(in, x, <<c>>, n)
    PROVE  \E q \in 0..n, r \in 0..n : /\ WordAt(in, y, w1, ",", q)
                                       /\ WordAt(in, q, w2, ",", r)
                                       /\ WordAt(in, r, w3, c, n)
<1>1. w1 \in Seq(Glyph) /\ w2 \in Seq(Glyph) /\ w3 \in Seq(Glyph)
  BY Glyphs
<1>c. PICK k : k = <<",">>
  OBVIOUS
<1>k. k \in Seq(Glyph)
  BY ONLY <1>c, Glyphs
<1>a. PICK a : a = w1 \o k
  OBVIOUS
<1>2. a \in Seq(Glyph)
  BY ONLY <1>1, <1>k, <1>a
<1>b. PICK B : B = a \o w2
  OBVIOUS
<1>3. B \in Seq(Glyph)
  BY ONLY <1>1, <1>2, <1>b
<1>d. PICK D : D = B \o k
  OBVIOUS
<1>4. D \in Seq(Glyph)
  BY ONLY <1>3, <1>k, <1>d
<1>5. Spelled(in, y, D \o w3, x)
  BY ONLY <1>a, <1>b, <1>c, <1>d,
          Spelled(in, y, w1 \o <<",">> \o w2 \o <<",">> \o w3, x)
<1>6. PICK r \in 0..x : Spelled(in, y, D, r) /\ Spelled(in, r, w3, x)
  BY ONLY <1>1, <1>4, <1>5, SpelledConcat
<1>7. PICK z \in 0..r : Spelled(in, y, B, z) /\ Spelled(in, z, k, r)
  BY ONLY <1>3, <1>k, <1>d, <1>6, SpelledConcat
<1>8. PICK q \in 0..r : WordAt(in, y, w1, ",", q) /\ WordAt(in, q, w2, ",", r)
  <2>1. r \in Nat
    BY ONLY n \in Nat, x \in 0..n, r \in 0..x
  <2>2. Spelled(in, y, w1 \o <<",">> \o w2, z) /\ Spelled(in, z, <<",">>, r)
    BY ONLY <1>a, <1>b, <1>c, <1>7
  <2> QED
    BY ONLY <2>1, <2>2, z \in 0..r, y \in Nat, w1 \in Seq(Char), w2 \in Seq(Char),
            TwoSpelled
<1>9. WordAt(in, r, w3, c, n)
  BY ONLY <1>6, w3 \in Seq(Char), Spelled(in, x, <<c>>, n), SpelledWord
<1>10. q \in 0..n /\ r \in 0..n
  BY ONLY n \in Nat, x \in 0..n, r \in 0..x, q \in 0..r
<1> QED
  BY ONLY <1>8, <1>9, <1>10

(* The parser gets the name and the arguments of a call out of a line that *)
(* spells it.                                                              *)
LEMMA ParseUnderstands ==
    ASSUME NEW in, NEW n, Ends(in, n), NEW call \in Calls,
           Spelled(in, 0, Unparse(call), n)
    PROVE  Understood(Parse(in), call, n)
<1>0. n \in Nat /\ n \in 0..n
  BY EndFacts
<1>1. PICK x, y \in 0..n :
         /\ WordAt(in, 0, call.name, "(", y)
         /\ Spelled(in, y, ArgList(call.words), x) /\ Spelled(in, x, <<")">>, n)
  BY <1>0, CallSpelled
<1>2. PICK f : Reading(f, Append(<<>>, call.name), y) /\ Parse(in) = Params(in, f)
  BY <1>1, CommandReads
<1>3. y \in Nat
  BY ONLY <1>0, y \in 0..n
<1>4. PICK words : words = call.words
  OBVIOUS
<1>5. /\ Len(words) \in 1..3
      /\ \A k \in 1..Len(words) : words[k] \in Seq(Char) /\ Param(words[k])
  BY <1>4, CallFacts
<1>6. PICK A : A = ArgList(words)
  OBVIOUS
<1>7. /\ Len(words) = 1 => A = words[1]
      /\ Len(words) = 2 => A = words[1] \o <<",">> \o words[2]
      /\ Len(words) = 3 => A = words[1] \o <<",">> \o words[2] \o <<",">> \o words[3]
  BY ONLY <1>5, <1>6, ArgListFacts
<1>8. Spelled(in, y, A, x) /\ Spelled(in, x, <<")">>, n)
  BY <1>1, <1>4, <1>6
<1>w. PICK w1, w2, w3 : w1 = words[1] /\ w2 = words[2] /\ w3 = words[3]
  OBVIOUS
<1>g. PICK ws : ws = Append(Append(Append(Append(<<>>, call.name), Argument(call, 1)),
                              Argument(call, 2)), Argument(call, 3))
  OBVIOUS
<1>q. ASSUME NEW at \in 0..n, Done(in, Parse(in), ws, at)
      PROVE  Understood(Parse(in), call, n)
  BY <1>q, <1>g, DoneUnderstands
<1>9. CASE Len(words) = 1
  <2>1. w1 \in Seq(Char) /\ Param(w1) /\ A = w1
    BY ONLY <1>5, <1>7, <1>9, <1>w
  <2>2. WordAt(in, y, w1, ")", n)
    BY ONLY <1>8, <2>1, SpelledWord
  <2>3. Done(in, Params(in, f), Append(Append(Append(Append(<<>>, call.name),
                Trimmed(w1)), <<>>), <<>>), n)
    BY ONLY Ends(in, n), <1>2, <2>1, <2>2, ParamsOne
  <2>4. /\ Argument(call, 1) = Trimmed(w1)
        /\ Argument(call, 2) = <<>> /\ Argument(call, 3) = <<>>
    BY ONLY <1>4, <1>9, <1>w DEF Argument
  <2> QED
    BY ONLY <1>0, <1>2, <1>g, <1>q, <2>3, <2>4
<1>10. CASE Len(words) = 2
  <2>0. 1 \in 1..2 /\ 2 \in 1..2
    OBVIOUS
  <2>1. /\ w1 \in Seq(Char) /\ Param(w1) /\ w2 \in Seq(Char) /\ Param(w2)
        /\ A = w1 \o <<",">> \o w2
    BY ONLY <1>5, <1>7, <1>10, <1>w, <2>0, Zenon
  <2>2. PICK q \in 0..n : WordAt(in, y, w1, ",", q) /\ WordAt(in, q, w2, ")", n)
    BY ONLY <1>0, <1>3, <1>8, <2>1, x \in 0..n, TwoSpelled
  <2>3. PICK at \in 0..n : Done(in, Params(in, f),
           Append(Append(Append(Append(<<>>, call.name), Trimmed(w1)), Trimmed(w2)),
                  <<>>), at)
    BY ONLY Ends(in, n), <1>2, <2>1, <2>2, ParamsTwo
  <2>4. /\ Argument(call, 1) = Trimmed(w1) /\ Argument(call, 2) = Trimmed(w2)
        /\ Argument(call, 3) = <<>>
    BY ONLY <1>4, <1>10, <1>w DEF Argument
  <2> QED
    BY ONLY <1>2, <1>g, <1>q, <2>3, <2>4
<1>11. CASE Len(words) = 3
  <2>0. 1 \in 1..3 /\ 2 \in 1..3 /\ 3 \in 1..3
    OBVIOUS
  <2>1. /\ w1 \in Seq(Char) /\ Param(w1) /\ w2 \in Seq(Char) /\ Param(w2)
        /\ w3 \in Seq(Char) /\ Param(w3)
        /\ A = w1 \o <<",">> \o w2 \o <<",">> \o w3
    BY ONLY <1>5, <1>7, <1>11, <1>w, <2>0, Zenon
  <2>2. PICK q \in 0..n, r \in 0..n :
           /\ WordAt(in, y, w1, ",", q) /\ WordAt(in, q, w2, ",", r)
           /\ WordAt(in, r, w3, ")", n)
    BY ONLY <1>0, <1>3, <1>8, <2>1, x \in 0..n, ThreeSpelled
  <2>3. PICK at \in 0..n : Done(in, Params(in, f),
           Append(Append(Append(Append(<<>>, call.name), Trimmed(w1)), Trimmed(w2)),
                  Trimmed(w3)), at)
    BY ONLY Ends(in, n), <1>2, <2>1, <2>2, ParamsThree
  <2>4. /\ Argument(call, 1) = Trimmed(w1) /\ Argument(call, 2) = Trimmed(w2)
        /\ Argument(call, 3) = Trimmed(w3)
    BY ONLY <1>4, <1>11, <1>w DEF Argument
  <2> QED
    BY ONLY <1>2, <1>g, <1>q, <2>3, <2>4
<1>12. Len(words) = 1 \/ Len(words) = 2 \/ Len(words) = 3
  BY ONLY <1>5
<1> QED
  BY ONLY <1>9, <1>10, <1>11, <1>12

(* A word without a terminator is its own C string.                        *)
LEMMA CStringIs ==
    ASSUME NEW w \in Seq(Char), \A i \in 1..Len(w) : w[i] # NUL
    PROVE  CString(w) = w
<1>1. {i \in 1..Len(w) : w[i] = NUL} = {}
  OBVIOUS
<1>2. SelectInSeq(w, LAMBDA c : c = NUL) = 0
  BY ONLY <1>1 DEF SelectInSeq
<1> QED
  BY ONLY <1>2 DEF CString

(* The name of a call has no terminator, for the line has none.            *)
LEMMA NameIsString ==
    ASSUME NEW in, NEW n, Ends(in, n), NEW call \in Calls,
           Spelled(in, 0, Unparse(call), n)
    PROVE  CString(call.name) = call.name /\ n >= 2
<1>0. n \in Nat
  BY EndFacts
<1>1. PICK x, y \in 0..n :
         /\ y <= x /\ Spelled(in, 0, call.name, y - 1) /\ Spelled(in, x, <<")">>, n)
  BY <1>0, CallSpelled
<1>2. PICK w : w = call.name
  OBVIOUS
<1>3. w \in Seq(Char)
  BY <1>2, CallFacts
<1>4. y - 1 \in Nat /\ y - 1 = 0 + Len(w) /\ \A i \in 1..Len(w) : in[0 + i - 1] = w[i]
  BY <1>1, <1>2 DEF Spelled, Holds
<1>5. n = x + Len(<<")">>)
  BY <1>1 DEF Spelled
<1>6. Len(<<")">>) = 1
  OBVIOUS
<1>l. PICK l \in Nat : l = Len(w)
  BY ONLY <1>3
<1>7. n >= 2 /\ l <= n
  BY ONLY <1>0, <1>1, <1>4, <1>5, <1>6, <1>l, l \in Nat, x \in 0..n, y \in 0..n
<1>8. ASSUME NEW i \in 1..Len(w) PROVE w[i] # NUL
  <2>0. i \in 1..l
    BY ONLY <1>l, i \in 1..Len(w)
  <2>1. 0 + i - 1 \in 0..(n - 1)
    BY ONLY <1>0, <1>7, <2>0, l \in Nat
  <2>2. in[0 + i - 1] # NUL
    BY ONLY <2>1, Ends(in, n) DEF Ends
  <2> QED
    BY ONLY <1>4, <2>2, i \in 1..Len(w)
<1>9. CString(w) = w
  BY ONLY <1>3, <1>8, CStringIs
<1> QED
  BY ONLY <1>2, <1>7, <1>9

(* What the parser has understood is run.                                  *)
LEMMA UnderstoodRuns ==
    ASSUME NEW f, NEW n, NEW call \in Calls, n \in Nat, n < Cap,
           Understood(f, call, n), CString(call.name) = call.name
    PROVE  /\ ~ParsesAstray(f) /\ Effect(CallOf(f)) # "none"
           /\ CallOf(f) = [name |-> call.name, args |-> call.values]
<1>1. f.at \in 0..n /\ f.words[1] = call.name
  BY DEF Understood
<1>2. \A k \in 1..3 : f.words[k + 1] = Argument(call, k)
  BY DEF Understood
<1>c. Cap \in Nat
  BY CapAssumption
<1>3. ~(f.at >= Cap)
  BY ONLY <1>1, <1>c, n \in Nat, n < Cap
<1>w. call.words \in Seq(Seq(Char)) /\ Len(call.words) \in 1..3
  BY CallsAssumption
<1>4. ASSUME NEW k \in 1..3, Quoted(Argument(call, k))
      PROVE  Closing(Argument(call, k)) # {}
  <2>1. CASE k <= Len(call.words)
    <3>1. k \in DOMAIN call.words
      BY ONLY <1>w, <2>1, k \in 1..3
    <3>2. LET w == Trimmed(call.words[k]) IN Quoted(w) => Closing(w) # {}
      BY <3>1, CallsAssumption
    <3>3. Argument(call, k) = Trimmed(call.words[k])
      BY ONLY <2>1 DEF Argument
    <3> QED
      BY ONLY <1>4, <3>2, <3>3
  <2>2. CASE ~(k <= Len(call.words))
    <3>1. Argument(call, k) = <<>>
      BY ONLY <2>2 DEF Argument
    <3> QED
      BY ONLY <1>4, <3>1 DEF Quoted
  <2> QED
    BY <2>1, <2>2
<1>5. ASSUME NEW k \in 2..4, Quoted(f.words[k]) PROVE Closing(f.words[k]) # {}
  <2>1. k - 1 \in 1..3 /\ (k - 1) + 1 = k
    BY ONLY k \in 2..4
  <2>2. f.words[k] = Argument(call, k - 1)
    BY ONLY <1>2, <2>1
  <2> QED
    BY ONLY <1>4, <1>5, <2>1, <2>2
<1>6. ~ParsesAstray(f)
  BY ONLY <1>3, <1>5 DEF ParsesAstray
<1>7. call.values = [k \in 1..3 |-> CheckParam(Argument(call, k))]
  BY CallsAssumption DEF Argument
<1>8. [k \in 1..3 |-> CheckParam(f.words[k + 1])] = call.values
  BY ONLY <1>2, <1>7
<1>9. CallOf(f) = [name |-> call.name, args |-> call.values]
  BY ONLY <1>1, <1>8, CString(call.name) = call.name DEF CallOf
<1>10. CallOf(f).name = call.name
  BY ONLY <1>9
<1>11. Effect(CallOf(f)) = Effect(call)
  BY ONLY <1>10 DEF Effect
<1>12. Effect(call) # "none"
  BY CallsAssumption
<1> QED
  BY ONLY <1>6, <1>9, <1>11, <1>12

(* A buffer whose line is a call runs it.                                  *)
LEMMA LineRuns ==
    ASSUME NEW b \in Buffer, NEW i \in 0..(Cap - 1), b[i] = NUL, NEW call \in Calls,
           Line(b) = Unparse(call)
    PROVE  /\ ~ParsesAstray(Parse(b)) /\ Effect(CallOf(Parse(b))) # "none"
           /\ CallOf(Parse(b)) = [name |-> call.name, args |-> call.values]
           /\ Len(Line(b)) >= 2
<1>1. PICK n : n = Strlen(b)
  OBVIOUS
<1>2. Ends(b, n) /\ Holds(b, 0, Line(b)) /\ Len(Line(b)) = n
  BY <1>1, LineEnds
<1>3. n \in Nat /\ n < Cap
  BY <1>2, EndFacts
<1>4. Line(b) \in Seq(Glyph)
  BY LineFacts, Glyphs
<1>5. n = 0 + Len(Line(b))
  BY ONLY <1>2, <1>3
<1>6. Spelled(b, 0, Unparse(call), n)
  BY ONLY <1>2, <1>3, <1>4, <1>5, Line(b) = Unparse(call) DEF Spelled
<1>7. Understood(Parse(b), call, n)
  BY <1>2, <1>6, ParseUnderstands
<1>8. CString(call.name) = call.name /\ n >= 2
  BY <1>2, <1>6, NameIsString
<1>9. /\ ~ParsesAstray(Parse(b)) /\ Effect(CallOf(Parse(b))) # "none"
      /\ CallOf(Parse(b)) = [name |-> call.name, args |-> call.values]
  BY <1>3, <1>7, <1>8, UnderstoodRuns
<1> QED
  BY ONLY <1>2, <1>8, <1>9

-----------------------------------------------------------------------------
(* The line is always terminated within the buffer.                        *)
Terminated == \E i \in 0..(Cap - 1) : buf[i] = NUL

(* Every branch of the handler leaves a terminator in the buffer.          *)
LEMMA TerminatedStep == ShellInv /\ Terminated /\ [Next]_vars => Terminated'
<1> SUFFICES ASSUME ShellInv, Terminated, [Next]_vars PROVE Terminated'
  OBVIOUS
<1>t. buf \in Buffer /\ DOMAIN buf = 0..(Cap - 1)
  BY DEF ShellInv, TypeOK, Buffer
<1>c. Cap \in Nat /\ 0 \in 0..(Cap - 1)
  BY CapAssumption
<1>u. ASSUME UNCHANGED buf PROVE Terminated'
  BY <1>u DEF Terminated
<1>p. ASSUME NEW i \in 0..(Cap - 1), buf' = [buf EXCEPT ![i] = NUL] PROVE Terminated'
  BY <1>p, <1>t DEF Terminated
<1>l. ASSUME ClearLine PROVE Terminated'
  BY <1>l, <1>p, <1>c DEF ClearLine
<1>0. CASE UNCHANGED vars
  BY <1>0, <1>u DEF vars
<1>1. ASSUME NEW down \in BOOLEAN, LeftShift(down) PROVE Terminated'
  BY <1>1, <1>u DEF LeftShift
<1>2. CASE CapsLock
  BY <1>2, <1>u DEF CapsLock
<1>3. ASSUME NEW k \in Keys, PressKey(k) PROVE Terminated'
  <2>1. CASE Strlen(buf) + 1 < Cap /\ buf' = AppendChar(buf, Letter(k))
    <3>1. PICK n : n = Strlen(buf)
      OBVIOUS
    <3>2. n \in 0..Cap
      BY <1>t, <3>1, StrlenFacts
    <3>3. n + 1 \in 0..(Cap - 1)
      BY ONLY <1>c, <2>1, <3>1, <3>2
    <3>4. buf' = [buf EXCEPT ![n] = Letter(k), ![n + 1] = NUL]
      BY <2>1, <3>1 DEF AppendChar
    <3>5. buf'[n + 1] = NUL
      BY <1>t, <3>3, <3>4
    <3> QED
      BY <3>3, <3>5 DEF Terminated
  <2> QED
    BY <1>3, <1>u, <2>1 DEF PressKey
<1>4. CASE Backspace
  <2>1. CASE Strlen(buf) > 0 /\ buf' = [buf EXCEPT ![Strlen(buf) - 1] = NUL]
    <3>1. Strlen(buf) - 1 \in 0..(Cap - 1)
      BY <1>t, <1>c, <2>1, StrlenFacts
    <3> QED
      BY <1>p, <2>1, <3>1
  <2> QED
    BY <1>4, <1>u, <2>1 DEF Backspace
<1>5. CASE EnterBuiltin
  BY <1>5, <1>l, <1>u DEF EnterBuiltin
<1>6. CASE EnterCommand
  BY <1>6, <1>l, <1>u DEF EnterCommand
<1>7. CASE Wake
  BY <1>7, <1>l DEF Wake
<1> QED
  BY <1>0, <1>1, <1>2, <1>3, <1>4, <1>5, <1>6, <1>7 DEF Next

(* The terminator never gets lost.                                         *)
LEMMA AlwaysTerminated == Spec => []Terminated
<1>1. Init => Terminated
  <2>1. 0 \in 0..(Cap - 1)
    BY CapAssumption
  <2> QED
    BY <2>1 DEF Init, Terminated
<1> QED
  BY <1>1, TerminatedStep, ShellInvariant, PTL DEF Spec

(* A step that empties the line of a call is the Enter that runs it.       *)
LEMMA EnterRuns ==
    ASSUME ShellInv, Terminated, Next, NEW call \in Calls,
           ~mixed, typed = Unparse(call), typed' = <<>>
    PROVE  ran' = [name |-> call.name, args |-> call.values]
<1>t. buf \in Buffer /\ typed \in Seq(Char)
  BY DEF ShellInv, TypeOK, Buffer
<1>1. PICK i \in 0..(Cap - 1) : buf[i] = NUL
  BY DEF Terminated
<1>2. ASSUME status = "up"
      PROVE  /\ ~ParsesAstray(Parse(buf)) /\ Effect(CallOf(Parse(buf))) # "none"
             /\ CallOf(Parse(buf)) = [name |-> call.name, args |-> call.values]
             /\ Len(typed) >= 2 /\ Line(buf) = typed
  <2>1. Line(buf) = typed
    BY <1>2 DEF ShellInv, LineIsTyped
  <2> QED
    BY <1>t, <1>1, <2>1, LineRuns
<1>3. ASSUME status = "up" PROVE typed # <<>>
  <2>1. Len(typed) >= 2
    BY <1>2, <1>3
  <2> QED
    BY ONLY <1>t, <2>1
<1>4. ASSUME NEW down \in BOOLEAN, LeftShift(down) PROVE FALSE
  BY <1>3, <1>4 DEF LeftShift
<1>5. CASE CapsLock
  BY <1>3, <1>5 DEF CapsLock
<1>6. ASSUME NEW k \in Keys, PressKey(k) PROVE FALSE
  <2>1. Append(typed, Letter(k)) # <<>>
    <3>1. PICK c \in Char : c = Letter(k)
      BY LetterFacts
    <3>2. Append(typed, c) # <<>>
      BY ONLY <1>t, c \in Char, AppendProperties
    <3> QED
      BY ONLY <3>1, <3>2
  <2> QED
    BY <1>3, <1>6, <2>1 DEF PressKey
<1>7. CASE Backspace
  <2>1. status = "up" /\ typed' = IF typed = <<>> \/ mixed THEN typed ELSE Front(typed)
    BY <1>7 DEF Backspace
  <2>2. Len(typed) >= 2 /\ typed # <<>>
    BY <1>2, <1>3, <2>1
  <2>3. Front(typed) # <<>>
    <3>1. PICK l \in Nat : l = Len(typed)
      BY ONLY <1>t
    <3>2. l >= 2
      BY ONLY <2>2, <3>1
    <3>3. Front(typed) = SubSeq(typed, 1, Len(typed) - 1)
      BY DEF Front
    <3>4. Len(SubSeq(typed, 1, l - 1)) = l - 1
      BY ONLY <1>t, <3>1, <3>2, l \in Nat
    <3>5. Len(<<>>) = 0 /\ l - 1 # 0
      BY ONLY <3>2, l \in Nat
    <3> QED
      BY ONLY <3>1, <3>3, <3>4, <3>5
  <2> QED
    BY <2>1, <2>2, <2>3
<1>8. CASE EnterBuiltin
  <2>1. status = "up" /\ Line(buf) \in StopLines \cup {InfoLine}
    BY <1>8 DEF EnterBuiltin
  <2>2. Unparse(call) \notin StopLines \cup {InfoLine}
    BY CallsAssumption
  <2> QED
    BY <1>2, <2>1, <2>2
<1>9. CASE EnterCommand
  <2> DEFINE f == Parse(buf)
             made == CallOf(f)
  <2>1. status = "up"
    BY <1>9 DEF EnterCommand
  <2>2. /\ ~ParsesAstray(f) /\ Effect(made) # "none"
        /\ made = [name |-> call.name, args |-> call.values]
    BY <1>2, <2>1
  <2>3. \/ ParsesAstray(f)
        \/ ran' = (IF Effect(made) = "none" THEN NoCall ELSE made)
        \/ ran' = made
    BY <1>9 DEF EnterCommand, Entered
  <2> HIDE DEF f, made
  <2> QED
    BY ONLY <2>2, <2>3
<1>10. CASE Wake
  BY <1>3, <1>10 DEF Wake
<1> QED
  BY <1>4, <1>5, <1>6, <1>7, <1>8, <1>9, <1>10 DEF Next

-----------------------------------------------------------------------------
(* The line buffer and the flags of the keyboard handler hold values of    *)
(* their C types.                                                          *)
THEOREM TypeCorrect == Spec => []TypeOK
<1>1. ShellInv => TypeOK
  BY DEF ShellInv
<1> QED
  BY <1>1, ShellInvariant, PTL

(* For every size of key_buffer, every keyboard and every set of commands: *)
(* the string that append, backspace and Enter leave in the buffer is the  *)
(* line the user sees, unless a command that slept has cut into it.        *)
THEOREM BufferHoldsLine == Spec => []LineIsTyped
<1>1. ShellInv => LineIsTyped
  BY DEF ShellInv
<1> QED
  BY <1>1, ShellInvariant, PTL
(***************************************************************************)
(* The call the user has typed is the call that parse_command_and_run      *)
(* makes, with the values of its arguments and 0 for the missing ones, for *)
(* every size of the buffer, every symbol table and every line that spells *)
(* a call, whatever earlier lines have left in the buffer behind it.       *)
(***************************************************************************)
THEOREM RunsTheCallTyped == Spec => RunsWhatWasTyped
<1>1. ASSUME ShellInv, Terminated, [Next]_vars
      PROVE  [\A call \in Calls :
                 (~mixed /\ typed = Unparse(call) /\ typed' = <<>>) =>
                    ran' = [name |-> call.name, args |-> call.values]]_vars
  BY <1>1, EnterRuns
<1> QED
  BY <1>1, ShellInvariant, AlwaysTerminated, PTL DEF Spec, RunsWhatWasTyped
=============================================================================
