--------------------------- MODULE KeyboardProofs ---------------------------
(***************************************************************************)
(* Proofs about keyboard input, for any keys and any number of key events  *)
(* and BIOS calls.  What the handler of IRQ1 does between two steps of the *)
(* reader is harmless because of how available, the pending interrupt and  *)
(* the byte in the controller hang together at each of the reader's steps. *)
(* The order of the letters is an invariant about the codes under way:     *)
(* when the reader is through with them, it has returned what was typed.   *)
(***************************************************************************)
EXTENDS Keyboard, NumberLemmas, SequenceTheorems, TLAPS

\* Interrupts are off just inside a BIOS call.
InterruptsOff == ~enabled <=> pc \in Callers

\* Once the BIOS call has read the port, a byte that waits has its interrupt.
Handover == pc = "bios_return" /\ full => irq \/ available

\* Before the first BIOS call the flag and the pending interrupt both stand for
\* the byte in the controller, one after the other.
InStep ==
    calls = 0 =>
        /\ pc \notin Callers
        /\ available => full
        /\ irq => full /\ ~available /\ pc # "read"
        /\ pc = "clear" => available
        /\ pc = "read" => full /\ ~available

IInv == TypeOK /\ FullIsNoticed /\ InterruptsOff /\ Handover /\ InStep
----------------------------------------------------------------------------
(* The keyboard starts at rest. *)
LEMMA InitInv ==
    ASSUME Init
    PROVE  IInv
<1>1. (CHOOSE k \in Keys : TRUE) \in Keys
  BY KeyboardAssumption
<1>2. port \in Scancodes
  BY <1>1 DEF Init, Scancode, Scancodes
<1>3. TypeOK
  <2>1. events \in 0 .. MaxEvents /\ calls \in 0 .. MaxBiosCalls
    BY KeyboardAssumption DEF Init
  <2>2. queue \in Seq(Scancodes) /\ chars \in Seq(Letters \X BOOLEAN)
        /\ typed \in Seq(Letters \X BOOLEAN)
    BY DEF Init
  <2>3. raw \in Scancodes
    BY <1>2 DEF Init
  <2>. QED
    BY <1>2, <2>1, <2>2, <2>3 DEF Init, TypeOK, Readers
<1>. QED
  BY <1>3 DEF Init, IInv, FullIsNoticed, InterruptsOff, Handover, InStep, Callers

(* The keys and the controller keep the invariant. *)
LEMMA HardwareInv ==
    ASSUME IInv, KeyEvent \/ Offer
    PROVE  IInv'
<1>1. CASE KeyEvent
  <2>1. PICK k \in Keys :
          /\ queue' = Append(queue, Scancode(k, k \notin held))
          /\ held' = IF k \in held THEN held \ {k} ELSE held \cup {k}
          /\ typed' = IF k \in held \cup ShiftKeys THEN typed
                      ELSE Append(typed, <<k, held \cap ShiftKeys # {}>>)
    BY <1>1 DEF KeyEvent
  <2>2. queue' \in Seq(Scancodes)
    BY <2>1 DEF IInv, TypeOK, Scancode, Scancodes
  <2>3. typed' \in Seq(Letters \X BOOLEAN)
    <3>1. CASE k \in held \cup ShiftKeys
      BY <2>1, <3>1 DEF IInv, TypeOK
    <3>2. CASE k \notin held \cup ShiftKeys
      <4>1. <<k, held \cap ShiftKeys # {}>> \in Letters \X BOOLEAN
        BY <3>2 DEF Letters
      <4>. QED
        BY <2>1, <3>2, <4>1 DEF IInv, TypeOK
    <3>. QED
      BY <3>1, <3>2
  <2>4. held' \subseteq Keys /\ events' \in 0 .. MaxEvents
    BY <1>1, <2>1, KeyboardAssumption DEF KeyEvent, IInv, TypeOK
  <2>5. UNCHANGED <<port, full, irq, enabled, available, shift, raw, pc, chars, calls>>
    BY <1>1 DEF KeyEvent
  <2>. QED
    BY <2>2, <2>3, <2>4, <2>5
       DEF IInv, TypeOK, FullIsNoticed, InterruptsOff, Handover, InStep
<1>2. CASE Offer
  <2>1. queue' \in Seq(Scancodes) /\ port' \in Scancodes
    BY <1>2 DEF Offer, IInv, TypeOK
  <2>. QED
    BY <1>2, <2>1
       DEF Offer, ghosts, IInv, TypeOK, FullIsNoticed, InterruptsOff, Handover, InStep
<1>. QED
  BY <1>1, <1>2

(* An interrupt keeps the invariant, whatever step of the reader it comes before. *)
LEMMA InterruptInv ==
    ASSUME IInv, HandleIrq \/ Timer
    PROVE  IInv'
<1>1. CASE HandleIrq
  BY <1>1 DEF HandleIrq, Woken, ghosts, IInv, TypeOK, FullIsNoticed, InterruptsOff,
              Handover, InStep, Readers, Callers
<1>2. CASE Timer
  BY <1>2 DEF Timer, Woken, hardware, ghosts, IInv, TypeOK, FullIsNoticed, InterruptsOff,
              Handover, InStep, Readers, Callers
<1>. QED
  BY <1>1, <1>2

(* Each step of keyboard_getchar keeps the invariant. *)
LEMMA ReaderInv ==
    ASSUME IInv, Reader
    PROVE  IInv'
<1>. USE DEF hardware, ghosts, IInv, TypeOK, FullIsNoticed, InterruptsOff, Handover, InStep,
             Readers, Callers
<1>1. CASE CallGetchar
  BY <1>1 DEF CallGetchar
<1>2. CASE Test
  BY <1>2 DEF Test
<1>3. CASE Halt
  BY <1>3 DEF Halt
<1>4. CASE Clear
  BY <1>4 DEF Clear
<1>5. CASE Read
  BY <1>5 DEF Read
<1>6. CASE Convert
  <2>1. chars' \in Seq(Letters \X BOOLEAN)
    <3>1. CASE Letter(raw)
      <4>1. <<raw.key, shift>> \in Letters \X BOOLEAN
        BY <3>1 DEF Letter
      <4>2. chars' = Append(chars, <<raw.key, shift>>) /\ chars \in Seq(Letters \X BOOLEAN)
        BY <1>6, <3>1 DEF Convert
      <4>. DEFINE c == <<raw.key, shift>>
      <4>. HIDE DEF c
      <4>3. c \in Letters \X BOOLEAN
        BY <4>1 DEF c
      <4>4. chars' = Append(chars, c)
        BY <4>2 DEF c
      <4>. QED
        BY <4>2, <4>3, <4>4
    <3>2. CASE ~Letter(raw)
      BY <1>6, <3>2 DEF Convert
    <3>. QED
      BY <3>1, <3>2
  <2>2. shift' \in BOOLEAN
    BY <1>6 DEF Convert, ShiftAfter
  <2>3. pc' \in {"away", "test"} /\ pc = "convert"
    BY <1>6 DEF Convert
  <2>4. UNCHANGED <<hardware, enabled, available, raw, typed, events, calls>>
    BY <1>6 DEF Convert
  <2>. QED
    BY <2>1, <2>2, <2>3, <2>4
<1>. QED
  BY <1>1, <1>2, <1>3, <1>4, <1>5, <1>6 DEF Reader

(* A BIOS call keeps the invariant, with interrupts anywhere around it. *)
LEMMA BiosInv ==
    ASSUME IInv, Bios
    PROVE  IInv'
<1>. USE DEF hardware, ghosts, IInv, TypeOK, FullIsNoticed, InterruptsOff, Handover, InStep,
             Readers, Callers
<1>1. CASE BiosCall
  <2>1. calls' \in 1 .. MaxBiosCalls
    BY <1>1, KeyboardAssumption DEF BiosCall
  <2>2. calls' \in 0 .. MaxBiosCalls /\ calls' # 0
    BY <2>1, KeyboardAssumption
  <2>. QED
    BY <1>1, <2>2 DEF BiosCall
<1>2. CASE ResetPic
  BY <1>2 DEF ResetPic
<1>3. CASE Drain
  BY <1>3 DEF Drain
<1>4. CASE BiosReturn
  <2>1. \A flag \in SavedIf : flag # 0
    BY DEF SavedIf
  <2>2. PICK flag \in SavedIf : enabled' = (flag # 0)
    BY <1>4, Zenon DEF BiosReturn
  <2>3. (flag # 0) = TRUE
    BY <2>1
  <2>4. enabled' = TRUE
    BY <2>2, <2>3, Zenon
  <2> QED BY <1>4, <2>4 DEF BiosReturn
<1>. QED
  BY <1>1, <1>2, <1>3, <1>4 DEF Bios

\* In every reachable state of the keyboard the inductive invariant holds.
THEOREM Invariance == Spec => []IInv
<1>1. Init => IInv
  BY InitInv
<1>2. IInv /\ [Next]_vars => IInv'
  <2>. SUFFICES ASSUME IInv, [Next]_vars PROVE IInv'
    OBVIOUS
  <2>1. CASE UNCHANGED vars
    BY <2>1 DEF vars, hardware, ghosts, IInv, TypeOK, FullIsNoticed, InterruptsOff,
                Handover, InStep
  <2>. QED
    BY <2>1, HardwareInv, InterruptInv, ReaderInv, BiosInv DEF Next
<1>. QED
  BY <1>1, <1>2, PTL DEF Spec

(* The invariant implies the state properties. *)
LEMMA IInvImplies ==
    ASSUME IInv
    PROVE  TypeOK /\ FullIsNoticed /\ NoStaleRead
BY DEF IInv, InStep, NoStaleRead

\* The variables of keyboard.c and of the hardware keep their types.
THEOREM TypeCorrect == Spec => []TypeOK
BY Invariance, IInvImplies, PTL

\* A byte in the controller is never overlooked, whatever interrupts come where, and
\* without BIOS calls none is fetched twice.
THEOREM NoticeCorrect == Spec => []BytesNoticedOnce
<1>1. IInv => BytesNoticedOnce
  BY IInvImplies DEF BytesNoticedOnce
<1>. QED
  BY <1>1, Invariance, PTL

(***************************************************************************)
(* The order of the letters.                                               *)
(***************************************************************************)

\* The release of the right shift key is not tested for: with that key a letter may be
\* returned as shifted when no shift key is down.
LeftShiftOnly == ShiftKeys \subseteq {"lshift"}

\* The scancodes under way: with the reader, in the controller, behind it.
InTransit ==
    (IF pc = "convert" THEN <<raw>> ELSE <<>>) \o (IF full THEN <<port>> ELSE <<>>) \o queue

\* What the reader makes of a code: shift and the letters after it.
ShiftBy(code, s) ==
    IF code.key \notin ShiftKeys THEN s
    ELSE IF code.down THEN TRUE ELSE IF code.key = "lshift" THEN FALSE ELSE s
CharsBy(code, s, c) == IF Letter(code) THEN Append(c, <<code.key, s>>) ELSE c

\* S and C are shift and the letters returned, as they will be after each code of w.
Replay(w, S, C) ==
    \A i \in 1 .. Len(w) : S[i] = ShiftBy(w[i], S[i - 1]) /\ C[i] = CharsBy(w[i], S[i - 1], C[i - 1])

ShiftDown == held \cap ShiftKeys # {}

\* The reader will have returned what was typed when it is through with the codes under way.
CatchesUp ==
    calls = 0 =>
        \E S, C : /\ S[0] = shift /\ C[0] = chars
                  /\ Replay(InTransit, S, C)
                  /\ S[Len(InTransit)] = ShiftDown /\ C[Len(InTransit)] = typed

(* The codes under way are a sequence of codes. *)
LEMMA TransitType ==
    ASSUME TypeOK
    PROVE  InTransit \in Seq(Scancodes)
<1> DEFINE a == IF pc = "convert" THEN <<raw>> ELSE <<>>
           b == IF full THEN <<port>> ELSE <<>>
<1>1. a \in Seq(Scancodes) /\ b \in Seq(Scancodes) /\ queue \in Seq(Scancodes)
  BY DEF TypeOK
<1> HIDE DEF a, b
<1>2. a \o b \o queue \in Seq(Scancodes)
  BY <1>1
<1> QED BY <1>2 DEF InTransit, a, b

(* One code more. *)
LEMMA ReplayMore ==
    ASSUME NEW w \in Seq(Scancodes), NEW code \in Scancodes, NEW S, NEW C, Replay(w, S, C)
    PROVE  \E S2, C2 :
              /\ S2[0] = S[0] /\ C2[0] = C[0]
              /\ Replay(Append(w, code), S2, C2)
              /\ S2[Len(w) + 1] = ShiftBy(code, S[Len(w)])
              /\ C2[Len(w) + 1] = CharsBy(code, S[Len(w)], C[Len(w)])
<1> DEFINE n == Len(w)
           S2 == [i \in 0 .. n + 1 |-> IF i <= n THEN S[i] ELSE ShiftBy(code, S[n])]
           C2 == [i \in 0 .. n + 1 |-> IF i <= n THEN C[i] ELSE CharsBy(code, S[n], C[n])]
           v == Append(w, code)
<1>1. n \in Nat /\ Len(v) = n + 1 /\ v[n + 1] = code /\ \A i \in 1 .. n : v[i] = w[i]
  OBVIOUS
<1>2. /\ \A i \in 0 .. n : S2[i] = S[i] /\ C2[i] = C[i]
      /\ S2[n + 1] = ShiftBy(code, S[n]) /\ C2[n + 1] = CharsBy(code, S[n], C[n])
  BY <1>1
<1> HIDE DEF S2, C2, v, n
<1>3. ASSUME NEW i \in 1 .. n + 1
      PROVE  S2[i] = ShiftBy(v[i], S2[i - 1]) /\ C2[i] = CharsBy(v[i], S2[i - 1], C2[i - 1])
  <2>1. CASE i = n + 1
    <3>1. i - 1 = n /\ n \in 0 .. n
      BY <1>1, <2>1
    <3> QED BY <1>1, <1>2, <2>1, <3>1
  <2>2. CASE i \in 1 .. n
    <3>1. i \in 0 .. n /\ i - 1 \in 0 .. n
      BY <1>1, <2>2
    <3>2. S[i] = ShiftBy(w[i], S[i - 1]) /\ C[i] = CharsBy(w[i], S[i - 1], C[i - 1])
      BY <2>2 DEF Replay, n
    <3> QED BY <1>1, <1>2, <2>2, <3>1, <3>2
  <2> QED BY <1>1, <2>1, <2>2
<1>4. Replay(v, S2, C2)
  BY <1>1, <1>3 DEF Replay
<1> QED BY <1>1, <1>2, <1>4 DEF v, n

(* One code less. *)
LEMMA ReplayLess ==
    ASSUME NEW w \in Seq(Scancodes), w # <<>>, NEW S, NEW C, Replay(w, S, C)
    PROVE  \E S2, C2 :
              /\ S2[0] = ShiftBy(w[1], S[0]) /\ C2[0] = CharsBy(w[1], S[0], C[0])
              /\ Replay(Tail(w), S2, C2)
              /\ S2[Len(Tail(w))] = S[Len(w)] /\ C2[Len(Tail(w))] = C[Len(w)]
<1> DEFINE n == Len(w) - 1
           S2 == [i \in 0 .. n |-> S[i + 1]]
           C2 == [i \in 0 .. n |-> C[i + 1]]
           v == Tail(w)
<1>1. n \in Nat /\ Len(w) = n + 1 /\ Len(v) = n /\ \A i \in 1 .. n : v[i] = w[i + 1]
  OBVIOUS
<1>2. \A i \in 0 .. n : S2[i] = S[i + 1] /\ C2[i] = C[i + 1]
  BY <1>1
<1>3. \A i \in 1 .. n + 1 : S[i] = ShiftBy(w[i], S[i - 1]) /\ C[i] = CharsBy(w[i], S[i - 1], C[i - 1])
  BY <1>1 DEF Replay
<1> HIDE DEF S2, C2, v, n
<1>4. S2[0] = ShiftBy(w[1], S[0]) /\ C2[0] = CharsBy(w[1], S[0], C[0])
  <2>1. 0 \in 0 .. n /\ 1 \in 1 .. n + 1 /\ 0 + 1 = 1 /\ 1 - 1 = 0
    BY <1>1
  <2>2. S2[0] = S[1] /\ C2[0] = C[1]
    BY <1>2, <2>1
  <2>3. S[1] = ShiftBy(w[1], S[1 - 1]) /\ C[1] = CharsBy(w[1], S[1 - 1], C[1 - 1])
    BY <1>3, <2>1
  <2> QED BY <2>1, <2>2, <2>3
<1>5. ASSUME NEW i \in 1 .. n
      PROVE  S2[i] = ShiftBy(v[i], S2[i - 1]) /\ C2[i] = CharsBy(v[i], S2[i - 1], C2[i - 1])
  <2>1. i \in 0 .. n /\ i - 1 \in 0 .. n /\ i - 1 + 1 = i /\ i + 1 \in 1 .. n + 1 /\ i + 1 - 1 = i
    BY <1>1
  <2>2. /\ S[i + 1] = ShiftBy(w[i + 1], S[i + 1 - 1])
        /\ C[i + 1] = CharsBy(w[i + 1], S[i + 1 - 1], C[i + 1 - 1])
    BY <1>3, <2>1
  <2>3. S2[i] = S[i + 1] /\ C2[i] = C[i + 1] /\ S2[i - 1] = S[i] /\ C2[i - 1] = C[i] /\ v[i] = w[i + 1]
    BY <1>1, <1>2, <2>1
  <2> QED BY <2>1, <2>2, <2>3
<1>6. Replay(v, S2, C2)
  BY <1>1, <1>5 DEF Replay
<1>7. S2[n] = S[n + 1] /\ C2[n] = C[n + 1]
  BY <1>1, <1>2
<1> QED BY <1>1, <1>4, <1>6, <1>7 DEF v

(* What is returned later comes behind what was returned before. *)
LEMMA ReplayGrows ==
    ASSUME NEW w \in Seq(Scancodes), NEW S, NEW C, Replay(w, S, C),
           S[0] \in BOOLEAN, C[0] \in Seq(Letters \X BOOLEAN)
    PROVE  IsPrefix(C[0], C[Len(w)])
<1> DEFINE R == Letters \X BOOLEAN
           Grown(i) == /\ S[i] \in BOOLEAN /\ C[i] \in Seq(R)
                       /\ Len(C[0]) <= Len(C[i])
                       /\ \A j \in 1 .. Len(C[0]) : C[i][j] = C[0][j]
           Good == {i \in Nat : i <= Len(w) => Grown(i)}
<1>1. 0 \in Good
  OBVIOUS
<1>2. ASSUME NEW i \in Nat, i \in Good PROVE i + 1 \in Good
  <2> SUFFICES ASSUME i + 1 <= Len(w) PROVE Grown(i + 1)
    OBVIOUS
  <2>1. Len(w) \in Nat /\ i + 1 \in 1 .. Len(w) /\ i + 1 - 1 = i /\ i <= Len(w)
    OBVIOUS
  <2>2. Grown(i)
    BY <1>2, <2>1
  <2>3. S[i + 1] = ShiftBy(w[i + 1], S[i]) /\ C[i + 1] = CharsBy(w[i + 1], S[i], C[i])
    BY <2>1 DEF Replay
  <2>4. w[i + 1] \in Scancodes
    BY <2>1
  <2>5. S[i + 1] \in BOOLEAN
    BY <2>2, <2>3 DEF ShiftBy
  <2>6. CASE Letter(w[i + 1])
    <3> DEFINE c == <<w[i + 1].key, S[i]>>
    <3>1. c \in R /\ C[i + 1] = Append(C[i], c)
      BY <2>2, <2>3, <2>6 DEF Letter, CharsBy
    <3> HIDE DEF c, R
    <3>2. C[i] \in Seq(R) /\ C[0] \in Seq(R)
      BY <2>2 DEF R
    <3>3. C[i + 1] \in Seq(R) /\ Len(C[i + 1]) = Len(C[i]) + 1 /\ \A j \in 1 .. Len(C[i]) : C[i + 1][j] = C[i][j]
      BY <3>1, <3>2
    <3>4. Len(C[0]) \in Nat /\ Len(C[i]) \in Nat
      BY <3>2
    <3> QED BY <2>2, <2>5, <3>3, <3>4
  <2>7. CASE ~Letter(w[i + 1])
    BY <2>2, <2>3, <2>5, <2>7 DEF CharsBy
  <2> QED BY <2>6, <2>7
<1>3. Grown(Len(w))
  <2>1. Len(w) \in Nat /\ Len(w) <= Len(w)
    OBVIOUS
  <2> HIDE DEF Good
  <2>2. Len(w) \in Good
    BY <1>1, <1>2, <2>1, Induction
  <2> QED BY <2>1, <2>2 DEF Good
<1> HIDE DEF R
<1>4. C[0] \in Seq(R) /\ C[Len(w)] \in Seq(R)
  BY <1>3 DEF R
<1>5. SubSeq(C[0], 1, Len(C[0])) = SubSeq(C[Len(w)], 1, Len(C[0]))
  BY <1>3, <1>4
<1> QED BY <1>3, <1>5 DEF IsPrefix

(* A step that changes neither what is under way nor what was typed or returned. *)
LEMMA CatchUpUnchanged ==
    ASSUME CatchesUp, InTransit' = InTransit, UNCHANGED <<shift, chars, held, typed, calls>>
    PROVE  CatchesUp'
BY DEF CatchesUp, Replay, ShiftDown

(* A key event: one code more, which leads to what was typed. *)
LEMMA KeyEventCatchUp ==
    ASSUME LeftShiftOnly, IInv, CatchesUp, KeyEvent
    PROVE  CatchesUp'
<1> SUFFICES ASSUME calls = 0
             PROVE  \E S, C : /\ S[0] = shift' /\ C[0] = chars'
                              /\ Replay(InTransit', S, C)
                              /\ S[Len(InTransit')] = ShiftDown' /\ C[Len(InTransit')] = typed'
  <2>1. calls' = calls
    BY DEF KeyEvent
  <2> QED BY <2>1 DEF CatchesUp
<1>1. PICK k \in Keys :
          /\ queue' = Append(queue, Scancode(k, k \notin held))
          /\ held' = IF k \in held THEN held \ {k} ELSE held \cup {k}
          /\ typed' = IF k \in held \cup ShiftKeys THEN typed
                      ELSE Append(typed, <<k, ShiftDown>>)
  BY DEF KeyEvent, ShiftDown
<1>2. UNCHANGED <<port, full, shift, raw, pc, chars>>
  BY DEF KeyEvent
<1> DEFINE code == Scancode(k, k \notin held)
           w == InTransit
<1>3. code \in Scancodes /\ code.key = k /\ code.down = (k \notin held)
  BY DEF Scancode, Scancodes
<1>4. w \in Seq(Scancodes)
  BY TransitType DEF IInv
<1>5. InTransit' = Append(w, code)
  <2> DEFINE a == (IF pc = "convert" THEN <<raw>> ELSE <<>>) \o (IF full THEN <<port>> ELSE <<>>)
  <2>1. a \in Seq(Scancodes) /\ queue \in Seq(Scancodes)
    <3>1. (IF pc = "convert" THEN <<raw>> ELSE <<>>) \in Seq(Scancodes)
      BY DEF IInv, TypeOK
    <3>2. (IF full THEN <<port>> ELSE <<>>) \in Seq(Scancodes)
      BY DEF IInv, TypeOK
    <3> QED BY <3>1, <3>2 DEF IInv, TypeOK
  <2>2. InTransit' = a \o Append(queue, code) /\ w = a \o queue
    BY <1>1, <1>2 DEF InTransit
  <2> HIDE DEF a, code, w
  <2> QED BY <1>3, <2>1, <2>2, AppendAtEnd
<1>6. PICK S, C : /\ S[0] = shift /\ C[0] = chars /\ Replay(w, S, C)
                  /\ S[Len(w)] = ShiftDown /\ C[Len(w)] = typed
  BY DEF CatchesUp
<1> HIDE DEF w, code
<1>7. PICK S2, C2 :
          /\ S2[0] = S[0] /\ C2[0] = C[0]
          /\ Replay(Append(w, code), S2, C2)
          /\ S2[Len(w) + 1] = ShiftBy(code, S[Len(w)])
          /\ C2[Len(w) + 1] = CharsBy(code, S[Len(w)], C[Len(w)])
  BY <1>3, <1>4, <1>6, ReplayMore
<1>8. Len(Append(w, code)) = Len(w) + 1
  BY <1>3, <1>4
<1>9. ShiftBy(code, ShiftDown) = ShiftDown'
  <2>1. ShiftKeys \subseteq {"lshift"}
    BY DEF LeftShiftOnly
  <2>2. CASE k \notin ShiftKeys
    <3>1. ShiftDown' = ShiftDown
      BY <1>1, <2>2 DEF ShiftDown
    <3> QED BY <1>3, <2>2, <3>1 DEF ShiftBy
  <2>3. CASE k \in ShiftKeys /\ k \in held
    <3>1. ShiftDown' = FALSE
      BY <1>1, <2>1, <2>3 DEF ShiftDown
    <3> QED BY <1>3, <2>1, <2>3, <3>1 DEF ShiftBy
  <2>4. CASE k \in ShiftKeys /\ k \notin held
    <3>1. ShiftDown' = TRUE
      BY <1>1, <2>4 DEF ShiftDown
    <3> QED BY <1>3, <2>4, <3>1 DEF ShiftBy
  <2> QED BY <2>2, <2>3, <2>4
<1>10. CharsBy(code, ShiftDown, typed) = typed'
  <2>1. Letter(code) <=> k \notin held \cup ShiftKeys
    BY <1>3 DEF Letter, Letters
  <2> QED BY <1>1, <1>3, <2>1 DEF CharsBy
<1> QED BY <1>2, <1>5, <1>6, <1>7, <1>8, <1>9, <1>10

(* The reader converts the oldest code under way. *)
LEMMA ConvertCatchUp ==
    ASSUME IInv, CatchesUp, Convert
    PROVE  CatchesUp'
<1> SUFFICES ASSUME calls = 0
             PROVE  \E S, C : /\ S[0] = shift' /\ C[0] = chars'
                              /\ Replay(InTransit', S, C)
                              /\ S[Len(InTransit')] = ShiftDown' /\ C[Len(InTransit')] = typed'
  <2>1. calls' = calls
    BY DEF Convert
  <2> QED BY <2>1 DEF CatchesUp
<1> DEFINE w == InTransit
<1>1. w \in Seq(Scancodes)
  BY TransitType DEF IInv
<1>2. w # <<>> /\ w[1] = raw /\ InTransit' = Tail(w)
  <2> DEFINE b == (IF full THEN <<port>> ELSE <<>>)
  <2>1. b \in Seq(Scancodes) /\ queue \in Seq(Scancodes) /\ raw \in Scancodes
    BY DEF IInv, TypeOK
  <2>2. w = <<raw>> \o b \o queue
    BY DEF Convert, InTransit
  <2>3. InTransit' = <<>> \o b \o queue
    BY DEF Convert, InTransit, hardware
  <2> HIDE DEF b, w
  <2>4. b \o queue \in Seq(Scancodes) /\ <<raw>> \in Seq(Scancodes)
    BY <2>1
  <2>5. w = <<raw>> \o (b \o queue) /\ InTransit' = b \o queue
    BY <2>1, <2>2, <2>3
  <2> QED BY <2>1, <2>4, <2>5
<1>3. PICK S, C : /\ S[0] = shift /\ C[0] = chars /\ Replay(w, S, C)
                  /\ S[Len(w)] = ShiftDown /\ C[Len(w)] = typed
  BY DEF CatchesUp
<1> HIDE DEF w
<1>4. PICK S2, C2 :
          /\ S2[0] = ShiftBy(w[1], S[0]) /\ C2[0] = CharsBy(w[1], S[0], C[0])
          /\ Replay(Tail(w), S2, C2)
          /\ S2[Len(Tail(w))] = S[Len(w)] /\ C2[Len(Tail(w))] = C[Len(w)]
  BY <1>1, <1>2, <1>3, ReplayLess
<1>5. shift' = ShiftBy(raw, shift) /\ chars' = CharsBy(raw, shift, chars)
  BY DEF Convert, ShiftAfter, ShiftBy, CharsBy
<1>6. ShiftDown' = ShiftDown /\ typed' = typed
  BY DEF Convert, hardware, ShiftDown
<1> QED BY <1>2, <1>3, <1>4, <1>5, <1>6

(* The byte moves from the queue to the port, and from the port to the reader. *)
LEMMA MoveCatchUp ==
    ASSUME IInv, CatchesUp, Offer \/ Read
    PROVE  CatchesUp'
<1> DEFINE a == IF pc = "convert" THEN <<raw>> ELSE <<>>
<1>1. a \in Seq(Scancodes) /\ queue \in Seq(Scancodes) /\ port \in Scancodes
  BY DEF IInv, TypeOK
<1>2. CASE Offer
  <2>1. /\ ~full /\ full' /\ queue # <<>> /\ port' = Head(queue) /\ queue' = Tail(queue)
        /\ UNCHANGED <<pc, raw, shift, chars, held, typed, calls>>
    BY <1>2 DEF Offer, ghosts
  <2>2. InTransit = a \o <<>> \o queue /\ InTransit' = a \o <<Head(queue)>> \o Tail(queue)
    BY <2>1 DEF InTransit
  <2> HIDE DEF a
  <2>3. <<Head(queue)>> \o Tail(queue) = queue /\ Head(queue) \in Scancodes /\ Tail(queue) \in Seq(Scancodes)
    BY <1>1, <2>1
  <2>4. InTransit' = a \o (<<Head(queue)>> \o Tail(queue))
    <3>1. <<Head(queue)>> \in Seq(Scancodes)
      BY <2>3
    <3> QED BY <1>1, <2>2, <2>3, <3>1
  <2>5. InTransit' = InTransit
    BY <1>1, <2>2, <2>3, <2>4
  <2> QED BY <2>1, <2>5, CatchUpUnchanged
<1>3. CASE Read
  <2> SUFFICES ASSUME calls = 0 PROVE CatchesUp'
    BY <1>3 DEF Read, ghosts, CatchesUp
  <2>1. /\ pc = "read" /\ pc' = "convert" /\ raw' = port /\ full /\ ~full'
        /\ UNCHANGED <<queue, shift, chars, held, typed, calls>>
    BY <1>3 DEF Read, ghosts, IInv, InStep
  <2>2. InTransit = <<>> \o <<port>> \o queue /\ InTransit' = <<port>> \o <<>> \o queue
    BY <2>1 DEF InTransit
  <2>3. InTransit' = InTransit
    BY <1>1, <2>2
  <2> QED BY <2>1, <2>3, CatchUpUnchanged
<1> QED BY <1>2, <1>3

(* Every step keeps what the reader will return. *)
LEMMA NextCatchUp ==
    ASSUME LeftShiftOnly, IInv, CatchesUp, [Next]_vars
    PROVE  CatchesUp'
<1>1. CASE HandleIrq \/ Timer
  <2>1. InTransit' = InTransit /\ UNCHANGED <<shift, chars, held, typed, calls>>
    BY <1>1 DEF HandleIrq, Timer, Woken, hardware, ghosts, InTransit
  <2> QED BY <2>1, CatchUpUnchanged
<1>2. CASE CallGetchar \/ Test \/ Halt \/ Clear
  <2>1. InTransit' = InTransit /\ UNCHANGED <<shift, chars, held, typed, calls>>
    BY <1>2 DEF CallGetchar, Test, Halt, Clear, hardware, ghosts, InTransit
  <2> QED BY <2>1, CatchUpUnchanged
<1>3. CASE Bios
  <2>1. calls' # 0
    <3>1. CASE BiosCall
      <4>1. calls \in Nat
        BY KeyboardAssumption DEF IInv, TypeOK
      <4> QED BY <3>1, <4>1 DEF BiosCall
    <3>2. CASE ResetPic \/ Drain \/ BiosReturn
      BY <3>2 DEF ResetPic, Drain, BiosReturn, ghosts, IInv, InStep, Callers
    <3> QED BY <1>3, <3>1, <3>2 DEF Bios
  <2> QED BY <2>1 DEF CatchesUp
<1>4. CASE UNCHANGED vars
  <2>1. InTransit' = InTransit /\ UNCHANGED <<shift, chars, held, typed, calls>>
    BY <1>4 DEF vars, hardware, ghosts, InTransit
  <2> QED BY <2>1, CatchUpUnchanged
<1> QED BY <1>1, <1>2, <1>3, <1>4, KeyEventCatchUp, ConvertCatchUp, MoveCatchUp DEF Next, Reader

\* Without a right shift key, letters are returned in the order they were typed in, none
\* twice and none left out, each as shift was when its key went down, whatever interrupts
\* come where, as long as no BIOS call has taken a byte away.
THEOREM OrderCorrect == ASSUME LeftShiftOnly PROVE Spec => []CharsInOrder
<1>1. Init => CatchesUp
  <2> SUFFICES ASSUME Init PROVE CatchesUp
    OBVIOUS
  <2>1. InTransit = <<>> /\ shift = FALSE /\ ShiftDown = FALSE /\ chars = <<>> /\ typed = <<>>
    BY DEF Init, InTransit, ShiftDown
  <2>2. PICK S, C : S = [i \in {0} |-> FALSE] /\ C = [i \in {0} |-> <<>>]
    OBVIOUS
  <2>3. S[0] = FALSE /\ C[0] = <<>> /\ Len(InTransit) = 0 /\ Replay(InTransit, S, C)
    BY <2>1, <2>2 DEF Replay
  <2> QED BY <2>1, <2>3 DEF CatchesUp
<1>2. IInv /\ CatchesUp /\ [Next]_vars => CatchesUp'
  BY NextCatchUp
<1>3. IInv /\ CatchesUp => CharsInOrder
  <2> SUFFICES ASSUME IInv, CatchesUp, calls = 0 PROVE IsPrefix(chars, typed)
    BY DEF CharsInOrder
  <2>1. PICK S, C : /\ S[0] = shift /\ C[0] = chars /\ Replay(InTransit, S, C)
                    /\ S[Len(InTransit)] = ShiftDown /\ C[Len(InTransit)] = typed
    BY DEF CatchesUp
  <2>2. InTransit \in Seq(Scancodes) /\ shift \in BOOLEAN /\ chars \in Seq(Letters \X BOOLEAN)
    BY TransitType DEF IInv, TypeOK
  <2>3. IsPrefix(C[0], C[Len(InTransit)])
    BY <2>1, <2>2, ReplayGrows
  <2> QED BY <2>1, <2>3
<1> QED BY <1>1, <1>2, <1>3, Invariance, PTL DEF Spec
==============================================================================
