------------------------------ MODULE Keyboard ------------------------------
(***************************************************************************)
(* Keyboard input, kern/io/keyboard.c: the reader in keyboard_getchar, the *)
(* handler of IRQ1 that may run between any two of its steps, and the BIOS *)
(* calls (kern/sys/bios.S) other code makes while nobody reads, which      *)
(* reset the interrupt controller and throw a scancode away.               *)
(*                                                                         *)
(* The hardware is external: keys, the keyboard controller with one byte   *)
(* for the kernel to read and a queue behind it, one pending bit for IRQ1, *)
(* and the timer, whose interrupts wake the processor too.                 *)
(***************************************************************************)
EXTENDS Integers, SequencesExt

CONSTANTS
    Keys,           \* the keys of the keyboard
    ShiftKeys,      \* those of them that shift: "lshift", "rshift"
    MaxEvents,      \* bound on key presses and releases
    MaxBiosCalls    \* bound on BIOS calls

ASSUME KeyboardAssumption ==
    /\ Keys # {} /\ ShiftKeys \subseteq Keys /\ ShiftKeys \subseteq {"lshift", "rshift"}
    /\ MaxEvents \in Nat /\ MaxBiosCalls \in Nat

VARIABLES
    held,           \* hardware: the keys that are down
    queue,          \* hardware: scancodes the controller keeps back
    port,           \* hardware: the byte at port 0x60
    full,           \* hardware: that byte has not been read
    irq,            \* hardware: IRQ1 is pending
    enabled,        \* the processor takes interrupts
    available,      \* keyboard.c: a scancode waits
    shift,          \* keyboard.c: shift is down
    raw,            \* keyboard.c: raw_code of the reader
    pc,             \* the reader's next step, and "bios..." in a BIOS call
    chars,          \* ghost: what keyboard_getchar returned
    typed,          \* ghost: what was typed, each letter with the state of shift
    events, calls   \* how many key events and BIOS calls there were

hardware == <<held, queue, port, full, irq>>
ghosts == <<chars, typed, events, calls>>
vars == <<hardware, enabled, available, shift, raw, pc, ghosts>>

\* A scancode: a key and whether it went down.
Scancode(k, down) == [key |-> k, down |-> down]
Scancodes == [key : Keys, down : BOOLEAN]

Letters == Keys \ ShiftKeys

Readers == {"away", "test", "halt", "asleep", "clear", "read", "convert"}
Callers == {"bios", "bios_drain", "bios_return"}

TypeOK ==
    /\ held \subseteq Keys
    /\ queue \in Seq(Scancodes)
    /\ port \in Scancodes /\ raw \in Scancodes
    /\ full \in BOOLEAN /\ irq \in BOOLEAN
    /\ enabled \in BOOLEAN /\ available \in BOOLEAN /\ shift \in BOOLEAN
    /\ pc \in Readers \cup Callers
    /\ chars \in Seq(Letters \X BOOLEAN) /\ typed \in Seq(Letters \X BOOLEAN)
    /\ events \in 0 .. MaxEvents
    /\ calls \in 0 .. MaxBiosCalls

Init ==
    /\ held = {} /\ queue = <<>> /\ full = FALSE /\ irq = FALSE
    /\ port = Scancode(CHOOSE k \in Keys : TRUE, FALSE) /\ raw = port
    /\ enabled = TRUE /\ available = FALSE /\ shift = FALSE
    /\ pc = "away"
    /\ chars = <<>> /\ typed = <<>> /\ events = 0 /\ calls = 0
----------------------------------------------------------------------------
(* The hardware. *)

\* Somebody presses or releases a key.
KeyEvent ==
    /\ events < MaxEvents
    /\ events' = events + 1
    /\ \E k \in Keys :
        /\ queue' = Append(queue, Scancode(k, k \notin held))
        /\ held' = IF k \in held THEN held \ {k} ELSE held \cup {k}
        /\ typed' = IF k \in held \cup ShiftKeys THEN typed
                    ELSE Append(typed, <<k, held \cap ShiftKeys # {}>>)
    /\ UNCHANGED <<port, full, irq, enabled, available, shift, raw, pc, chars, calls>>

\* The controller offers the next scancode once the last one was read.
Offer ==
    /\ ~full /\ queue # <<>>
    /\ port' = Head(queue) /\ queue' = Tail(queue)
    /\ full' = TRUE /\ irq' = TRUE
    /\ UNCHANGED <<held, enabled, available, shift, raw, pc, ghosts>>

\* Mutation: keyboard_poll_scancode tests available once.
Woken_If == IF pc = "asleep" THEN "clear" ELSE pc

\* An interrupt ends hlt.
Woken == IF pc = "asleep" THEN "test" ELSE pc

\* Mutation: the handler does nothing.
HandleIrq_Silent ==
    /\ enabled /\ irq
    /\ irq' = FALSE
    /\ pc' = Woken
    /\ UNCHANGED <<held, queue, port, full, enabled, available, shift, raw, ghosts>>

\* IRQ1: keyboard_handle_irq.
HandleIrq ==
    /\ enabled /\ irq
    /\ irq' = FALSE
    /\ available' = TRUE
    /\ pc' = Woken
    /\ UNCHANGED <<held, queue, port, full, enabled, shift, raw, ghosts>>

\* IRQ0 finds a halted processor.
Timer ==
    /\ enabled /\ pc = "asleep"
    /\ pc' = Woken
    /\ UNCHANGED <<hardware, enabled, available, shift, raw, ghosts>>

----------------------------------------------------------------------------
(* The reader: keyboard_getchar with retry, around keyboard_poll_scancode. *)

CallGetchar ==
    /\ pc = "away"
    /\ pc' = "test"
    /\ UNCHANGED <<hardware, enabled, available, shift, raw, ghosts>>

\* while (!available)
Test ==
    /\ pc = "test"
    /\ pc' = IF available THEN "clear" ELSE "halt"
    /\ UNCHANGED <<hardware, enabled, available, shift, raw, ghosts>>

\* hlt(): an interrupt that came after the test has gone by.
Halt ==
    /\ pc = "halt"
    /\ pc' = "asleep"
    /\ UNCHANGED <<hardware, enabled, available, shift, raw, ghosts>>

\* Mutation: available is never reset.
Clear_Forgotten ==
    /\ pc = "clear"
    /\ pc' = "read"
    /\ UNCHANGED <<hardware, enabled, available, shift, raw, ghosts>>

\* available = 0
Clear ==
    /\ pc = "clear"
    /\ available' = FALSE
    /\ pc' = "read"
    /\ UNCHANGED <<hardware, enabled, shift, raw, ghosts>>

\* inb(KB_REG_DATA), which returns the last byte again when there is no new one.
Read ==
    /\ pc = "read"
    /\ raw' = port
    /\ full' = FALSE
    /\ pc' = "convert"
    /\ UNCHANGED <<held, queue, port, irq, enabled, available, shift, ghosts>>

\* A make code of a shift key sets shift; of the break codes only that of the left
\* one is tested, twice.
ShiftAfter ==
    IF raw.down THEN TRUE
    ELSE IF raw.key = "lshift" THEN FALSE
    ELSE shift

\* keyboard_convert_scancode has a letter for this code.
Letter(code) == code.key \in Letters /\ code.down

\* A letter is returned to the caller, with what shift makes of it; for anything
\* else the reader waits again.
Convert ==
    /\ pc = "convert"
    /\ shift' = IF raw.key \in ShiftKeys THEN ShiftAfter ELSE shift
    /\ IF Letter(raw)
       THEN chars' = Append(chars, <<raw.key, shift>>) /\ pc' = "away"
       ELSE pc' = "test" /\ UNCHANGED chars
    /\ UNCHANGED <<hardware, enabled, available, raw, typed, events, calls>>

Reader == CallGetchar \/ Test \/ Halt \/ Clear \/ Read \/ Convert
----------------------------------------------------------------------------
(* A BIOS call by other code.  Inside it the controller's interrupts lead to *)
(* nothing.                                                                  *)

\* cli, and into real mode
BiosCall ==
    /\ pc = "away" /\ calls < MaxBiosCalls
    /\ calls' = calls + 1
    /\ enabled' = FALSE
    /\ pc' = "bios"
    /\ UNCHANGED <<hardware, available, shift, raw, chars, typed, events>>

\* interrupts_pic_init forgets what is pending.
ResetPic ==
    /\ pc = "bios"
    /\ irq' = FALSE
    /\ pc' = "bios_drain"
    /\ UNCHANGED <<held, queue, port, full, enabled, available, shift, raw, ghosts>>

\* Mutation: the port is not read.
Drain_None ==
    /\ pc = "bios_drain"
    /\ pc' = "bios_return"
    /\ UNCHANGED <<hardware, enabled, available, shift, raw, ghosts>>

\* in $0x60, %al
Drain ==
    /\ pc = "bios_drain"
    /\ full' = FALSE
    /\ pc' = "bios_return"
    /\ UNCHANGED <<held, queue, port, irq, enabled, available, shift, raw, ghosts>>

\* Mutation: saved_if is a zero.
SavedIf_Zero == {0}

\* What saved_if can hold.  It is %al as bios_interrupt leaves it, where the compiler
\* has put the argument to push it: the number of the BIOS interrupt, 0x10, 0x13 or
\* 0x15, and nothing of the flags.
SavedIf == {16, 19, 21}

\* set_if(saved_if)
BiosReturn ==
    /\ pc = "bios_return"
    /\ \E flag \in SavedIf : enabled' = (flag # 0)
    /\ pc' = "away"
    /\ UNCHANGED <<hardware, available, shift, raw, ghosts>>

Bios == BiosCall \/ ResetPic \/ Drain \/ BiosReturn
----------------------------------------------------------------------------
Next == KeyEvent \/ Offer \/ HandleIrq \/ Timer \/ Reader \/ Bios

\* The controller, the interrupts and the timer go on, and so does the kernel,
\* which comes back to reading; nobody has to press a key.
Spec ==
    /\ Init /\ [][Next]_vars
    /\ WF_vars(Offer) /\ WF_vars(HandleIrq) /\ WF_vars(Timer)
    /\ WF_vars(Reader) /\ WF_vars(ResetPic \/ Drain \/ BiosReturn)
----------------------------------------------------------------------------
(***************************************************************************)
(* Properties.                                                             *)
(***************************************************************************)

\* A byte that waits is never overlooked: its interrupt is pending, or available
\* is set, or the reader is about to fetch it, whatever interrupt came between
\* any two steps, and after every BIOS call.
FullIsNoticed == enabled /\ full => irq \/ available \/ pc = "read"

\* Unless BIOS calls took a byte away, the reader never fetches a byte twice.
NoStaleRead == calls = 0 /\ pc = "read" => full

\* Interrupts between any two steps of the reader make it miss no byte and fetch none twice.
BytesNoticedOnce == FullIsNoticed /\ NoStaleRead

\* Letters are returned in the order they were typed in, none twice and none left
\* out, each as shift was when its key went down.
CharsInOrder == calls = 0 => IsPrefix(chars, typed)

\* Every letter typed is returned in the end: the interrupt that comes between
\* the test of available and hlt is made up for by the timer.
AllDelivered ==
    \A n \in 1 .. MaxEvents : Len(typed) >= n ~> Len(chars) >= n \/ calls > 0

\* A reader does not wait forever while the controller has a byte for it, BIOS
\* calls or not.
WaiterNotDeaf == full ~> ~full

============================================================================
