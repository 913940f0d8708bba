--------------------------- MODULE KernelProofs ---------------------------
(***************************************************************************)
(* Proofs about the kernel: Interrupts, for every set of lines, any of     *)
(* them raised at any time, and every nesting of interrupts;               *)
(* Modules, for every kernel table and every set of files whatever they    *)
(* export and ask for; Config, for all namespaces, keys, texts and room on *)
(* the heap; Numbers, for ints of every width, texts of every length and   *)
(* every base.                                                             *)
(***************************************************************************)
EXTENDS Interrupts, Modules, Config, Numbers, NumberLemmas, SequenceTheorems, TLAPS

Frames == [vec : Vectors, phase : Phases]
Hardware == {l + 32 : l \in Lines}

Typed ==
    /\ step \in 1 .. 11
    /\ ifl \in BOOLEAN /\ masked \subseteq Lines /\ irr \subseteq Lines /\ isr \subseteq Lines
    /\ bound \in [Vectors -> {NoHandler, "do_nothing", "irq0_handle", "keyboard_handle_irq"}]
    /\ ll \in [Vectors -> {NoHandler, "exception", "dump_regs", "syscall_handle"}]
    /\ stack \in Seq(Frames)
    /\ ticks \in 0 .. MaxTicks /\ hung \in BOOLEAN

\* Frames nest by priority: all but the innermost wait in their stub, and only the
\* outermost can be a software interrupt.
Nested ==
    /\ \A i \in 1 .. Len(stack) : i < Len(stack) => stack[i].phase = "stub"
    /\ \A i \in 1 .. Len(stack) : stack[i].phase # "stub" => ~ifl
    /\ \A i \in 1 .. Len(stack) : i > 1 => stack[i].vec \in Hardware
    /\ \A i, j \in 1 .. Len(stack) :
          i < j /\ stack[i].vec \in Hardware => stack[j].vec < stack[i].vec

InService ==
    \A l \in Lines :
        l \in isr <=> \E i \in 1 .. Len(stack) : stack[i].vec = l + 32 /\ stack[i].phase # "iret"

\* The innermost frame is of a line that has no handler at this step of the boot.
Unserved ==
    /\ stack # <<>> /\ stack[Len(stack)].vec \in Hardware \ {32}
    /\ stack[Len(stack)].vec = 33 => step <= 8

\* What has its handler at which step of the boot.
Served ==
    /\ step <= 4 => ~ifl
    /\ step > 2 => bound[32] # NoHandler /\ ll[3] = "dump_regs"
    /\ step > 7 => ll[128] = "syscall_handle"
    /\ step > 8 => bound[33] # NoHandler
    /\ \A i \in 1 .. Len(stack) :
          \/ stack[i].vec \in Hardware /\ step > 4
          \/ stack[i].vec \in {3, 128} /\ step = 11
    /\ hung => Unserved

IInv == Typed /\ Nested /\ InService /\ Served
------------------------------------------------------------------------------
LEMMA VectorsAre == Hardware \subseteq 32 .. 39 /\ Vectors = Hardware \cup {3, 128} /\ {32, 33} \subseteq Hardware
  BY LinesAssumption DEF Hardware, Vectors

LEMMA StepsAre ==
    /\ DOMAIN BootSteps = 1 .. 11
    /\ \A s \in 1 .. 11 :
          /\ BootSteps[s] = "disable_pic" => s = 1
          /\ BootSteps[s] = "handlers" => s = 2
          /\ BootSteps[s] = "pic_init" => s = 3
          /\ BootSteps[s] = "lidt" => s = 4
          /\ BootSteps[s] = "cli" => s = 5
          /\ BootSteps[s] = "lgdt" => s = 6
          /\ BootSteps[s] = "syscall_init" => s = 7
          /\ BootSteps[s] = "keyboard_init" => s = 8
          /\ BootSteps[s] = "ticks" => s = 9
          /\ BootSteps[s] = "irq0_handle" => s = 10
          /\ BootSteps[s] = "main" => s = 11
  BY DEF BootSteps

\* The initial state.
LEMMA Initially == ASSUME IntrInit PROVE IInv
  <1>1. stack = <<>> /\ stack \in Seq(Frames) /\ Len(stack) = 0 BY DEF IntrInit
  <1>2. Typed
    <2>1. step \in 1 .. 11 /\ ifl \in BOOLEAN /\ hung \in BOOLEAN /\ ticks \in 0 .. MaxTicks
      <3>1. step = 1 /\ ticks = 0 BY DEF IntrInit
      <3>2. ifl \in BOOLEAN /\ hung \in BOOLEAN BY DEF IntrInit
      <3>3. QED BY <3>1, <3>2, TicksAssumption
    <2>2. masked \subseteq Lines /\ irr \subseteq Lines /\ isr \subseteq Lines BY DEF IntrInit
    <2>3. bound \in [Vectors -> {NoHandler}] /\ ll \in [Vectors -> {NoHandler}] BY DEF IntrInit
    <2>4. QED BY <1>1, <2>1, <2>2, <2>3 DEF Typed
  <1>3. Nested BY <1>1 DEF Nested
  <1>4. InService BY <1>1 DEF IntrInit, InService
  <1>5. Served BY <1>1 DEF IntrInit, Served
  <1>6. QED BY <1>2, <1>3, <1>4, <1>5 DEF IInv

\* What a step of the boot leaves alone.
LEMMA BootStepIInv == ASSUME IInv, BootStep PROVE IInv'
  <1> USE DEF IInv
  <1>1. stack = <<>> /\ stack' = stack /\ ~hung /\ hung' = hung /\ step \in 1 .. 11 /\ step' = step + 1
    BY DEF BootStep, disable_pic, handlers, pic_init, syscall_init, ticks_init, FlagSet,
           register_handler, Boot, Runs, Undisturbed, Typed
  <1>2. Nested' /\ (\A l \in Lines : ~\E i \in 1 .. Len(stack) : stack[i].vec = l + 32 /\ stack[i].phase # "iret")
    BY <1>1 DEF Nested
  <1>3. isr = {} BY <1>1, <1>2 DEF InService, Typed
  <1>4. CASE disable_pic
    <2>1. Typed'
      <3>1. step' \in 1 .. 11 BY <1>1, <1>4, StepsAre DEF disable_pic, Boot, Runs
      <3>2. masked' \subseteq Lines BY <1>4 DEF disable_pic
      <3>3. ifl' \in BOOLEAN BY <1>4 DEF disable_pic
      <3>4. UNCHANGED <<irr, isr, bound, ll, ticks>> BY <1>4 DEF disable_pic
      <3>5. QED BY <1>1, <3>1, <3>2, <3>3, <3>4 DEF Typed
    <2>2. InService' BY <1>1, <1>2, <1>3, <1>4 DEF disable_pic, InService
    <2>3. Served' BY <1>1, <1>4, StepsAre DEF disable_pic, Boot, Runs, Served
    <2>4. QED BY <1>2, <2>1, <2>2, <2>3
  <1>5. CASE handlers
    BY <1>1, <1>2, <1>3, <1>5, StepsAre, VectorsAre DEF handlers, Boot, Runs, Typed, InService, Served, Bound, NoHandler
  <1>6. CASE pic_init
    BY <1>1, <1>2, <1>3, <1>6, StepsAre DEF pic_init, Boot, Runs, Typed, InService, Served
  <1>7. CASE syscall_init
    BY <1>1, <1>2, <1>3, <1>7, StepsAre, VectorsAre DEF syscall_init, Boot, Runs, Typed, InService, Served
  <1>8. CASE ticks_init
    BY <1>1, <1>2, <1>3, <1>8, StepsAre, TicksAssumption DEF ticks_init, Boot, Runs, Typed, InService, Served
  <1>9. ASSUME NEW name \in {"lidt", "cli", "lgdt"}, NEW on \in BOOLEAN, FlagSet(name, on) PROVE IInv'
    BY <1>1, <1>2, <1>3, <1>9, StepsAre DEF FlagSet, Boot, Runs, Typed, InService, Served
  <1>10. ASSUME register_handler("keyboard_init", 33, "keyboard_handle_irq") PROVE IInv'
    BY <1>1, <1>2, <1>3, <1>10, StepsAre, VectorsAre DEF register_handler, Boot, Runs, Typed, InService, Served, NoHandler
  <1>11. ASSUME register_handler("irq0_handle", 32, "irq0_handle") PROVE IInv'
    BY <1>1, <1>2, <1>3, <1>11, StepsAre, VectorsAre DEF register_handler, Boot, Runs, Typed, InService, Served, NoHandler
  <1>12. QED
    BY <1>4, <1>5, <1>6, <1>7, <1>8, <1>9, <1>10, <1>11 DEF BootStep

\* A software interrupt comes from the main program, with no frame below it.
LEMMA SoftIntIInv == ASSUME IInv, NEW v \in {3, 128}, SoftInt(v) PROVE IInv'
  <1> USE DEF IInv
  <1> DEFINE f == [vec |-> v, phase |-> "stub"]
  <1>1. f \in Frames /\ f.vec = v /\ f.phase = "stub" BY VectorsAre DEF Frames, Phases
  <1>2. stack = <<>> /\ stack' = <<f>> /\ step = 11 /\ ~hung
    BY StepsAre DEF SoftInt, Runs, Undisturbed, Typed
  <1>3. Len(stack') = 1 /\ stack'[1] = f /\ stack' \in Seq(Frames) BY <1>1, <1>2
  <1> HIDE DEF f
  <1>4. UNCHANGED <<step, ifl, masked, irr, isr, bound, ll, ticks, hung>> BY DEF SoftInt
  <1>5. Typed' BY <1>3, <1>4 DEF Typed
  <1>6. Nested' BY <1>1, <1>3 DEF Nested
  <1>7. InService' BY <1>1, <1>2, <1>3, <1>4, VectorsAre DEF InService, Hardware
  <1>8. Served' BY <1>1, <1>2, <1>3, <1>4 DEF Served
  <1>9. QED BY <1>5, <1>6, <1>7, <1>8

\* A device may interrupt at any time: nothing depends on what is raised.
LEMMA RaiseIInv == ASSUME IInv, NEW l \in Lines, Raise(l) PROVE IInv'
  <1> USE DEF IInv
  <1>1. UNCHANGED <<step, ifl, masked, isr, bound, ll, stack, ticks, hung>> /\ irr' = irr \cup {l}
    BY DEF Raise
  <1>2. Typed' BY <1>1 DEF Typed
  <1>3. Nested' /\ InService' /\ Served' BY <1>1 DEF Nested, InService, Served, Unserved
  <1>4. QED BY <1>2, <1>3

\* An interrupt nests above frames of lower priority only.
LEMMA DeliverIInv == ASSUME IInv, NEW l \in Lines, Deliver(l) PROVE IInv'
  <1> USE DEF IInv
  <1> DEFINE f == [vec |-> l + 32, phase |-> "stub"]
  <1> DEFINE n == Len(stack)
  <1>1. f \in Frames /\ f.vec = l + 32 /\ f.phase = "stub" /\ l \in 0 .. 7 /\ f.vec \in Hardware
    BY VectorsAre, LinesAssumption DEF Frames, Phases, Hardware
  <1>2. stack \in Seq(Frames) /\ n \in Nat BY DEF Typed
  <1>3. stack' = Append(stack, f) BY DEF Deliver
  <1> HIDE DEF f
  <1>4. stack' \in Seq(Frames) /\ Len(stack') = n + 1 /\ stack'[n + 1] = f
        /\ \A i \in 1 .. n : stack'[i] = stack[i]
    BY <1>1, <1>2, <1>3
  <1>5. ifl /\ l \in irr /\ irr' = irr \ {l} /\ isr' = isr \cup {l}
        /\ \A h \in Lines : h <= l => h \notin isr
    BY DEF Deliver, Deliverable
  <1>6. UNCHANGED <<step, ifl, masked, bound, ll, ticks, hung>> BY DEF Deliver
  <1>7. Typed' BY <1>4, <1>5, <1>6 DEF Typed
  <1>8. \A i \in 1 .. n : stack[i].phase = "stub" BY <1>5 DEF Nested
  <1>9. \A i \in 1 .. n : stack[i].vec \in Hardware => stack[i].vec > l + 32
    <2> SUFFICES ASSUME NEW i \in 1 .. n, stack[i].vec \in Hardware PROVE stack[i].vec > l + 32
      OBVIOUS
    <2>1. PICK h \in Lines : stack[i].vec = h + 32 BY DEF Hardware
    <2>2. h \in isr BY <1>8, <2>1 DEF InService
    <2>3. QED BY <1>1, <1>5, <2>1, <2>2, LinesAssumption
  <1>10. Nested'
    <2>1. \A i \in 1 .. n + 1 : stack'[i].phase = "stub" BY <1>1, <1>2, <1>4, <1>8
    <2>2. \A i \in 1 .. n + 1 : i > 1 => stack'[i].vec \in Hardware
      BY <1>1, <1>2, <1>4 DEF Nested
    <2>3. ASSUME NEW i \in 1 .. n + 1, NEW j \in 1 .. n + 1, i < j, stack'[i].vec \in Hardware
          PROVE stack'[j].vec < stack'[i].vec
      <3>1. i \in 1 .. n BY <1>2, <2>3
      <3>2. CASE j = n + 1
        BY <1>1, <1>2, <1>4, <1>9, <2>3, <3>1, <3>2, VectorsAre
      <3>3. CASE j \in 1 .. n BY <1>2, <1>4, <2>3, <3>1, <3>3 DEF Nested
      <3>4. QED BY <1>2, <3>2, <3>3
    <2>4. QED BY <1>4, <2>1, <2>2, <2>3 DEF Nested
  <1>11. InService'
    <2> SUFFICES ASSUME NEW h \in Lines
                 PROVE h \in isr' <=> \E i \in 1 .. n + 1 : stack'[i].vec = h + 32 /\ stack'[i].phase # "iret"
      BY <1>4 DEF InService
    <2>1. h \in Int /\ l \in Int BY LinesAssumption
    <2>2. (\E i \in 1 .. n + 1 : stack'[i].vec = h + 32 /\ stack'[i].phase # "iret")
            <=> (\E i \in 1 .. n : stack[i].vec = h + 32 /\ stack[i].phase # "iret") \/ h = l
      BY <1>1, <1>2, <1>4, <2>1
    <2>3. h \in isr' <=> h \in isr \/ h = l BY <1>5
    <2>4. QED BY <2>2, <2>3 DEF InService
  <1>12. Served'
    <2>1. f.vec \in Hardware /\ step > 4 BY <1>1, <1>5 DEF Served, Typed
    <2>2. ASSUME NEW i \in 1 .. Len(stack')
          PROVE \/ stack'[i].vec \in Hardware /\ step > 4
                \/ stack'[i].vec \in {3, 128} /\ step = 11
      <3>1. CASE i = n + 1 BY <1>4, <2>1, <3>1
      <3>2. CASE i \in 1 .. n BY <1>4, <3>2 DEF Served
      <3>3. QED BY <1>2, <1>4, <3>1, <3>2
    <2>3. ~hung' BY <1>6 DEF Deliver
    <2>4. QED BY <1>5, <1>6, <2>2, <2>3 DEF Served
  <1>13. QED BY <1>7, <1>10, <1>11, <1>12

\* A frame goes to its next phase.
LEMMA Going ==
    ASSUME IInv, NEW phase \in Phases, stack # <<>>, Goes(phase)
    PROVE  /\ Len(stack) \in Nat \ {0} /\ Last(stack) = stack[Len(stack)]
           /\ stack' \in Seq(Frames) /\ Len(stack') = Len(stack)
           /\ stack'[Len(stack)].vec = Last(stack).vec /\ stack'[Len(stack)].phase = phase
           /\ \A i \in 1 .. Len(stack) : i < Len(stack) => stack'[i] = stack[i]
           /\ \A i \in 1 .. Len(stack) : stack'[i].vec = stack[i].vec
  <1>1. stack \in Seq(Frames) BY DEF IInv, Typed
  <1>2. Len(stack) \in Nat \ {0} /\ Last(stack) = stack[Len(stack)] BY <1>1 DEF Last
  <1>3. stack' = [stack EXCEPT ![Len(stack)] = [@ EXCEPT !.phase = phase]] BY DEF Goes
  <1>4. stack[Len(stack)] \in Frames BY <1>1, <1>2
  <1>5. [stack[Len(stack)] EXCEPT !.phase = phase] \in Frames BY <1>4 DEF Frames
  <1>6. stack' \in Seq(Frames) /\ Len(stack') = Len(stack) BY <1>1, <1>2, <1>3, <1>5
  <1>7. stack'[Len(stack)] = [stack[Len(stack)] EXCEPT !.phase = phase]
        /\ \A i \in 1 .. Len(stack) : i < Len(stack) => stack'[i] = stack[i]
    BY <1>1, <1>2, <1>3
  <1>8. stack'[Len(stack)].vec = stack[Len(stack)].vec /\ stack'[Len(stack)].phase = phase
    BY <1>4, <1>7 DEF Frames
  <1>9. \A i \in 1 .. Len(stack) : stack'[i].vec = stack[i].vec
    <2> SUFFICES ASSUME NEW i \in 1 .. Len(stack) PROVE stack'[i].vec = stack[i].vec
      OBVIOUS
    <2>1. CASE i = Len(stack) BY <1>8, <2>1
    <2>2. CASE i < Len(stack) BY <1>7, <2>2
    <2>3. QED BY <1>2, <2>1, <2>2
  <1>10. QED BY <1>2, <1>6, <1>7, <1>8, <1>9

\* Only the innermost frame can be out of its stub, and with interrupts off.
LEMMA GoingNested ==
    ASSUME IInv, NEW phase \in Phases, stack # <<>>, Goes(phase), ~ifl'
    PROVE  Nested'
  BY Going, VectorsAre DEF IInv, Nested

\* A step that changes no frame's vector serves what was served.
LEMMA GoingServed ==
    ASSUME IInv, NEW phase \in Phases, stack # <<>>, Goes(phase), ~ifl',
           ~hung', UNCHANGED <<step, bound, ll>>
    PROVE  Served'
  BY Going DEF IInv, Served

LEMMA GoingInService ==
    ASSUME IInv, NEW phase \in Phases \ {"iret"}, stack # <<>>, Goes(phase),
           Last(stack).phase # "iret", isr' = isr
    PROVE  InService'
  <1>1. \A i \in 1 .. Len(stack) : stack'[i].phase # "iret" <=> stack[i].phase # "iret"
    BY Going
  <1>2. QED BY <1>1, Going DEF IInv, InService

LEMMA StubIInv == ASSUME IInv, Stub PROVE IInv'
  <1>1. stack # <<>> /\ ~hung /\ Goes("handle") /\ "handle" \in Phases \ {"iret"} /\ Last(stack).phase # "iret" /\ ifl' = FALSE
        /\ UNCHANGED <<step, masked, irr, isr, bound, ll, ticks, hung>>
    BY DEF Stub, Top, Undisturbed, Phases
  <1>2. Typed' BY <1>1, Going DEF IInv, Typed
  <1>3. QED BY <1>1, <1>2, GoingNested, GoingServed, GoingInService DEF IInv

\* Only a line without a handler reaches exception: not a software interrupt, not the timer,
\* not the keyboard once it has been registered.
LEMMA HandleIInv == ASSUME IInv, Handle PROVE IInv'
  <1> DEFINE v == Last(stack).vec
  <1>1. stack # <<>> /\ Last(stack).phase = "handle" /\ ~hung
        /\ UNCHANGED <<step, ifl, masked, irr, isr, bound, ll>>
    BY DEF Handle, Top, Undisturbed
  <1>2. Len(stack) \in 1 .. Len(stack) /\ Last(stack) = stack[Len(stack)]
    BY <1>1 DEF IInv, Typed, Last
  <1>3. ticks' \in 0 .. MaxTicks
    BY TicksAssumption DEF Handle, IInv, Typed
  <1>4. CASE Handler(v) = "exception"
    <2>1. hung' = TRUE /\ stack' = stack BY <1>4 DEF Handle
    <2>2. v \notin {3, 32, 128} /\ (v = 33 => step <= 8)
      <3>1. step \in 1 .. 11 BY DEF IInv, Typed
      <3>2. \/ v \in Hardware /\ step > 4
            \/ v \in {3, 128} /\ step = 11
        BY <1>2 DEF IInv, Served
      <3>3. bound \in [Vectors -> {NoHandler, "do_nothing", "irq0_handle", "keyboard_handle_irq"}]
        BY DEF IInv, Typed
      <3>4. v # 32 /\ (v = 33 => step <= 8)
        BY <1>4, <3>1, <3>2, <3>3, VectorsAre DEF IInv, Served, Handler, NoHandler
      <3>5. \A w \in Hardware : w # 3 /\ w # 128 BY VectorsAre
      <3>6. v \notin {3, 128}
        <4>1. ASSUME v \in {3, 128} PROVE FALSE
          <5>1. step = 11 BY <3>2, <3>5, <4>1
          <5>2. ll[v] \in {"dump_regs", "syscall_handle"} BY <4>1, <5>1 DEF IInv, Served
          <5>3. bound[v] \in {NoHandler, "do_nothing", "irq0_handle", "keyboard_handle_irq"}
            BY <3>3, <4>1, VectorsAre
          <5>4. QED BY <1>4, <5>2, <5>3 DEF Handler, NoHandler
        <4>2. QED BY <4>1
      <3>7. QED BY <3>4, <3>6
    <2>3. v \in Hardware BY <1>2, <2>2 DEF IInv, Served
    <2>4. Typed' BY <1>1, <1>3, <2>1 DEF IInv, Typed
    <2>5. Nested' /\ InService' BY <1>1, <2>1 DEF IInv, Nested, InService
    <2>6. Unserved' BY <1>1, <1>2, <2>1, <2>2, <2>3 DEF Unserved
    <2>7. Served' BY <1>1, <2>1, <2>6 DEF IInv, Served
    <2>8. QED BY <2>4, <2>5, <2>7 DEF IInv
  <1>5. CASE Handler(v) # "exception"
    <2>1. Goes("eoi") /\ hung' = hung /\ "eoi" \in Phases \ {"iret"} BY <1>5 DEF Handle, Phases
    <2>2. ~ifl' BY <1>1, <1>2 DEF IInv, Nested
    <2>3. Typed' BY <1>1, <1>3, <2>1, Going DEF IInv, Typed
    <2>4. QED BY <1>1, <2>1, <2>2, <2>3, GoingNested, GoingServed, GoingInService DEF IInv
  <1>6. QED BY <1>4, <1>5

\* The line ended is that of the frame that acknowledges: it has the highest priority.
LEMMA EoiIInv == ASSUME IInv, Eoi PROVE IInv'
  <1> DEFINE v == Last(stack).vec
  <1>1. stack # <<>> /\ Last(stack).phase = "eoi" /\ Goes("iret") /\ "iret" \in Phases
        /\ ~hung /\ UNCHANGED <<step, ifl, masked, irr, bound, ll, ticks, hung>>
    BY DEF Eoi, Top, Undisturbed, Phases
  <1>2. Len(stack) \in 1 .. Len(stack) /\ Len(stack) \in Nat /\ Last(stack) = stack[Len(stack)] /\ v \in Vectors
    <2>1. stack \in Seq(Frames) BY DEF IInv, Typed
    <2>2. Len(stack) \in 1 .. Len(stack) /\ Len(stack) \in Nat /\ Last(stack) = stack[Len(stack)]
      BY <1>1, <2>1 DEF Last
    <2>3. stack[Len(stack)] \in Frames BY <2>1, <2>2
    <2>4. QED BY <2>2, <2>3 DEF Frames
  <1>3. ~ifl' BY <1>1, <1>2 DEF IInv, Nested
  <1>4. Nested' /\ Served' BY <1>1, <1>3, GoingNested, GoingServed
  <1>5. CASE v \in Hardware
    <2>1. PICK l \in Lines : v = l + 32 BY <1>5 DEF Hardware
    <2>2. l \in isr /\ Acknowledges(v) /\ l \in 0 .. 7
      BY <1>1, <1>2, <2>1, LinesAssumption DEF IInv, InService, Acknowledges
    <2>3. ASSUME NEW k \in isr, k # l PROVE l < k
      <3>1. k \in Lines /\ k \in 0 .. 7 BY LinesAssumption DEF IInv, Typed
      <3>2. PICK i \in 1 .. Len(stack) : stack[i].vec = k + 32 BY <3>1 DEF IInv, InService
      <3>3. i # Len(stack) BY <1>2, <2>1, <2>2, <2>3, <3>1, <3>2
      <3>4. i < Len(stack) /\ stack[i].vec \in Hardware BY <1>2, <3>1, <3>2, <3>3 DEF Hardware
      <3>5. stack[Len(stack)].vec < stack[i].vec BY <1>2, <3>4 DEF IInv, Nested
      <3>6. QED BY <1>2, <2>1, <2>2, <3>1, <3>2, <3>5
    <2>4. (CHOOSE m \in isr : \A k \in isr : m <= k) = l
      <3> DEFINE m == CHOOSE m \in isr : \A k \in isr : m <= k
      <3>1. \A k \in isr : l <= k BY <2>2, <2>3, LinesAssumption DEF IInv, Typed
      <3>2. m \in isr /\ m <= l BY <2>2, <3>1
      <3> HIDE DEF m
      <3>3. m = l BY <2>2, <2>3, <3>2, LinesAssumption DEF IInv, Typed
      <3>4. QED BY <3>3 DEF m
    <2>5. isr' = isr \ {l} BY <2>2, <2>4 DEF Eoi
    <2>6. Typed' BY <1>1, <2>5, Going DEF IInv, Typed
    <2>7. InService'
      <3> SUFFICES ASSUME NEW h \in Lines
                   PROVE h \in isr' <=> \E i \in 1 .. Len(stack) : stack'[i].vec = h + 32 /\ stack'[i].phase # "iret"
        BY <1>1, Going DEF InService
      <3>1. h \in 0 .. 7 BY LinesAssumption
      <3>2. CASE h = l
        <4>1. ASSUME NEW i \in 1 .. Len(stack), stack'[i].vec = h + 32, stack'[i].phase # "iret" PROVE FALSE
          <5>1. i < Len(stack) BY <1>1, <1>2, <4>1, Going
          <5>2. stack[i].vec = l + 32 /\ stack[i].vec \in Hardware BY <1>1, <3>2, <4>1, <2>1, <1>5, Going
          <5>3. QED BY <1>2, <2>1, <2>2, <5>1, <5>2 DEF IInv, Nested
        <4>2. QED BY <2>5, <3>2, <4>1
      <3>3. CASE h # l
        <4>1. ASSUME NEW i \in 1 .. Len(stack)
              PROVE stack'[i].vec = h + 32 /\ stack'[i].phase # "iret"
                    <=> stack[i].vec = h + 32 /\ stack[i].phase # "iret"
          <5>1. CASE i = Len(stack) BY <1>1, <1>2, <2>1, <2>2, <3>1, <3>3, <5>1, Going
          <5>2. CASE i < Len(stack) BY <1>1, <5>2, Going
          <5>3. QED BY <1>2, <5>1, <5>2
        <4>2. QED BY <2>5, <3>3, <4>1 DEF IInv, InService
      <3>4. QED BY <3>2, <3>3
    <2>8. QED BY <1>4, <2>6, <2>7 DEF IInv
  <1>6. CASE v \notin Hardware
    <2>1. v \in {3, 128} /\ ~Acknowledges(v) BY <1>2, <1>6, VectorsAre DEF Acknowledges
    <2>2. isr' = isr BY <2>1 DEF Eoi
    <2>3. Typed' BY <1>1, <2>2, Going DEF IInv, Typed
    <2>4. ASSUME NEW h \in Lines, NEW i \in 1 .. Len(stack)
          PROVE stack'[i].vec = h + 32 /\ stack'[i].phase # "iret"
                <=> stack[i].vec = h + 32 /\ stack[i].phase # "iret"
      <3>1. h + 32 \in Hardware BY DEF Hardware
      <3>2. CASE i = Len(stack) BY <1>1, <1>2, <1>6, <3>1, <3>2, Going
      <3>3. CASE i < Len(stack) BY <1>1, <3>3, Going
      <3>4. QED BY <1>2, <3>2, <3>3
    <2>5. InService' BY <1>1, <2>2, <2>4, Going DEF IInv, InService
    <2>6. QED BY <1>4, <2>3, <2>5 DEF IInv
  <1>7. QED BY <1>5, <1>6

\* Below the frame that is left, all are in their stubs.
LEMMA IretIInv == ASSUME IInv, Iret PROVE IInv'
  <1> DEFINE n == Len(stack)
  <1>1. stack # <<>> /\ Last(stack).phase = "iret" /\ stack' = Front(stack) /\ ifl' = TRUE
        /\ ~hung /\ UNCHANGED <<step, masked, irr, isr, bound, ll, ticks, hung>>
    BY DEF Iret, Top, Undisturbed
  <1>2. stack \in Seq(Frames) /\ n \in Nat \ {0} /\ Last(stack) = stack[n]
    BY <1>1 DEF IInv, Typed, Last
  <1>3. stack' \in Seq(Frames) /\ Len(stack') = n - 1 /\ \A i \in 1 .. n - 1 : stack'[i] = stack[i]
    <2>1. \A i \in 1 .. n - 1 : stack[i] \in Frames BY <1>2
    <2>2. \A i \in 1 .. n - 1 : 1 + i - 1 = i BY <1>2
    <2>3. n - 1 \in Int /\ n - 1 - 1 + 1 = n - 1 /\ (1 <= n - 1 \/ n - 1 = 0)
      <3>1. \A m \in Nat \ {0} : m - 1 \in Int /\ m - 1 - 1 + 1 = m - 1 /\ (1 <= m - 1 \/ m - 1 = 0)
        OBVIOUS
      <3>2. QED BY <1>2, <3>1
    <2>4. /\ SubSeq(stack, 1, n - 1) \in Seq(Frames)
          /\ Len(SubSeq(stack, 1, n - 1)) = IF 1 <= n - 1 THEN n - 1 - 1 + 1 ELSE 0
          /\ \A i \in 1 .. n - 1 - 1 + 1 : SubSeq(stack, 1, n - 1)[i] = stack[1 + i - 1]
      BY <2>1, <2>3, SubSeqProperties
    <2>5. QED BY <1>1, <2>2, <2>3, <2>4 DEF Front
  <1>4. Typed' BY <1>1, <1>3 DEF IInv, Typed
  <1>5. Nested'
    <2>1. n - 1 \in Nat /\ \A i \in 1 .. n - 1 : i \in 1 .. n /\ i < n BY <1>2
    <2>2. \A i \in 1 .. n - 1 : stack'[i] = stack[i] /\ stack[i].phase = "stub"
      BY <1>3, <2>1 DEF IInv, Nested
    <2>3. \A i \in 1 .. n - 1 : i > 1 => stack'[i].vec \in Hardware
      BY <1>3, <2>1 DEF IInv, Nested
    <2>4. \A i, j \in 1 .. n - 1 : i < j /\ stack'[i].vec \in Hardware => stack'[j].vec < stack'[i].vec
      BY <1>3, <2>1 DEF IInv, Nested
    <2>5. QED BY <1>3, <2>2, <2>3, <2>4 DEF Nested
  <1>6. InService'
    <2> SUFFICES ASSUME NEW h \in Lines
                 PROVE (\E i \in 1 .. n - 1 : stack'[i].vec = h + 32 /\ stack'[i].phase # "iret")
                       <=> \E i \in 1 .. n : stack[i].vec = h + 32 /\ stack[i].phase # "iret"
      BY <1>1, <1>3 DEF IInv, InService
    <2>1. QED BY <1>1, <1>2, <1>3
  <1>7. Served'
    <2>1. step > 4 BY <1>2 DEF IInv, Served, Typed
    <2>2. \A i \in 1 .. Len(stack') : i \in 1 .. Len(stack) /\ stack'[i] = stack[i] BY <1>2, <1>3
    <2>3. QED BY <1>1, <2>1, <2>2 DEF IInv, Served, Typed
  <1>8. QED BY <1>4, <1>5, <1>6, <1>7 DEF IInv
------------------------------------------------------------------------------
\* The inductive invariant: frames nest by priority, what is in service has a frame, and
\* the timer has its handler whenever it may interrupt, the keyboard from keyboard_init on.
THEOREM Invariance == IntrSpec => []IInv
  <1>1. ASSUME IInv, [IntrNext]_intrvars PROVE IInv'
    <2>1. CASE UNCHANGED intrvars
      BY <1>1, <2>1 DEF intrvars, IInv, Typed, Nested, InService, Served, Unserved
    <2>2. QED
      BY <1>1, <2>1, BootStepIInv, SoftIntIInv, RaiseIInv, DeliverIInv, StubIInv, HandleIInv, EoiIInv, IretIInv
      DEF IntrNext, Dispatch
  <1>2. QED BY <1>1, Initially, PTL DEF IntrSpec

\* Type correctness of the tables, the controller and the frames.
THEOREM TypeCorrect == IntrSpec => []IntrTypeOK
  <1>1. ASSUME IInv PROVE IntrTypeOK
    <2>1. ToSet(stack) \subseteq Frames BY <1>1 DEF IInv, Typed, ToSet
    <2>2. QED BY <1>1, <2>1, StepsAre DEF IInv, Typed, IntrTypeOK, Frames
  <1>2. QED BY <1>1, Invariance, PTL

\* Whatever is raised, and whenever: exception() is reached only from a line that has no
\* handler at that step of the boot, never from the timer, from a system call or, once
\* keyboard_init is through, from the keyboard.
THEOREM HandlersInTime == IntrSpec => []UnhandledOnlyEarly
  <1>1. ASSUME IInv PROVE UnhandledOnlyEarly
    <2> SUFFICES ASSUME hung
                 PROVE  Last(stack).vec - 32 \in Lines \ {0} /\ (Last(stack).vec = 33 => step <= 8)
      BY DEF UnhandledOnlyEarly
    <2>1. Unserved BY <1>1 DEF IInv, Served
    <2>2. Last(stack) = stack[Len(stack)] BY DEF Last
    <2>3. PICK l \in Lines : Last(stack).vec = l + 32 BY <2>1, <2>2 DEF Unserved, Hardware
    <2>4. l \in 0 .. 7 BY LinesAssumption
    <2>5. Last(stack).vec - 32 = l BY <2>3, <2>4
    <2>6. l # 0 BY <2>1, <2>2, <2>3, <2>4 DEF Unserved
    <2>7. QED BY <2>1, <2>2, <2>5, <2>6 DEF Unserved
  <1>2. QED BY <1>1, Invariance, PTL

\* Every interrupt in service is acknowledged once, by its own frame, and no handler is
\* entered while it is under way.
THEOREM AcknowledgedOnce == IntrSpec => []InServiceHasFrame
  <1>1. ASSUME IInv PROVE InServiceHasFrame
    <2>1. stack \in Seq(Frames) /\ DOMAIN stack = 1 .. Len(stack) /\ Len(stack) \in Nat
      BY <1>1 DEF IInv, Typed
    <2>2. isr = {stack[i].vec - 32 : i \in {j \in DOMAIN stack : stack[j].phase # "iret"}} \cap Lines
      <3>1. \A i \in 1 .. Len(stack) : stack[i].vec \in Int
        <4>1. \A i \in 1 .. Len(stack) : stack[i] \in Frames BY <2>1
        <4>2. Vectors \subseteq Int BY VectorsAre
        <4>3. QED BY <4>1, <4>2 DEF Frames
      <3>2. \A l \in Lines : l \in Int BY LinesAssumption
      <3>3. isr \subseteq Lines BY <1>1 DEF IInv, Typed
      <3>4. \A l \in Lines : l \in isr <=> l \in {stack[i].vec - 32 : i \in {j \in DOMAIN stack : stack[j].phase # "iret"}}
        BY <1>1, <2>1, <3>1, <3>2 DEF IInv, InService
      <3>5. QED BY <3>3, <3>4
    <2>3. ASSUME NEW i \in DOMAIN stack, NEW j \in DOMAIN stack, i < j PROVE stack[i].vec # stack[j].vec
      <3>1. CASE stack[i].vec \in Hardware
        <4>1. stack[i].vec \in Int
          <5>1. Hardware \subseteq Int BY VectorsAre
          <5>2. QED BY <3>1, <5>1
        <4>2. stack[j].vec < stack[i].vec BY <1>1, <2>1, <2>3, <3>1 DEF IInv, Nested
        <4>3. stack[j].vec \in Int
          <5>1. stack[j] \in Frames BY <2>1
          <5>2. Vectors \subseteq Int BY VectorsAre
          <5>3. QED BY <5>1, <5>2 DEF Frames
        <4>4. QED BY <4>1, <4>2, <4>3
      <3>2. CASE stack[i].vec \notin Hardware
        BY <1>1, <2>1, <2>3, <3>2 DEF IInv, Nested
      <3>3. QED BY <3>1, <3>2
    <2>4. QED BY <2>1, <2>2, <2>3 DEF InServiceHasFrame
  <1>2. QED BY <1>1, Invariance, PTL
(***************************************************************************)
(* Boot of the kernel's symbols, loading of files and what they ask for.   *)
(***************************************************************************)

Booting == {"early_init", "ksymtab_add"}
MpcValues == Booting \cup {"run", "entry", "panicked", "wild"}
Listings == [name : STRING, fn : Nat \X STRING]

LoadPhases ==
    /\ mpc \in MpcValues
    /\ sym \in 1 .. Len(KernelTable) + 1 /\ loads \in Nat
    /\ mpc \notin Booting => sym = Len(KernelTable) + 1
    /\ mpc = "early_init" => exports = <<>>
    /\ exports \in Seq(Listings)
    /\ \A i \in DOMAIN exports : exports[i].fn[2] = exports[i].name
    /\ mpc = "ksymtab_add" => \A i \in DOMAIN exports : exports[i].fn[1] = 0

\* The kernel's own symbols are all there, before those of any module.
KernelFirst ==
    \A i, j \in DOMAIN exports : i < j /\ exports[j].fn[1] = 0 => exports[i].fn[1] = 0
KernelListed ==
    mpc # "early_init" =>
        \A k \in 1 .. sym - 1 : KernelTable[k].kind = "sym" =>
            \E i \in DOMAIN exports : exports[i] = Symbol(0, KernelTable[k])

\* getmodsym has its number before a program asks for it.
SyscallsInPlace ==
    IF mpc \in Booting
    THEN syscall_max = Reserved /\ syscalls = [i \in 0 .. NrMax - 1 |-> NoSyscall]
    ELSE /\ syscall_max = Reserved + 2
         /\ syscalls[Reserved + 1] = "getmodsym"

AnswersKernels ==
    \A t \in ToSet(KernelTable) :
        t.kind = "sym" /\ answer.name = t.name => answer.fn = <<0, t.name>>

ModInv == LoadPhases /\ KernelFirst /\ KernelListed /\ SyscallsInPlace /\ AnswersKernels

(* What a symbol is. *)
LEMMA SymbolIs ==
    ASSUME NEW n \in Nat, NEW t \in [kind : STRING, name : STRING]
    PROVE  /\ Symbol(n, t) \in Listings
           /\ Symbol(n, t).name = t.name /\ Symbol(n, t).fn[1] = n /\ Symbol(n, t).fn[2] = t.name
           /\ Symbol(n, t).fn = <<n, t.name>>
BY DEF Symbol, Listings

LEMMA TableEntries ==
    /\ Len(KernelTable) \in Nat
    /\ \A k \in 1 .. Len(KernelTable) :
          /\ KernelTable[k] \in [kind : STRING, name : STRING]
          /\ KernelTable[k].name \in STRING \ {""}
          /\ KernelTable[k] \in ToSet(KernelTable)
    /\ \A t \in ToSet(KernelTable) : \E k \in 1 .. Len(KernelTable) : t = KernelTable[k]
<1>1. \A S : KernelTable \in Seq(S) => \A k \in 1 .. Len(KernelTable) : KernelTable[k] \in S
  OBVIOUS
<1>2. \A k \in 1 .. Len(KernelTable) : KernelTable[k] \in [kind : STRING, name : STRING \ {""}]
  BY <1>1, ModAssumption
<1>3. \A S : KernelTable \in Seq(S) => Len(KernelTable) \in Nat /\ DOMAIN KernelTable = 1 .. Len(KernelTable)
  OBVIOUS
<1>4. Len(KernelTable) \in Nat /\ DOMAIN KernelTable = 1 .. Len(KernelTable)
  BY <1>3, ModAssumption
<1>5. \A k \in 1 .. Len(KernelTable) :
          /\ KernelTable[k] \in [kind : STRING, name : STRING]
          /\ KernelTable[k].name \in STRING \ {""}
  BY <1>2
<1> QED BY <1>4, <1>5 DEF ToSet

(* A program that asks for a function of the kernel is given it: the kernel's symbols are
   never stale, and no other stands before them. *)
LEMMA KernelFound ==
    ASSUME LoadPhases, KernelFirst, KernelListed, mpc = "entry",
           NEW t \in ToSet(KernelTable), t.kind = "sym"
    PROVE  mod_sym_get(t.name) = {<<0, t.name>>}
<1> DEFINE found == {i \in DOMAIN exports : exports[i].name = t.name /\ ~Stale(exports[i])}
           stale == {i \in DOMAIN exports : Stale(exports[i]) /\ \A j \in found : i < j}
<1>1. PICK k \in 1 .. Len(KernelTable) : t = KernelTable[k]
  BY TableEntries
<1>2. sym - 1 = Len(KernelTable)
  <2>1. sym = Len(KernelTable) + 1
    BY DEF LoadPhases, Booting
  <2>2. Len(KernelTable) \in Nat
    BY TableEntries
  <2> QED BY <2>1, <2>2
<1>3. PICK i0 \in DOMAIN exports : exports[i0] = Symbol(0, t)
  BY <1>1, <1>2 DEF KernelListed
<1>4. exports[i0].name = t.name /\ exports[i0].fn[1] = 0
  <2>1. t \in [kind : STRING, name : STRING] /\ 0 \in Nat
    BY <1>1, TableEntries
  <2>2. Symbol(0, t).name = t.name /\ Symbol(0, t).fn[1] = 0
    BY <2>1, SymbolIs
  <2> QED BY <1>3, <2>2
<1>5. i0 \in found
  BY <1>4 DEF Stale
<1>6. DOMAIN exports \subseteq Nat
  BY DEF LoadPhases
<1>7. stale = {}
  <2> SUFFICES ASSUME NEW i \in stale PROVE FALSE
    OBVIOUS
  <2>1. i \in DOMAIN exports /\ exports[i].fn[1] # 0 /\ i < i0
    BY <1>5 DEF Stale
  <2> QED BY <1>4, <2>1 DEF KernelFirst
<1>8. Min(found) \in found /\ Min(found) <= i0
  <2>1. found \in SUBSET Nat /\ found # {}
    BY <1>5, <1>6
  <2> HIDE DEF found
  <2> QED BY <1>5, <2>1, LeastIs DEF Min
<1>9. exports[Min(found)].fn = <<0, t.name>>
  <2> DEFINE i == Min(found)
  <2>1. i \in DOMAIN exports /\ exports[i].name = t.name /\ i <= i0 /\ i \in Nat /\ i0 \in Nat
    BY <1>6, <1>8
  <2> HIDE DEF i
  <2>2. exports[i].fn[1] = 0
    <3>1. CASE i = i0
      BY <1>4, <3>1
    <3>2. CASE i < i0
      BY <1>4, <2>1, <3>2 DEF KernelFirst
    <3> QED BY <2>1, <3>1, <3>2
  <2>3. exports[i].fn[2] = t.name
    BY <2>1 DEF LoadPhases
  <2>4. exports[i].fn \in Nat \X STRING
    <3>1. exports[i] \in Listings
      BY <2>1 DEF LoadPhases
    <3> QED BY <3>1 DEF Listings
  <2>5. exports[i].fn = <<0, t.name>>
    BY <2>2, <2>3, <2>4
  <2> QED BY <2>5 DEF i
<1>10. mod_sym_get(t.name)
       = {exports[i].fn : i \in stale} \cup {IF found = {} THEN NULL ELSE exports[Min(found)].fn}
  BY DEF mod_sym_get
<1> HIDE DEF found, stale
<1> QED BY <1>5, <1>7, <1>9, <1>10

(* Appending keeps the kernel's symbols in front. *)
LEMMA ExportsGrow ==
    ASSUME LoadPhases, KernelFirst, KernelListed, NEW s \in Seq(Listings),
           \A i \in DOMAIN s : s[i].fn[2] = s[i].name /\ s[i].fn[1] # 0,
           exports' = exports \o s, UNCHANGED sym, loads' \in Nat, mpc \notin Booting, mpc' \notin Booting,
           mpc' \in MpcValues
    PROVE  LoadPhases' /\ KernelFirst' /\ KernelListed'
<1>1. exports \in Seq(Listings) /\ DOMAIN exports = 1 .. Len(exports) /\ Len(exports) \in Nat
      /\ DOMAIN s = 1 .. Len(s) /\ Len(s) \in Nat
  BY DEF LoadPhases
<1>2. /\ exports' \in Seq(Listings) /\ Len(exports') = Len(exports) + Len(s)
      /\ \A i \in 1 .. Len(exports) + Len(s) :
            exports'[i] = IF i <= Len(exports) THEN exports[i] ELSE s[i - Len(exports)]
  BY <1>1, ConcatProperties
<1>3. DOMAIN exports' = 1 .. Len(exports) + Len(s)
  BY <1>2
<1>4. \A i \in DOMAIN exports : i \in DOMAIN exports' /\ exports'[i] = exports[i]
  BY <1>1, <1>2, <1>3
<1>5. ASSUME NEW i \in DOMAIN exports', i \notin DOMAIN exports
      PROVE  exports'[i].fn[2] = exports'[i].name /\ exports'[i].fn[1] # 0 /\ i > Len(exports)
  <2>1. i > Len(exports) /\ i - Len(exports) \in DOMAIN s
    BY <1>1, <1>3, <1>5
  <2> QED BY <1>1, <1>2, <1>3, <2>1
<1>6. LoadPhases'
  BY <1>2, <1>4, <1>5 DEF LoadPhases, Booting
<1>7. KernelFirst'
  <2> SUFFICES ASSUME NEW i \in DOMAIN exports', NEW j \in DOMAIN exports', i < j, exports'[j].fn[1] = 0
               PROVE  exports'[i].fn[1] = 0
    BY DEF KernelFirst
  <2>1. j \in DOMAIN exports
    BY <1>5
  <2>2. i \in DOMAIN exports
    BY <1>1, <1>3, <2>1
  <2> QED BY <1>4, <2>1, <2>2 DEF KernelFirst
<1>8. KernelListed'
  BY <1>4 DEF KernelListed, Booting
<1> QED BY <1>6, <1>7, <1>8

(* The boot: the loops over the kernel's table. *)
LEMMA BootModInv ==
    ASSUME ModInv, EarlyInit \/ EarlyInitEnd \/ KSymtabAdd \/ SyscallsInit
    PROVE  ModInv'
<1>1. Len(KernelTable) \in Nat /\ sym \in 1 .. Len(KernelTable) + 1
  BY TableEntries DEF ModInv, LoadPhases
<1>2. CASE EarlyInit
  <2>1. sym' \in 1 .. Len(KernelTable) + 1
    BY <1>1, <1>2 DEF EarlyInit
  <2>2. mpc' = mpc /\ mpc = "early_init"
        /\ UNCHANGED <<exports, modules, syscalls, syscall_max, loads, answer>>
    BY <1>2 DEF EarlyInit
  <2>3. LoadPhases'
    BY <2>1, <2>2 DEF ModInv, LoadPhases, Booting, MpcValues
  <2> QED BY <2>2, <2>3 DEF ModInv, KernelFirst, KernelListed, SyscallsInPlace, AnswersKernels
<1>3. CASE EarlyInitEnd
  <2>1. /\ mpc = "early_init" /\ mpc' = "ksymtab_add" /\ sym' = 1 /\ exports = <<>>
        /\ UNCHANGED <<exports, modules, syscalls, syscall_max, loads, answer>>
    BY <1>3 DEF EarlyInitEnd, ModInv, LoadPhases
  <2>2. LoadPhases'
    BY <1>1, <2>1 DEF ModInv, LoadPhases, Booting, MpcValues
  <2>3. KernelListed'
    BY <2>1 DEF KernelListed
  <2> QED BY <2>1, <2>2, <2>3 DEF ModInv, KernelFirst, SyscallsInPlace, AnswersKernels, Booting
<1>4. CASE KSymtabAdd
  <2> DEFINE t == KernelTable[sym]
  <2>1. /\ mpc = "ksymtab_add" /\ mpc' = mpc /\ sym <= Len(KernelTable) /\ sym' = sym + 1
        /\ exports' = IF t.kind = "sym" THEN Append(exports, Symbol(0, t)) ELSE exports
        /\ UNCHANGED <<modules, syscalls, syscall_max, loads, answer>>
    BY <1>4 DEF KSymtabAdd
  <2>2. sym \in 1 .. Len(KernelTable) /\ sym' \in 1 .. Len(KernelTable) + 1
    BY <1>1, <2>1
  <2>3. /\ Symbol(0, t) \in Listings /\ Symbol(0, t).fn[1] = 0
        /\ Symbol(0, t).fn[2] = Symbol(0, t).name
    <3>1. t \in [kind : STRING, name : STRING] /\ 0 \in Nat
      BY <2>2, TableEntries
    <3> HIDE DEF t
    <3> QED BY <3>1, SymbolIs
  <2>4. exports \in Seq(Listings)
    BY DEF ModInv, LoadPhases
  <2> HIDE DEF t
  <2>5. /\ exports' \in Seq(Listings) /\ DOMAIN exports \subseteq DOMAIN exports'
        /\ \A i \in DOMAIN exports : exports'[i] = exports[i]
        /\ \A i \in DOMAIN exports' : i \in DOMAIN exports \/ exports'[i] = Symbol(0, t)
        /\ t.kind = "sym" => \E i \in DOMAIN exports' : exports'[i] = Symbol(0, t)
    <3>1. CASE t.kind = "sym"
      <4>1. exports' = Append(exports, Symbol(0, t))
        BY <2>1, <3>1
      <4>2. Len(exports) + 1 \in DOMAIN exports' /\ exports'[Len(exports) + 1] = Symbol(0, t)
        BY <2>3, <2>4, <4>1
      <4> QED BY <2>3, <2>4, <4>1, <4>2
    <3>2. CASE t.kind # "sym"
      BY <2>1, <2>4, <3>2
    <3> QED BY <3>1, <3>2
  <2>6. LoadPhases'
    BY <2>1, <2>2, <2>3, <2>5 DEF ModInv, LoadPhases, Booting
  <2>7. KernelFirst'
    BY <2>1, <2>6 DEF KernelFirst, LoadPhases
  <2>8. KernelListed'
    <3> SUFFICES ASSUME NEW k \in 1 .. sym' - 1, KernelTable[k].kind = "sym"
                 PROVE  \E i \in DOMAIN exports' : exports'[i] = Symbol(0, KernelTable[k])
      BY DEF KernelListed
    <3>1. CASE k = sym
      BY <2>5, <3>1 DEF t
    <3>2. CASE k # sym
      <4>1. k \in 1 .. sym - 1
        BY <2>1, <2>2, <3>2
      <4>2. PICK i \in DOMAIN exports : exports[i] = Symbol(0, KernelTable[k])
        BY <2>1, <4>1 DEF ModInv, KernelListed
      <4> QED BY <2>5, <4>2
    <3> QED BY <3>1, <3>2
  <2> QED BY <2>1, <2>6, <2>7, <2>8 DEF ModInv, SyscallsInPlace, AnswersKernels
<1>5. CASE SyscallsInit
  <2>1. /\ mpc = "ksymtab_add" /\ sym > Len(KernelTable) /\ mpc' = "run"
        /\ syscall_max' = MaxAfter(MaxAfter(syscall_max))
        /\ syscalls' = Registered(Registered([syscalls EXCEPT ![0] = "sysgetdynamic"], syscall_max, "puts"),
                                  MaxAfter(syscall_max), "getmodsym")
        /\ UNCHANGED <<sym, exports, modules, loads, answer>>
    BY <1>5 DEF SyscallsInit
  <2>2. /\ syscall_max = Reserved /\ syscalls = [i \in 0 .. NrMax - 1 |-> NoSyscall]
        /\ Reserved \in Nat /\ NrMax \in Nat /\ Reserved + 2 < NrMax
    BY <2>1, ModAssumption DEF ModInv, SyscallsInPlace, Booting
  <2>3. MaxAfter(Reserved) = Reserved + 1 /\ MaxAfter(Reserved + 1) = Reserved + 2
    BY <2>2 DEF MaxAfter
  <2>4. syscalls'[Reserved + 1] = "getmodsym"
    <3> DEFINE named == [syscalls EXCEPT ![0] = "sysgetdynamic"]
               puts == [named EXCEPT ![Reserved] = "puts"]
    <3>1. DOMAIN puts = 0 .. NrMax - 1
      BY <2>2
    <3>2. Registered(named, Reserved, "puts") = puts
      BY <2>2 DEF Registered
    <3>3. syscalls' = Registered(puts, Reserved + 1, "getmodsym")
      BY <2>1, <2>2, <2>3, <3>2
    <3> HIDE DEF puts
    <3>4. syscalls' = [puts EXCEPT ![Reserved + 1] = "getmodsym"]
      BY <2>2, <3>3 DEF Registered
    <3> QED BY <2>2, <3>1, <3>4
  <2>5. SyscallsInPlace'
    BY <2>1, <2>2, <2>3, <2>4 DEF SyscallsInPlace, Booting
  <2>6. LoadPhases'
    BY <1>1, <2>1 DEF ModInv, LoadPhases, Booting, MpcValues
  <2> QED BY <2>1, <2>5, <2>6 DEF ModInv, KernelFirst, KernelListed, AnswersKernels
<1> QED BY <1>2, <1>3, <1>4, <1>5

(* A file that is loaded lists its symbols behind all others; one that is run lists none. *)
LEMMA LoadModInv ==
    ASSUME ModInv, NEW f \in Files, ldmod(f) \/ exec(f)
    PROVE  ModInv'
<1>1. /\ mpc = "run" /\ loads' = loads + 1 /\ answer' = NoAnswer /\ loads \in Nat
      /\ UNCHANGED <<sym, syscalls, syscall_max>>
  BY DEF ldmod, exec, Load, ModInv, LoadPhases
<1>2. AnswersKernels'
  <2>1. answer'.name = ""
    BY <1>1 DEF NoAnswer
  <2>2. \A t \in ToSet(KernelTable) : t.name # ""
    BY TableEntries
  <2> QED BY <2>1, <2>2 DEF AnswersKernels
<1>3. CASE UNCHANGED exports /\ mpc' \in {"entry", "panicked"}
  <2>1. LoadPhases'
    BY <1>1, <1>3 DEF ModInv, LoadPhases, Booting, MpcValues
  <2> QED BY <1>1, <1>2, <1>3, <2>1 DEF ModInv, KernelFirst, KernelListed, SyscallsInPlace, Booting
<1>4. CASE mpc' = "entry" /\ f.table # <<>> /\ exports' = Listed(loads + 1, f)
  <2> DEFINE s == [i \in 1 .. Len(f.table) - 1 |-> Symbol(loads + 1, f.table[i + 1])]
  <2>1. \A S : f.table \in Seq(S) => /\ Len(f.table) \in Nat
                                     /\ f.table # <<>> => Len(f.table) - 1 \in Nat
                                     /\ \A i \in 1 .. Len(f.table) : f.table[i] \in S
    OBVIOUS
  <2>2. /\ Len(f.table) - 1 \in Nat
        /\ \A i \in 1 .. Len(f.table) : f.table[i] \in [kind : STRING, name : STRING]
    BY <1>4, <2>1, ModAssumption
  <2>3. \A i \in 1 .. Len(f.table) - 1 :
            /\ Symbol(loads + 1, f.table[i + 1]) \in Listings
            /\ Symbol(loads + 1, f.table[i + 1]).fn[1] = loads + 1
            /\ Symbol(loads + 1, f.table[i + 1]).fn[2] = Symbol(loads + 1, f.table[i + 1]).name
    <3> TAKE i \in 1 .. Len(f.table) - 1
    <3>1. f.table[i + 1] \in [kind : STRING, name : STRING] /\ loads + 1 \in Nat
      BY <1>1, <2>2
    <3> QED BY <3>1, SymbolIs
  <2>4. s \in Seq(Listings) /\ DOMAIN s = 1 .. Len(f.table) - 1
    BY <2>2, <2>3
  <2>5. \A i \in DOMAIN s : s[i].fn[2] = s[i].name /\ s[i].fn[1] # 0
    BY <1>1, <2>3, <2>4
  <2>6. exports' = exports \o s
    BY <1>4 DEF Listed
  <2> HIDE DEF s
  <2>7. mpc \notin Booting /\ mpc' \notin Booting /\ mpc' \in MpcValues
    BY <1>1, <1>4 DEF Booting, MpcValues
  <2>8. LoadPhases' /\ KernelFirst' /\ KernelListed'
    <3>1. LoadPhases /\ KernelFirst /\ KernelListed /\ sym' = sym /\ loads' \in Nat
      BY <1>1 DEF ModInv
    <3>2. s \in Seq(Listings)
      BY <2>4
    <3> QED BY <2>5, <2>6, <2>7, <3>1, <3>2, ExportsGrow
  <2> QED BY <1>1, <1>2, <2>7, <2>8 DEF ModInv, SyscallsInPlace
<1> QED BY <1>3, <1>4 DEF ldmod, exec

(* No answer is the kernel's. *)
LEMMA NoAnswerKernels ==
    ASSUME answer' = NoAnswer
    PROVE  AnswersKernels'
<1>1. answer'.name = ""
  BY DEF NoAnswer
<1>2. \A t \in ToSet(KernelTable) : t.name # ""
  BY TableEntries
<1> QED BY <1>1, <1>2 DEF AnswersKernels

(* A program that runs changes neither the lists nor the table of system calls. *)
LEMMA ProgramModInv ==
    ASSUME ModInv, Returns \/ module_init \/ Call \/ (\E name \in running.wants : INIT(name))
    PROVE  ModInv'
<1>1. /\ mpc = "entry" /\ mpc' \in {"run", "entry", "wild"}
      /\ UNCHANGED <<sym, exports, modules, syscalls, syscall_max, loads>>
  BY DEF Returns, module_init, Call, INIT
<1>2. LoadPhases' /\ KernelFirst' /\ KernelListed' /\ SyscallsInPlace'
  <2>1. LoadPhases'
    BY <1>1 DEF ModInv, LoadPhases, Booting, MpcValues
  <2> QED BY <1>1, <2>1 DEF ModInv, KernelFirst, KernelListed, SyscallsInPlace, Booting
<1>3. CASE Returns
  BY <1>2, <1>3, NoAnswerKernels DEF ModInv, Returns
<1>4. CASE module_init \/ Call
  BY <1>2, <1>4 DEF ModInv, AnswersKernels, module_init, Call
<1>5. ASSUME NEW name \in running.wants, INIT(name) PROVE AnswersKernels'
  <2>1. PICK fn \in mod_sym_get(name) : answer' = [name |-> name, fn |-> fn]
    BY <1>5 DEF INIT
  <2> SUFFICES ASSUME NEW t \in ToSet(KernelTable), t.kind = "sym", answer'.name = t.name
               PROVE  answer'.fn = <<0, t.name>>
    BY DEF AnswersKernels
  <2>2. mod_sym_get(t.name) = {<<0, t.name>>}
    BY <1>1, KernelFound DEF ModInv
  <2>3. name = t.name /\ answer'.fn = fn
    BY <2>1
  <2> QED BY <2>1, <2>2, <2>3
<1> QED BY <1>2, <1>3, <1>4, <1>5 DEF ModInv

(* getmodsym is found as long as the table is in place. *)
LEMMA GetmodsymFound ==
    ASSUME SyscallsInPlace, mpc = "entry"
    PROVE  get_syscall_dynamic("getmodsym") # -1
<1> DEFINE found == {i \in 0 .. syscall_max - 1 : syscalls[i] # NoSyscall /\ syscalls[i] = "getmodsym"}
<1>1. /\ syscall_max = Reserved + 2 /\ syscalls[Reserved + 1] = "getmodsym" /\ Reserved \in Nat
  BY ModAssumption DEF SyscallsInPlace, Booting
<1>2. Reserved + 1 \in found /\ found \in SUBSET Nat
  BY <1>1 DEF NoSyscall
<1>3. get_syscall_dynamic("getmodsym") = Min(found)
  BY <1>2 DEF get_syscall_dynamic
<1> HIDE DEF found
<1>4. Min(found) \in Nat
  <2>1. (CHOOSE m \in found : \A n \in found : m <= n) \in found
    BY <1>2, LeastIs
  <2> QED BY <1>2, <2>1 DEF Min
<1> QED BY <1>3, <1>4

(* The inductive invariant of boot and loading: the kernel's symbols are listed before any
   module's, and the two system calls a program asks by have their numbers. *)
THEOREM ModInvariance == ModSpec => []ModInv
<1>1. ModInit => ModInv
  <2> SUFFICES ASSUME ModInit PROVE ModInv
    OBVIOUS
  <2>1. /\ mpc = "early_init" /\ sym = 1 /\ exports = <<>> /\ loads = 0 /\ answer = NoAnswer
        /\ syscall_max = Reserved /\ syscalls = [i \in 0 .. NrMax - 1 |-> NoSyscall]
    BY DEF ModInit
  <2>2. 1 \in 1 .. Len(KernelTable) + 1
    <3>1. Len(KernelTable) \in Nat
      BY TableEntries
    <3> QED BY <3>1
  <2>3. LoadPhases
    BY <2>1, <2>2 DEF LoadPhases, Booting, MpcValues
  <2>4. AnswersKernels
    <3>1. answer.name = ""
      BY <2>1 DEF NoAnswer
    <3>2. \A t \in ToSet(KernelTable) : t.name # ""
      BY TableEntries
    <3> QED BY <3>1, <3>2 DEF AnswersKernels
  <2> QED BY <2>1, <2>3, <2>4 DEF ModInv, KernelFirst, KernelListed, SyscallsInPlace, Booting
<1>2. ModInv /\ [ModNext]_modvars => ModInv'
  <2> SUFFICES ASSUME ModInv, [ModNext]_modvars PROVE ModInv'
    OBVIOUS
  <2>1. CASE EarlyInit \/ EarlyInitEnd \/ KSymtabAdd \/ SyscallsInit
    BY <2>1, BootModInv
  <2>2. ASSUME NEW f \in Files, ldmod(f) \/ exec(f) PROVE ModInv'
    BY <2>2, LoadModInv
  <2>3. CASE Returns \/ module_init \/ Call \/ (\E name \in running.wants : INIT(name))
    BY <2>3, ProgramModInv
  <2>4. CASE UNCHANGED modvars
    BY <2>4 DEF modvars, ModInv, LoadPhases, KernelFirst, KernelListed, SyscallsInPlace, AnswersKernels
  <2> QED BY <2>1, <2>2, <2>3, <2>4 DEF ModNext
<1> QED BY <1>1, <1>2, PTL DEF ModSpec

(* Whatever modules export under whatever names, a program that asks for a function of the
   kernel gets the kernel's, and it finds the system call to ask by. *)
THEOREM ResolutionCorrect == ModSpec => []KernelResolves
<1>1. ModInv => KernelResolves
  BY GetmodsymFound DEF ModInv, KernelResolves, AnswersKernels
<1> QED BY <1>1, ModInvariance, PTL

(***************************************************************************)
(* The configuration, for all namespaces, keys, texts and numbers.         *)
(***************************************************************************)

\* What a value holds: a string its place on the heap, any other a number.
ValuesHeld ==
    \A ns \in DOMAIN namespaces : \A k \in DOMAIN namespaces[ns] :
        \/ namespaces[ns][k].type = "str" /\ namespaces[ns][k].val \in DOMAIN texts
        \/ namespaces[ns][k].type \in {"int", "obj"} /\ namespaces[ns][k].val \in Numbers

\* No two keys hold the same string.
OwnTexts ==
    \A ns, ms \in DOMAIN namespaces : \A k \in DOMAIN namespaces[ns], j \in DOMAIN namespaces[ms] :
        /\ namespaces[ns][k].type = "str" /\ namespaces[ms][j].type = "str"
        /\ namespaces[ns][k].val = namespaces[ms][j].val
        => ns = ms /\ k = j

TextsOnHeap == DOMAIN texts \subseteq 1 .. MaxTexts

ConfInv == ValuesHeld /\ OwnTexts /\ TextsOnHeap

(* With room on the heap a string is put where none is. *)
LEMMA PlaceFree ==
    ASSUME NEW used \in SUBSET (1 .. MaxTexts), Cardinality(used) < MaxTexts
    PROVE  Place(used) \in 1 .. MaxTexts \ used
<1> DEFINE C == 1 .. MaxTexts \ used
<1>1. C # {}
  <2> SUFFICES ASSUME C = {} PROVE FALSE
    OBVIOUS
  <2>1. IsFiniteSet(1 .. MaxTexts) /\ Cardinality(1 .. MaxTexts) = MaxTexts
    BY FS_Interval, ConfAssumption
  <2>2. used = 1 .. MaxTexts
    OBVIOUS
  <2> QED BY <2>1, <2>2, ConfAssumption
<1>2. C \in SUBSET Nat
  BY ConfAssumption
<1> HIDE DEF C
<1>3. (CHOOSE m \in C : \A n \in C : m <= n) \in C
  BY <1>1, <1>2, LeastIs
<1> QED BY <1>3 DEF Place, C

\* What a value says where T is the heap, and the entries of the namespaces N there.
SaidIn(T, v) ==
    IF v.type # "str" THEN <<v.type, v.val>>
    ELSE IF v.val \in DOMAIN T THEN <<"str", T[v.val]>> ELSE <<"str", "freed">>
KeysOf(N) == UNION {{ns} \X DOMAIN N[ns] : ns \in DOMAIN N}
AreEntries(E, N, T) ==
    DOMAIN E = KeysOf(N) /\ \A p \in KeysOf(N) : E[p] = SaidIn(T, N[p[1]][p[2]])

(* The entries of all namespaces, one for each namespace and key. *)
LEMMA EntriesAre ==
    ASSUME NEW N, NEW T, NEW E, AreEntries(E, N, T)
    PROVE  /\ \A ns \in DOMAIN N : \A k \in DOMAIN N[ns] :
                 <<ns, k>> \in DOMAIN E /\ E[<<ns, k>>] = SaidIn(T, N[ns][k])
           /\ \A p \in DOMAIN E : \E ns \in DOMAIN N : \E k \in DOMAIN N[ns] : p = <<ns, k>>
           /\ \A ns, k : <<ns, k>> \in DOMAIN E => ns \in DOMAIN N /\ k \in DOMAIN N[ns]
<1> DEFINE Keys == KeysOf(N)
<1>1. DOMAIN E = Keys /\ \A p \in Keys : E[p] = SaidIn(T, N[p[1]][p[2]])
  BY DEF AreEntries
<1>2. \A ns, k : <<ns, k>> \in Keys <=> ns \in DOMAIN N /\ k \in DOMAIN N[ns]
  BY DEF KeysOf
<1>3. \A p \in Keys : \E ns \in DOMAIN N : \E k \in DOMAIN N[ns] : p = <<ns, k>>
  BY DEF KeysOf
<1> HIDE DEF Keys
<1>4. \A ns \in DOMAIN N : \A k \in DOMAIN N[ns] : E[<<ns, k>>] = SaidIn(T, N[ns][k])
  <2> TAKE ns \in DOMAIN N
  <2> TAKE k \in DOMAIN N[ns]
  <2>1. <<ns, k>> \in Keys /\ <<ns, k>>[1] = ns /\ <<ns, k>>[2] = k
    BY <1>2
  <2> QED BY <1>1, <2>1
<1> QED BY <1>1, <1>2, <1>3, <1>4

(* The entries before a step. *)
LEMMA EntryIs ==
    /\ \A ns \in DOMAIN namespaces : \A k \in DOMAIN namespaces[ns] :
          <<ns, k>> \in DOMAIN Entry /\ Entry[<<ns, k>>] = SaidIn(texts, namespaces[ns][k])
    /\ \A p \in DOMAIN Entry : \E ns \in DOMAIN namespaces : \E k \in DOMAIN namespaces[ns] : p = <<ns, k>>
    /\ \A ns, k : <<ns, k>> \in DOMAIN Entry => ns \in DOMAIN namespaces /\ k \in DOMAIN namespaces[ns]
    /\ Entry = [p \in DOMAIN Entry |-> Entry[p]]
<1>1. Entry = [p \in DOMAIN Entry |-> Entry[p]] /\ AreEntries(Entry, namespaces, texts)
  BY DEF Entry, KeysOf, Said, SaidIn, AreEntries
<1> QED BY <1>1, EntriesAre

(* The entries after it. *)
LEMMA NextEntryIs ==
    /\ \A ns \in DOMAIN namespaces' : \A k \in DOMAIN namespaces'[ns] :
          <<ns, k>> \in DOMAIN Entry' /\ Entry'[<<ns, k>>] = SaidIn(texts', namespaces'[ns][k])
    /\ \A p \in DOMAIN Entry' : \E ns \in DOMAIN namespaces' : \E k \in DOMAIN namespaces'[ns] : p = <<ns, k>>
    /\ \A ns, k : <<ns, k>> \in DOMAIN Entry' => ns \in DOMAIN namespaces' /\ k \in DOMAIN namespaces'[ns]
    /\ Entry' = [p \in DOMAIN Entry' |-> Entry'[p]]
<1>1. Entry' = [p \in DOMAIN Entry' |-> Entry'[p]] /\ AreEntries(Entry', namespaces', texts')
  BY DEF Entry, KeysOf, Said, SaidIn, AreEntries
<1> QED BY <1>1, EntriesAre

(* Setting a value changes the one key. *)
LEMMA SetCommonIs ==
    ASSUME NEW ns \in DOMAIN namespaces, NEW key, NEW type, NEW val, SetCommon(ns, key, type, val)
    PROVE  /\ DOMAIN namespaces' = DOMAIN namespaces
           /\ DOMAIN namespaces'[ns] = DOMAIN namespaces[ns] \cup {key}
           /\ namespaces'[ns][key].type = type /\ namespaces'[ns][key].val = val
           /\ \A k \in DOMAIN namespaces[ns] : k # key => namespaces'[ns][k] = namespaces[ns][k]
           /\ \A ms \in DOMAIN namespaces : ms # ns => namespaces'[ms] = namespaces[ms]
BY DEF SetCommon

\* A map whose key k is set to e.
SetTo(map, k, e) == [p \in DOMAIN map \cup {k} |-> IF p = k THEN e ELSE map[p]]

(* The entries after a value is set, if what the others say has not changed. *)
LEMMA SetEntry ==
    ASSUME NEW ns \in DOMAIN namespaces, NEW key, NEW type, NEW val, NEW e,
           SetCommon(ns, key, type, val), SaidIn(texts', namespaces'[ns][key]) = e,
           \A ms \in DOMAIN namespaces : \A k \in DOMAIN namespaces[ms] :
               ms # ns \/ k # key =>
                   SaidIn(texts', namespaces'[ms][k]) = SaidIn(texts, namespaces[ms][k])
    PROVE  Entry' = SetTo(Entry, <<ns, key>>, e)
<1>1. /\ \A ms \in DOMAIN namespaces' : \A k \in DOMAIN namespaces'[ms] :
            <<ms, k>> \in DOMAIN Entry' /\ Entry'[<<ms, k>>] = SaidIn(texts', namespaces'[ms][k])
      /\ \A p \in DOMAIN Entry' :
            \E ms \in DOMAIN namespaces' : \E k \in DOMAIN namespaces'[ms] : p = <<ms, k>>
      /\ Entry' = [p \in DOMAIN Entry' |-> Entry'[p]]
  BY NextEntryIs
<1>2. /\ DOMAIN namespaces' = DOMAIN namespaces
      /\ DOMAIN namespaces'[ns] = DOMAIN namespaces[ns] \cup {key}
      /\ \A ms \in DOMAIN namespaces : ms # ns => DOMAIN namespaces'[ms] = DOMAIN namespaces[ms]
  BY SetCommonIs
<1>3. DOMAIN Entry' = DOMAIN Entry \cup {<<ns, key>>}
  <2>1. ASSUME NEW p \in DOMAIN Entry' PROVE p \in DOMAIN Entry \cup {<<ns, key>>}
    <3>1. PICK ms \in DOMAIN namespaces' : \E k \in DOMAIN namespaces'[ms] : p = <<ms, k>>
      BY <1>1
    <3>2. PICK k \in DOMAIN namespaces'[ms] : p = <<ms, k>>
      BY <3>1
    <3> QED BY <1>2, <3>2, EntryIs
  <2>2. ASSUME NEW p \in DOMAIN Entry PROVE p \in DOMAIN Entry'
    <3>1. PICK ms \in DOMAIN namespaces : \E k \in DOMAIN namespaces[ms] : p = <<ms, k>>
      BY EntryIs
    <3>2. PICK k \in DOMAIN namespaces[ms] : p = <<ms, k>>
      BY <3>1
    <3> QED BY <1>1, <1>2, <3>2
  <2>3. <<ns, key>> \in DOMAIN Entry'
    BY <1>1, <1>2
  <2> QED BY <2>1, <2>2, <2>3
<1>4. Entry'[<<ns, key>>] = e
  BY <1>1, <1>2
<1>5. ASSUME NEW p \in DOMAIN Entry, p # <<ns, key>> PROVE Entry'[p] = Entry[p]
  <2>1. PICK ms \in DOMAIN namespaces : \E k \in DOMAIN namespaces[ms] : p = <<ms, k>>
    BY EntryIs
  <2>2. PICK k \in DOMAIN namespaces[ms] : p = <<ms, k>>
    BY <2>1
  <2>3. ms # ns \/ k # key
    BY <1>5, <2>2
  <2>4. Entry[p] = SaidIn(texts, namespaces[ms][k])
    BY <2>2, EntryIs
  <2>5. Entry'[p] = SaidIn(texts', namespaces'[ms][k])
    BY <1>1, <1>2, <2>2
  <2> QED BY <2>3, <2>4, <2>5
<1>6. \A p \in DOMAIN Entry' : Entry'[p] = IF p = <<ns, key>> THEN e ELSE Entry[p]
  BY <1>3, <1>4, <1>5
<1>7. Entry' = [p \in DOMAIN Entry' |-> IF p = <<ns, key>> THEN e ELSE Entry[p]]
  <2>1. Entry' = [p \in DOMAIN Entry' |-> Entry'[p]]
    BY <1>1
  <2>2. PICK F : F = Entry'
    OBVIOUS
  <2>3. F = [p \in DOMAIN F |-> F[p]]
    BY <2>1, <2>2
  <2>4. \A p \in DOMAIN F : F[p] = IF p = <<ns, key>> THEN e ELSE Entry[p]
    BY <1>6, <2>2
  <2>5. F = [p \in DOMAIN F |-> IF p = <<ns, key>> THEN e ELSE Entry[p]]
    BY <2>3, <2>4
  <2> QED BY <2>2, <2>5
<1> QED BY <1>3, <1>7 DEF SetTo

(* Setting a number of any type. *)
LEMMA SetNumberInv ==
    ASSUME ConfInv, NEW ns \in DOMAIN namespaces, NEW key, NEW type \in {"int", "obj"}, NEW n \in Numbers,
           SetCommon(ns, key, type, n), UNCHANGED texts
    PROVE  /\ ConfInv'
           /\ Entry' = SetTo(Entry, <<ns, key>>, <<type, n>>)
<1>1. /\ DOMAIN namespaces' = DOMAIN namespaces
      /\ DOMAIN namespaces'[ns] = DOMAIN namespaces[ns] \cup {key}
      /\ namespaces'[ns][key].type = type /\ namespaces'[ns][key].val = n
      /\ \A k \in DOMAIN namespaces[ns] : k # key => namespaces'[ns][k] = namespaces[ns][k]
      /\ \A ms \in DOMAIN namespaces : ms # ns => namespaces'[ms] = namespaces[ms]
  BY SetCommonIs
<1>2. ASSUME NEW ms \in DOMAIN namespaces', NEW k \in DOMAIN namespaces'[ms], ms # ns \/ k # key
      PROVE  k \in DOMAIN namespaces[ms] /\ namespaces'[ms][k] = namespaces[ms][k]
  BY <1>1, <1>2
<1>3. ValuesHeld'
  BY <1>1, <1>2 DEF ConfInv, ValuesHeld
<1>4. OwnTexts'
  <2> SUFFICES ASSUME NEW ms \in DOMAIN namespaces', NEW ls \in DOMAIN namespaces',
                      NEW k \in DOMAIN namespaces'[ms], NEW j \in DOMAIN namespaces'[ls],
                      namespaces'[ms][k].type = "str", namespaces'[ls][j].type = "str",
                      namespaces'[ms][k].val = namespaces'[ls][j].val
               PROVE  ms = ls /\ k = j
    BY DEF OwnTexts
  <2>1. (ms # ns \/ k # key) /\ (ls # ns \/ j # key)
    BY <1>1
  <2> QED BY <1>1, <1>2, <2>1 DEF ConfInv, OwnTexts
<1>5. TextsOnHeap'
  BY DEF ConfInv, TextsOnHeap
<1>6. SaidIn(texts', namespaces'[ns][key]) = <<type, n>>
  BY <1>1 DEF SaidIn
<1>7. \A ms \in DOMAIN namespaces : \A k \in DOMAIN namespaces[ms] :
          ms # ns \/ k # key => SaidIn(texts', namespaces'[ms][k]) = SaidIn(texts, namespaces[ms][k])
  BY <1>1
<1> QED BY <1>3, <1>4, <1>5, <1>6, <1>7, SetEntry DEF ConfInv

(* The strings of other keys are not those config_setstrns frees. *)
LEMMA OthersKept ==
    ASSUME ConfInv, NEW ns \in DOMAIN namespaces, NEW key,
           NEW ms \in DOMAIN namespaces, NEW k \in DOMAIN namespaces[ms], ms # ns \/ k # key,
           namespaces[ms][k].type = "str"
    PROVE  namespaces[ms][k].val \in DOMAIN texts \ OldText(ns, key)
<1>1. namespaces[ms][k].val \in DOMAIN texts
  BY DEF ConfInv, ValuesHeld
<1>2. namespaces[ms][k].val \notin OldText(ns, key)
  BY DEF ConfInv, OwnTexts, OldText, Has
<1> QED BY <1>1, <1>2

(* The new string lies where no string is that is kept. *)
LEMMA SetTextIs ==
    ASSUME ConfInv, NEW ns \in DOMAIN namespaces, NEW key, NEW text, SetText(ns, key, text)
    PROVE  \E p \in DOMAIN texts' :
              /\ SetCommon(ns, key, "str", p) /\ texts'[p] = text
              /\ TextsOnHeap'
              /\ \A q \in DOMAIN texts \ OldText(ns, key) :
                    q # p /\ q \in DOMAIN texts' /\ texts'[q] = texts[q]
<1> DEFINE kept == DOMAIN texts \ OldText(ns, key)
<1>1. /\ Cardinality(kept) < MaxTexts
      /\ texts' = [p \in kept \cup {Place(kept)} |-> IF p = Place(kept) THEN text ELSE texts[p]]
      /\ SetCommon(ns, key, "str", Place(kept))
  BY DEF SetText
<1>2. kept \in SUBSET (1 .. MaxTexts)
  BY DEF ConfInv, TextsOnHeap
<1> HIDE DEF kept
<1>3. Place(kept) \in 1 .. MaxTexts \ kept
  BY <1>1, <1>2, PlaceFree
<1>4. DOMAIN texts' = kept \cup {Place(kept)} /\ texts'[Place(kept)] = text
      /\ \A q \in kept : q # Place(kept) /\ texts'[q] = texts[q]
  BY <1>1, <1>3
<1>5. TextsOnHeap'
  BY <1>2, <1>3, <1>4 DEF TextsOnHeap
<1> QED BY <1>1, <1>4, <1>5 DEF kept

(* Setting a string frees one that only the key has, and no other key's is written over. *)
LEMMA SetTextInv ==
    ASSUME ConfInv, NEW ns \in DOMAIN namespaces, NEW key, NEW text, SetText(ns, key, text)
    PROVE  /\ ConfInv'
           /\ Entry' = SetTo(Entry, <<ns, key>>, <<"str", text>>)
<1>1. PICK place \in DOMAIN texts' :
          /\ SetCommon(ns, key, "str", place) /\ texts'[place] = text
          /\ TextsOnHeap'
          /\ \A q \in DOMAIN texts \ OldText(ns, key) :
                q # place /\ q \in DOMAIN texts' /\ texts'[q] = texts[q]
  BY SetTextIs
<1>2. /\ DOMAIN namespaces' = DOMAIN namespaces
      /\ DOMAIN namespaces'[ns] = DOMAIN namespaces[ns] \cup {key}
      /\ namespaces'[ns][key].type = "str" /\ namespaces'[ns][key].val = place
      /\ \A k \in DOMAIN namespaces[ns] : k # key => namespaces'[ns][k] = namespaces[ns][k]
      /\ \A ms \in DOMAIN namespaces : ms # ns => namespaces'[ms] = namespaces[ms]
  BY <1>1, SetCommonIs
<1>3. ASSUME NEW ms \in DOMAIN namespaces', NEW k \in DOMAIN namespaces'[ms], ms # ns \/ k # key
      PROVE  /\ k \in DOMAIN namespaces[ms] /\ namespaces'[ms][k] = namespaces[ms][k]
             /\ namespaces[ms][k].type = "str" =>
                   LET q == namespaces[ms][k].val
                   IN  q # place /\ q \in DOMAIN texts /\ q \in DOMAIN texts' /\ texts'[q] = texts[q]
  <2>1. ms \in DOMAIN namespaces /\ k \in DOMAIN namespaces[ms] /\ namespaces'[ms][k] = namespaces[ms][k]
    BY <1>2, <1>3
  <2>2. namespaces[ms][k].type = "str" => namespaces[ms][k].val \in DOMAIN texts \ OldText(ns, key)
    BY <1>3, <2>1, OthersKept
  <2> QED BY <1>1, <2>1, <2>2
<1>4. ValuesHeld'
  <2> SUFFICES ASSUME NEW ms \in DOMAIN namespaces', NEW k \in DOMAIN namespaces'[ms]
               PROVE  \/ namespaces'[ms][k].type = "str" /\ namespaces'[ms][k].val \in DOMAIN texts'
                      \/ namespaces'[ms][k].type \in {"int", "obj"} /\ namespaces'[ms][k].val \in Numbers
    BY DEF ValuesHeld
  <2>1. CASE ms = ns /\ k = key
    BY <1>1, <1>2, <2>1
  <2>2. CASE ms # ns \/ k # key
    BY <1>2, <1>3, <2>2 DEF ConfInv, ValuesHeld
  <2> QED BY <2>1, <2>2
<1>5. OwnTexts'
  <2> SUFFICES ASSUME NEW ms \in DOMAIN namespaces', NEW ls \in DOMAIN namespaces',
                      NEW k \in DOMAIN namespaces'[ms], NEW j \in DOMAIN namespaces'[ls],
                      namespaces'[ms][k].type = "str", namespaces'[ls][j].type = "str",
                      namespaces'[ms][k].val = namespaces'[ls][j].val
               PROVE  ms = ls /\ k = j
    BY DEF OwnTexts
  <2>1. CASE ms = ns /\ k = key
    BY <1>2, <1>3, <2>1
  <2>2. CASE ls = ns /\ j = key
    BY <1>2, <1>3, <2>2
  <2>3. CASE (ms # ns \/ k # key) /\ (ls # ns \/ j # key)
    BY <1>2, <1>3, <2>3 DEF ConfInv, OwnTexts
  <2> QED BY <2>1, <2>2, <2>3
<1>6. SaidIn(texts', namespaces'[ns][key]) = <<"str", text>>
  BY <1>1, <1>2 DEF SaidIn
<1>7. \A ms \in DOMAIN namespaces : \A k \in DOMAIN namespaces[ms] :
          ms # ns \/ k # key => SaidIn(texts', namespaces'[ms][k]) = SaidIn(texts, namespaces[ms][k])
  <2> SUFFICES ASSUME NEW ms \in DOMAIN namespaces, NEW k \in DOMAIN namespaces[ms], ms # ns \/ k # key
               PROVE  SaidIn(texts', namespaces'[ms][k]) = SaidIn(texts, namespaces[ms][k])
    OBVIOUS
  <2>1. ms \in DOMAIN namespaces' /\ k \in DOMAIN namespaces'[ms]
    BY <1>2
  <2> QED BY <1>3, <2>1 DEF SaidIn
<1>8. Entry' = SetTo(Entry, <<ns, key>>, <<"str", text>>)
  <2>1. SetCommon(ns, key, "str", place)
    BY <1>1
  <2> QED BY <2>1, <1>6, <1>7, SetEntry
<1> QED BY <1>1, <1>4, <1>5, <1>8 DEF ConfInv

(* A new namespace has no keys, whatever it had before. *)
LEMMA NewNamespaceIs ==
    ASSUME ConfInv, NEW ns, config_newns(ns)
    PROVE  /\ ConfInv' /\ DOMAIN namespaces' = DOMAIN namespaces \cup {ns}
           /\ Entry' = [p \in {j \in DOMAIN Entry : j[1] # ns} |-> Entry[p]]
<1>1. /\ DOMAIN namespaces' = DOMAIN namespaces \cup {ns}
      /\ \A ms \in DOMAIN namespaces : ms # ns => namespaces'[ms] = namespaces[ms]
      /\ DOMAIN namespaces'[ns] = {} /\ texts' = texts
  BY DEF config_newns, Nothing
<1>2. ConfInv'
  BY <1>1 DEF ConfInv, ValuesHeld, OwnTexts, TextsOnHeap
<1> DEFINE Others == {j \in DOMAIN Entry : j[1] # ns}
<1>3. DOMAIN Entry' = Others
  <2>1. ASSUME NEW p \in DOMAIN Entry' PROVE p \in Others
    <3>1. PICK ms \in DOMAIN namespaces' : \E k \in DOMAIN namespaces'[ms] : p = <<ms, k>>
      BY NextEntryIs
    <3>2. PICK k \in DOMAIN namespaces'[ms] : p = <<ms, k>>
      BY <3>1
    <3>3. ms # ns
      BY <1>1, <3>2
    <3> QED BY <1>1, <3>2, <3>3, EntryIs
  <2>2. ASSUME NEW p \in Others PROVE p \in DOMAIN Entry'
    <3>1. PICK ms \in DOMAIN namespaces : \E k \in DOMAIN namespaces[ms] : p = <<ms, k>>
      BY EntryIs
    <3>2. PICK k \in DOMAIN namespaces[ms] : p = <<ms, k>>
      BY <3>1
    <3> QED BY <1>1, <3>2, NextEntryIs
  <2> QED BY <2>1, <2>2
<1>4. ASSUME NEW p \in Others PROVE Entry'[p] = Entry[p]
  <2>1. PICK ms \in DOMAIN namespaces : \E k \in DOMAIN namespaces[ms] : p = <<ms, k>>
    BY EntryIs
  <2>2. PICK k \in DOMAIN namespaces[ms] : p = <<ms, k>>
    BY <2>1
  <2>3. ms # ns
    BY <2>2
  <2>4. Entry[p] = SaidIn(texts, namespaces[ms][k]) /\ Entry'[p] = SaidIn(texts', namespaces'[ms][k])
    BY <1>1, <2>2, <2>3, EntryIs, NextEntryIs
  <2> QED BY <1>1, <2>3, <2>4
<1>5. PICK F : F = Entry'
  OBVIOUS
<1>6. F = [p \in DOMAIN F |-> F[p]]
  BY <1>5, NextEntryIs
<1>7. DOMAIN F = Others /\ \A p \in Others : F[p] = Entry[p]
  BY <1>3, <1>4, <1>5
<1> HIDE DEF Others
<1>8. F = [p \in Others |-> Entry[p]]
  BY <1>6, <1>7
<1> QED BY <1>1, <1>2, <1>5, <1>8 DEF Others

(* A call that stops the kernel, or only looks, sets nothing. *)
LEMMA UnchangedInv ==
    ASSUME ConfInv, UNCHANGED <<namespaces, texts>>
    PROVE  ConfInv' /\ Entry' = Entry
BY DEF ConfInv, ValuesHeld, OwnTexts, TextsOnHeap, Entry, Said

(* Initially nothing is set. *)
LEMMA ConfInitially ==
    ASSUME ConfInit
    PROVE  ConfInv /\ Promised!Init
<1>1. namespaces = Nothing /\ texts = Nothing /\ confGot = None /\ confStopped = FALSE /\ DOMAIN Nothing = {}
  BY DEF ConfInit, Nothing
<1>2. ConfInv
  BY <1>1 DEF ConfInv, ValuesHeld, OwnTexts, TextsOnHeap
<1>3. DOMAIN Entry = {}
  BY <1>1, EntryIs
<1>4. Entry = [k \in {} |-> Promised!None]
  <2>1. PICK E : E = Entry
    OBVIOUS
  <2>2. E = [p \in DOMAIN E |-> E[p]] /\ DOMAIN E = {}
    BY <1>3, <2>1, EntryIs
  <2>3. E = [k \in {} |-> Promised!None]
    BY <2>2
  <2> QED BY <2>1, <2>3
<1> QED BY <1>1, <1>2, <1>4 DEF Promised!Init, Promised!None, None

(* Each call keeps the invariant and is a call, or a stutter, of AbstractConfig. *)
LEMMA ConfStep ==
    ASSUME ConfInv, [ConfNext]_confvars
    PROVE  ConfInv' /\ [Promised!Next]_Promised!vars
<1> DEFINE Entries == ({"int", "obj"} \X Numbers) \cup ({"str"} \X Seq(STRING))
<1> DEFINE Goal == ConfInv' /\ [Promised!Next]_Promised!vars
<1>1. ASSUME ~confStopped, NEW ns \in Namespaces, NoTable(ns) PROVE Goal
  <2>1. ConfInv' /\ Entry' = Entry
    BY <1>1, UnchangedInv DEF NoTable
  <2>2. Promised!Stop(ns)
    BY <1>1, <2>1 DEF NoTable, Promised!Stop
  <2> QED BY <1>1, <2>1, <2>2 DEF Promised!Next
<1>2. ASSUME ~confStopped, NEW e \in Entries, NEW ns \in DOMAIN namespaces, NEW key,
             Entry' = SetTo(Entry, <<ns, key>>, e), confGot' = None,
             DOMAIN namespaces' = DOMAIN namespaces, UNCHANGED confStopped
      PROVE  Promised!Next
  <2> DEFINE k == <<ns, key>>
  <2>1. k \in DOMAIN Entry' /\ Entry'[k] = e
    BY <1>2 DEF SetTo
  <2>2. Promised!Set(k, e)
    BY <1>2 DEF SetTo, Promised!Set, Promised!None, None
  <2>3. Promised!Set(k, Entry'[k]) /\ Entry'[k] \in Entries
    BY <2>1, <2>2
  <2> QED BY <1>2, <2>1, <2>3 DEF Promised!Next
<1>3. ASSUME ~confStopped, NEW ns \in Namespaces, config_newns(ns) PROVE Goal
  <2>1. /\ ConfInv' /\ DOMAIN namespaces' = DOMAIN namespaces \cup {ns}
        /\ Entry' = [p \in {j \in DOMAIN Entry : j[1] # ns} |-> Entry[p]]
    BY <1>3, NewNamespaceIs
  <2>2. confGot' = None /\ UNCHANGED confStopped
    BY <1>3 DEF config_newns
  <2>3. Promised!NewNamespace(ns)
    BY <2>1, <2>2 DEF Promised!NewNamespace, Promised!None, None
  <2> QED BY <1>3, <2>1, <2>3 DEF Promised!Next
<1>4. ASSUME ~confStopped, NEW ns \in Namespaces, NEW key \in ConfKeys, NEW t \in Texts, config_setstrns(ns, key, t)
      PROVE  Goal
  <2>1. CASE NoTable(ns)
    BY <1>1, <1>4, <2>1
  <2>2. CASE ns \in DOMAIN namespaces /\ SetText(ns, key, t)
    <3>1. /\ ConfInv'
          /\ Entry' = SetTo(Entry, <<ns, key>>, <<"str", t>>)
      BY <2>2, SetTextInv
    <3>2. confGot' = None /\ <<"str", t>> \in Entries /\ UNCHANGED confStopped
      BY <2>2, ConfAssumption DEF SetText
    <3>3. DOMAIN namespaces' = DOMAIN namespaces
      BY <2>2 DEF SetText, SetCommon
    <3> HIDE DEF Entries
    <3> QED BY <1>2, <1>4, <2>2, <3>1, <3>2, <3>3
  <2> QED BY <1>4, <2>1, <2>2 DEF config_setstrns
<1>5. ASSUME ~confStopped, NEW ns \in Namespaces, NEW key \in ConfKeys, NEW n \in Numbers,
             NEW type \in {"int", "obj"}, SetNumber(ns, key, type, n)
      PROVE  Goal
  <2>1. CASE NoTable(ns)
    BY <1>1, <1>5, <2>1
  <2>2. CASE /\ ns \in DOMAIN namespaces /\ SetCommon(ns, key, type, n) /\ confGot' = None
             /\ UNCHANGED <<texts, confStopped>>
    <3>1. /\ ConfInv'
          /\ Entry' = SetTo(Entry, <<ns, key>>, <<type, n>>)
      BY <2>2, SetNumberInv
    <3>2. <<type, n>> \in Entries /\ DOMAIN namespaces' = DOMAIN namespaces
      BY <2>2, SetCommonIs
    <3> HIDE DEF Entries
    <3> QED BY <1>2, <1>5, <2>2, <3>1, <3>2
  <2> QED BY <1>5, <2>1, <2>2 DEF SetNumber
<1>6. ASSUME ~confStopped, NEW ns \in Namespaces, NEW key \in ConfKeys, NEW type \in Types, config_getns(ns, key, type)
      PROVE  Goal
  <2>1. CASE NoTable(ns)
    BY <1>1, <1>6, <2>1
  <2>2. CASE /\ ns \in DOMAIN namespaces
             /\ confGot' = IF HasTyped(ns, key, type) THEN <<type, Said(namespaces[ns][key])[2]>> ELSE None
             /\ UNCHANGED <<namespaces, texts, confStopped>>
    <3>1. ConfInv' /\ Entry' = Entry
      BY <2>2, UnchangedInv
    <3>2. CASE Has(ns, key)
      <4> DEFINE v == namespaces[ns][key]
      <4>1. <<ns, key>> \in DOMAIN Entry /\ Entry[<<ns, key>>] = SaidIn(texts, v)
        BY <2>2, <3>2, EntryIs DEF Has
      <4>2. v.type = type => SaidIn(texts, v) = <<type, Said(v)[2]>>
        BY DEF SaidIn, Said
      <4>3. SaidIn(texts, v)[1] = v.type
        BY DEF SaidIn
      <4>4. Promised!Get(<<ns, key>>, type)
        BY <2>2, <3>1, <3>2, <4>1, <4>2, <4>3 DEF Promised!Get, Promised!None, None, HasTyped
      <4> QED BY <1>6, <3>1, <4>1, <4>4 DEF Promised!Next
    <3>3. CASE ~Has(ns, key)
      <4>1. Promised!Absent
        BY <2>2, <3>1, <3>3 DEF HasTyped, Promised!Absent, Promised!None, None
      <4> QED BY <1>6, <3>1, <4>1 DEF Promised!Next
    <3> QED BY <3>2, <3>3
  <2> QED BY <1>6, <2>1, <2>2 DEF config_getns
<1>7. ASSUME ~confStopped, NEW ns \in Namespaces, NEW key \in ConfKeys, config_gettypens(ns, key) PROVE Goal
  <2>1. CASE NoTable(ns)
    BY <1>1, <1>7, <2>1
  <2>2. CASE /\ ns \in DOMAIN namespaces
             /\ confGot' = IF Has(ns, key) THEN <<"type", namespaces[ns][key].type>> ELSE None
             /\ UNCHANGED <<namespaces, texts, confStopped>>
    <3>1. ConfInv' /\ Entry' = Entry
      BY <2>2, UnchangedInv
    <3>2. CASE Has(ns, key)
      <4> DEFINE v == namespaces[ns][key]
      <4>1. <<ns, key>> \in DOMAIN Entry /\ Entry[<<ns, key>>] = SaidIn(texts, v)
        BY <2>2, <3>2, EntryIs DEF Has
      <4>2. SaidIn(texts, v)[1] = v.type
        BY DEF SaidIn
      <4>3. Promised!TypeOf(<<ns, key>>)
        BY <2>2, <3>1, <3>2, <4>1, <4>2 DEF Promised!TypeOf
      <4> QED BY <1>7, <3>1, <4>1, <4>3 DEF Promised!Next
    <3>3. CASE ~Has(ns, key)
      <4>1. Promised!Absent
        BY <2>2, <3>1, <3>3 DEF Promised!Absent, Promised!None, None
      <4> QED BY <1>7, <3>1, <4>1 DEF Promised!Next
    <3> QED BY <3>2, <3>3
  <2> QED BY <1>7, <2>1, <2>2 DEF config_gettypens
<1>8. CASE UNCHANGED confvars
  <2>1. ConfInv' /\ Entry' = Entry
    BY <1>8, UnchangedInv DEF confvars
  <2> QED BY <1>8, <2>1 DEF confvars, Promised!vars
<1>9. CASE ConfNext
  <2>1. /\ \A ns, key, n : config_setobjns(ns, key, n) => SetNumber(ns, key, "obj", n)
        /\ \A ns, key, n : config_setintns(ns, key, n) => SetNumber(ns, key, "int", n)
    BY DEF config_setobjns, config_setintns
  <2>2. ~confStopped
    BY <1>9 DEF ConfNext
  <2>3. CASE \E ns \in Namespaces : config_newns(ns)
    BY <1>3, <2>2, <2>3
  <2>4. ASSUME NEW ns \in Namespaces, NEW key \in ConfKeys,
               \/ \E t \in Texts : config_setstrns(ns, key, t)
               \/ \E n \in Numbers : config_setobjns(ns, key, n) \/ config_setintns(ns, key, n)
               \/ \E type \in Types : config_getns(ns, key, type)
               \/ config_gettypens(ns, key)
        PROVE  Goal
    <3>1. CASE \E t \in Texts : config_setstrns(ns, key, t)
      BY <1>4, <2>2, <3>1
    <3>2. CASE \E n \in Numbers : config_setobjns(ns, key, n) \/ config_setintns(ns, key, n)
      BY <1>5, <2>1, <2>2, <3>2
    <3>3. CASE \E type \in Types : config_getns(ns, key, type)
      BY <1>6, <2>2, <3>3
    <3>4. CASE config_gettypens(ns, key)
      BY <1>7, <2>2, <3>4
    <3> QED BY <2>4, <3>1, <3>2, <3>3, <3>4
  <2> QED BY <1>9, <2>3, <2>4 DEF ConfNext
<1> QED BY <1>8, <1>9

(* The inductive invariant of the configuration: a key of type str has a string on the heap,
   and no two have the same. *)
THEOREM ConfInvariance == ConfSpec => []ConfInv
<1>1. ConfInit => ConfInv
  BY ConfInitially
<1>2. ConfInv /\ [ConfNext]_confvars => ConfInv'
  BY ConfStep
<1> QED BY <1>1, <1>2, PTL DEF ConfSpec

(* Freeing the string of an overwritten key and using its place again never shows in another
   key, no get takes a value for one of another type, and a call with a namespace that is not
   there, and no other, stops the system. *)
THEOREM ConfRefinement == ConfSpec => ImplementsConfig
<1>1. ConfInit => Promised!Init
  BY ConfInitially
<1>2. ConfInv /\ [ConfNext]_confvars => [Promised!Next]_Promised!vars
  BY ConfStep
<1> QED BY <1>1, <1>2, ConfInvariance, PTL DEF ConfSpec, ImplementsConfig, Promised!Spec

(***************************************************************************)
(* The conversions of numbers.  A fold over the characters of a text is a  *)
(* function on sets of positions that the library chooses: it exists, and  *)
(* what it yields on the first n positions follows step by step.  So does  *)
(* the function that itoa writes its digits with.                          *)
(***************************************************************************)

\* A digit is a number, whatever the character.
LEMMA DigitNat == ASSUME NEW c PROVE DigitOf(c) \in Nat
<1> DEFINE D == {i \in 1 .. Len(Decimal) : Decimal[i] = c}
           U == {i \in 1 .. Len(Upper) : Upper[i] = c}
           L == {i \in 1 .. Len(Lower) : Lower[i] = c}
<1>1. Len(Decimal) = 10 /\ Len(Upper) = 8 /\ Len(Lower) = 8
  BY DEF Decimal, Upper, Lower
<1>2. ASSUME NEW I \in SUBSET Nat, I # {} PROVE Min(I) \in I
  BY <1>2, LeastIs DEF Min
<1>3. CASE Contains(Decimal, c)
  <2>1. D # {} /\ D \in SUBSET Nat /\ \A i \in D : i - 1 \in Nat
    BY <1>1, <1>3 DEF Contains
  <2>2. DigitOf(c) = Min(D) - 1
    BY <2>1, <1>3 DEF DigitOf, SelectInSeq
  <2> HIDE DEF D
  <2> QED BY <2>1, <2>2, <1>2
<1>4. CASE ~Contains(Decimal, c) /\ Contains(Upper, c)
  <2>1. U # {} /\ U \in SUBSET Nat /\ \A i \in U : i + 9 \in Nat
    BY <1>1, <1>4 DEF Contains
  <2>2. DigitOf(c) = Min(U) + 9
    BY <2>1, <1>4 DEF DigitOf, SelectInSeq
  <2> HIDE DEF U
  <2> QED BY <2>1, <2>2, <1>2
<1>5. CASE ~Contains(Decimal, c) /\ ~Contains(Upper, c) /\ Contains(Lower, c)
  <2>1. L # {} /\ L \in SUBSET Nat /\ \A i \in L : i + 9 \in Nat
    BY <1>1, <1>5 DEF Contains
  <2>2. DigitOf(c) = Min(L) + 9
    BY <2>1, <1>5 DEF DigitOf, SelectInSeq
  <2> HIDE DEF L
  <2> QED BY <2>1, <2>2, <1>2
<1>6. CASE ~Contains(Decimal, c) /\ ~Contains(Upper, c) /\ ~Contains(Lower, c)
  BY <1>6 DEF DigitOf
<1> QED BY <1>3, <1>4, <1>5, <1>6

\* The digit itoa writes for an amount is the one strtoul and atoi read it back as.
LEMMA DigitIs ==
    ASSUME NEW d \in 0 .. 17
    PROVE  /\ DigitOf((Decimal \o Upper)[d + 1]) = d
           /\ (Decimal \o Upper)[d + 1] \notin {"-", "+"}
           /\ d < 10 => Contains(Decimal, (Decimal \o Upper)[d + 1])
<1> SUFFICES ASSUME NEW c, c = (Decimal \o Upper)[d + 1]
             PROVE  DigitOf(c) = d /\ c \notin {"-", "+"} /\ (d < 10 => Contains(Decimal, c))
  OBVIOUS
<1> DEFINE D == {i \in 1 .. Len(Decimal) : Decimal[i] = c}
           U == {i \in 1 .. Len(Upper) : Upper[i] = c}
<1>1. Len(Decimal) = 10 /\ Len(Upper) = 8
  BY DEF Decimal, Upper
<1>2. CASE d < 10
  <2>1. c = Decimal[d + 1] /\ d + 1 \in 1 .. 10
    BY <1>1, <1>2 DEF Decimal, Upper
  <2>2. D = {d + 1}
    BY <1>1, <2>1 DEF Decimal
  <2>3. Contains(Decimal, c)
    BY <1>1, <2>1 DEF Contains
  <2>4. Min(D) = d + 1
    BY <2>2 DEF Min
  <2>5. DigitOf(c) = Min(D) - 1
    BY <2>2, <2>3 DEF DigitOf, SelectInSeq
  <2>6. c \notin {"-", "+"}
    BY <2>1 DEF Decimal
  <2>7. DigitOf(c) = d
    <3> HIDE DEF D
    <3> QED BY <2>4, <2>5
  <2> QED BY <2>3, <2>6, <2>7
<1>3. CASE d >= 10
  <2>1. c = Upper[d - 9] /\ d - 9 \in 1 .. 8
    <3>1. (Decimal \o Upper)[d + 1] = Upper[d + 1 - 10]
      BY <1>1, <1>3 DEF Decimal, Upper
    <3>2. d + 1 - 10 = d - 9 /\ d - 9 \in 1 .. 8
      BY <1>3
    <3> QED BY <3>1, <3>2
  <2>2. U = {d - 9}
    <3>1. \A i, j \in 1 .. 8 : Upper[i] = Upper[j] => i = j
      BY DEF Upper
    <3> QED BY <1>1, <2>1, <3>1
  <2>3. Contains(Upper, c)
    BY <1>1, <2>1 DEF Contains
  <2>4. Min(U) = d - 9
    <3>1. U \in SUBSET Nat /\ U # {}
      BY <2>1, <2>2
    <3>2. Min(U) \in U
      BY <3>1, LeastIs DEF Min
    <3> QED BY <2>2, <3>2
  <2>5. ~Contains(Decimal, c)
    <3>1. \A i \in 1 .. 8, j \in 1 .. 10 : Upper[i] # Decimal[j]
      BY DEF Upper, Decimal
    <3> QED BY <1>1, <2>1, <3>1 DEF Contains
  <2>6. DigitOf(c) = Min(U) + 9
    BY <2>2, <2>3, <2>5 DEF DigitOf, SelectInSeq
  <2>7. c \notin {"-", "+"}
    <3>1. \A i \in 1 .. 8 : Upper[i] # "-" /\ Upper[i] # "+"
      BY DEF Upper
    <3> QED BY <2>1, <3>1
  <2>8. DigitOf(c) = d /\ ~(d < 10)
    <3> HIDE DEF U
    <3> QED BY <1>3, <2>4, <2>6
  <2> QED BY <2>7, <2>8
<1>4. d < 10 \/ d >= 10
  OBVIOUS
<1> QED BY <1>2, <1>3, <1>4

\* h is what the first n characters of s denote in base b, character by character.
RunsUp(h, s, n, b) ==
    /\ h[0] = 0
    /\ \A j \in 0 .. n - 1 : h[j + 1] = h[j] * b + DigitOf(s[j + 1])

\* What digits denote, character by character.
LEMMA DenotedRuns ==
    ASSUME NEW s, NEW n \in Nat, DOMAIN s = 1 .. n, NEW b \in Nat
    PROVE  \E h \in [0 .. n -> Nat] : RunsUp(h, s, n, b) /\ h[n] = Denoted(s, b)
<1> DEFINE F == [i \in 1 .. n |-> [t \in Nat |-> t * b + DigitOf(s[i])]]
           Folds(g) == g = [r \in SUBSET (1 .. n) |->
                              IF r = {} THEN 0 ELSE g[r \ {Max(r)}] * b + DigitOf(s[Max(r)])]
           g == CHOOSE g : Folds(g)
           h == [j \in 0 .. n |-> g[1 .. j]]
<1>1. F \in [1 .. n -> [Nat -> Nat]]
  BY DigitNat
<1>2. Folds(g)
  <2>1. PICK f \in [SUBSET (1 .. n) -> Nat] : Folded(f, 0, n, F)
    <3> HIDE DEF F
    <3> QED BY <1>1, FoldExists
  <2>2. ASSUME NEW r \in SUBSET (1 .. n), r # {}
        PROVE  F[Max(r)][f[r \ {Max(r)}]] = f[r \ {Max(r)}] * b + DigitOf(s[Max(r)])
    <3>1. Max(r) \in 1 .. n
      BY <2>2, MaxIs
    <3>2. f[r \ {Max(r)}] \in Nat
      OBVIOUS
    <3> QED BY <3>1, <3>2
  <2>3. Folds(f)
    <3> HIDE DEF F
    <3> QED BY <2>1, <2>2 DEF Folded
  <2> HIDE DEF Folds
  <2> QED BY <2>3
<1>3. Denoted(s, b) = g[1 .. n]
  BY DEF Denoted, FoldLeft, MapThenFoldSet
<1> HIDE DEF g
<1>4. h[0] = 0
  <2>1. 1 .. 0 = {} /\ {} \in SUBSET (1 .. n)
    OBVIOUS
  <2>2. g[{}] = 0
    BY <1>2, <2>1
  <2> QED BY <2>1, <2>2
<1>5. ASSUME NEW j \in 0 .. n - 1 PROVE h[j + 1] = h[j] * b + DigitOf(s[j + 1])
  <2>1. /\ 1 .. j + 1 \in SUBSET (1 .. n) /\ 1 .. j + 1 # {} /\ Max(1 .. j + 1) = j + 1
        /\ (1 .. j + 1) \ {j + 1} = 1 .. j
    BY FirstPositions
  <2>2. g[1 .. j + 1] = g[1 .. j] * b + DigitOf(s[j + 1])
    BY <1>2, <2>1
  <2> QED BY <2>2
<1> DEFINE P == {j \in 0 .. n : h[j] \in Nat}
<1>6. \A j \in 0 .. n : j \in P
  <2>1. 0 \in P
    BY <1>4
  <2>2. ASSUME NEW j \in 0 .. n - 1, j \in P PROVE j + 1 \in P
    <3>1. h[j] \in Nat
      BY <2>2
    <3>2. DigitOf(s[j + 1]) \in Nat
      BY DigitNat
    <3> HIDE DEF h
    <3>3. h[j] * b + DigitOf(s[j + 1]) \in Nat
      BY <3>1, <3>2
    <3> QED BY <3>3, <1>5
  <2> HIDE DEF P
  <2> QED BY <2>1, <2>2, Upwards
<1>7. h \in [0 .. n -> Nat] /\ h[n] = Denoted(s, b)
  BY <1>6, <1>3
<1> HIDE DEF h
<1> QED BY <1>4, <1>5, <1>7 DEF RunsUp

\* One more digit behind the others.
LEMMA DenotedBehind ==
    ASSUME NEW C, NEW s \in Seq(C), NEW c \in C, NEW b \in Nat
    PROVE  Denoted(s \o <<c>>, b) = Denoted(s, b) * b + DigitOf(c) /\ Denoted(s, b) \in Nat
<1> DEFINE n == Len(s)
           t == s \o <<c>>
<1>1. /\ n \in Nat /\ DOMAIN s = 1 .. n /\ DOMAIN t = 1 .. n + 1
      /\ t[n + 1] = c /\ \A j \in 0 .. n - 1 : t[j + 1] = s[j + 1]
  OBVIOUS
<1> HIDE DEF n, t
<1>2. PICK h \in [0 .. n -> Nat] : RunsUp(h, s, n, b) /\ h[n] = Denoted(s, b)
  BY <1>1, DenotedRuns
<1>3. PICK k \in [0 .. n + 1 -> Nat] : RunsUp(k, t, n + 1, b) /\ k[n + 1] = Denoted(t, b)
  <2>1. n + 1 \in Nat
    BY <1>1
  <2> QED BY <1>1, <2>1, DenotedRuns
<1> DEFINE P == {j \in 0 .. n : k[j] = h[j]}
<1>4. 0 \in P
  BY <1>1, <1>2, <1>3 DEF RunsUp
<1>5. ASSUME NEW j \in 0 .. n - 1, j \in P PROVE j + 1 \in P
  <2>1. j + 1 \in 0 .. n /\ j \in 0 .. n + 1 - 1
    BY <1>1
  <2> QED BY <2>1, <1>1, <1>2, <1>3, <1>5 DEF RunsUp
<1> HIDE DEF P
<1>6. n \in P
  <2>1. \A j \in 0 .. n : j \in P
    BY <1>1, <1>4, <1>5, Upwards
  <2> QED BY <2>1, <1>1
<1>7. k[n] = h[n] /\ n \in 0 .. n + 1 - 1 /\ n \in 0 .. n
  BY <1>1, <1>6 DEF P
<1>8. k[n + 1] = k[n] * b + DigitOf(t[n + 1]) /\ h[n] \in Nat
  BY <1>3, <1>7 DEF RunsUp
<1> QED BY <1>1, <1>2, <1>3, <1>7, <1>8 DEF t

\* Nothing denotes 0.
LEMMA DenotedNothing == ASSUME NEW b \in Nat PROVE Denoted(<<>>, b) = 0
<1>1. DOMAIN <<>> = 1 .. 0 /\ 0 \in Nat
  OBVIOUS
<1>2. PICK h \in [0 .. 0 -> Nat] : RunsUp(h, <<>>, 0, b) /\ h[0] = Denoted(<<>>, b)
  BY <1>1, DenotedRuns
<1> QED BY <1>2 DEF RunsUp

\* Powers of two are not 0: of ^ the provers know that it yields a number.
Powers == 2 ^ Width > 0 /\ 2 ^ (Width - 1) > 0

\* The limits of the types.
LEMMA Limits ==
    ASSUME Powers
    PROVE  /\ 2 ^ Width \in Nat \ {0} /\ ULongMax \in Nat /\ ULongMax + 1 = 2 ^ Width
           /\ IntMin \in Int /\ IntMin < 0 /\ IntMax \in Nat /\ IntMax = -IntMin - 1
           /\ Undefined = IntMax + 1
<1>1. Width \in Nat /\ Width - 1 \in Nat
  BY WidthAssumption
<1>2. 2 ^ Width \in Int /\ 2 ^ (Width - 1) \in Int
  BY <1>1
<1> DEFINE p == 2 ^ Width
           q == 2 ^ (Width - 1)
<1>3. ULongMax = p - 1 /\ IntMin = -q /\ IntMax = q - 1 /\ Undefined = IntMax + 1
  BY DEF ULongMax, IntMin, IntMax, Undefined
<1>4. p \in Int /\ q \in Int /\ p > 0 /\ q > 0
  BY <1>2 DEF Powers
<1> HIDE DEF p, q
<1>5. p \in Nat \ {0} /\ p - 1 \in Nat /\ -q \in Int /\ -q < 0 /\ q - 1 \in Nat /\ q - 1 = -(-q) - 1
  BY <1>4
<1>6. p - 1 + 1 = p
  BY <1>4
<1> QED BY <1>3, <1>5, <1>6 DEF p

\* atoi adds up, downwards, what the digits denote, as long as an int holds its negation.
LEMMA AtoiSums ==
    ASSUME Powers, NEW s, NEW n \in Nat, DOMAIN s = 1 .. n, Denoted(s, 10) <= -IntMin
    PROVE  FoldLeft(Accumulate, 0, s) = -Denoted(s, 10) /\ Denoted(s, 10) \in Nat
<1> DEFINE T == IntMin .. IntMax + 1
           F == [i \in 1 .. n |-> [t \in T |-> Accumulate(t, s[i])]]
           Folds(g) == g = [r \in SUBSET (1 .. n) |->
                              IF r = {} THEN 0 ELSE Accumulate(g[r \ {Max(r)}], s[Max(r)])]
           g == CHOOSE g : Folds(g)
           h == [j \in 0 .. n |-> g[1 .. j]]
<1>1. F \in [1 .. n -> [T -> T]] /\ 0 \in T
  <2>1. ASSUME NEW t \in T, NEW i \in 1 .. n PROVE Accumulate(t, s[i]) \in T
    BY Limits DEF Accumulate, AsInt
  <2> HIDE DEF T
  <2>2. F \in [1 .. n -> [T -> T]]
    BY <2>1
  <2>3. 0 \in T
    BY Limits DEF T
  <2> QED BY <2>2, <2>3
<1>2. Folds(g)
  <2>1. PICK f \in [SUBSET (1 .. n) -> T] : Folded(f, 0, n, F)
    <3> HIDE DEF F, T
    <3> QED BY <1>1, FoldExists
  <2>2. ASSUME NEW r \in SUBSET (1 .. n), r # {}
        PROVE  F[Max(r)][f[r \ {Max(r)}]] = Accumulate(f[r \ {Max(r)}], s[Max(r)])
    <3>1. Max(r) \in 1 .. n
      BY <2>2, MaxIs
    <3> HIDE DEF T
    <3>2. f[r \ {Max(r)}] \in T
      OBVIOUS
    <3> QED BY <3>1, <3>2
  <2>3. Folds(f)
    <3> HIDE DEF F, T
    <3> QED BY <2>1, <2>2 DEF Folded
  <2> HIDE DEF Folds
  <2> QED BY <2>3
<1>3. FoldLeft(Accumulate, 0, s) = g[1 .. n]
  BY DEF FoldLeft, MapThenFoldSet
<1> HIDE DEF g
<1>4. h[0] = 0
  <2>1. 1 .. 0 = {} /\ {} \in SUBSET (1 .. n)
    OBVIOUS
  <2>2. g[{}] = 0
    BY <1>2, <2>1
  <2> QED BY <2>1, <2>2
<1>5. ASSUME NEW j \in 0 .. n - 1 PROVE h[j + 1] = Accumulate(h[j], s[j + 1])
  <2>1. /\ 1 .. j + 1 \in SUBSET (1 .. n) /\ 1 .. j + 1 # {} /\ Max(1 .. j + 1) = j + 1
        /\ (1 .. j + 1) \ {j + 1} = 1 .. j
    BY FirstPositions
  <2>2. g[1 .. j + 1] = Accumulate(g[1 .. j], s[j + 1])
    BY <1>2, <2>1
  <2> QED BY <2>2
<1>6. h[n] = g[1 .. n]
  OBVIOUS
<1> HIDE DEF h
<1>7. PICK k \in [0 .. n -> Nat] : RunsUp(k, s, n, 10) /\ k[n] = Denoted(s, 10)
  <2>1. 10 \in Nat
    OBVIOUS
  <2> QED BY <2>1, DenotedRuns
<1> DEFINE P == {j \in 0 .. n : k[j] <= -IntMin => h[j] = -k[j]}
<1>8. 0 \in P
  BY <1>4, <1>7 DEF RunsUp
<1>9. ASSUME NEW j \in 0 .. n - 1, j \in P PROVE j + 1 \in P
  <2>1. j + 1 \in 0 .. n /\ j \in 0 .. n
    OBVIOUS
  <2> SUFFICES ASSUME k[j + 1] <= -IntMin PROVE h[j + 1] = -k[j + 1]
    BY <2>1
  <2>2. PICK d \in Nat : d = DigitOf(s[j + 1])
    BY DigitNat
  <2>3. PICK x \in Nat : x = k[j]
    BY <2>1
  <2>4. k[j + 1] = 10 * x + d /\ x <= k[j + 1] /\ k[j + 1] \in Nat
    BY <1>7, <2>1, <2>2, <2>3 DEF RunsUp
  <2>5. h[j] = -x
    <3>1. IntMin \in Int
      BY Limits
    <3>2. x <= -IntMin
      BY <3>1, <2>4
    <3> QED BY <1>9, <2>3, <3>2
  <2>6. h[j + 1] = Accumulate(-x, s[j + 1])
    BY <1>5, <2>5
  <2>7. Accumulate(-x, s[j + 1]) = AsInt(10 * (-x) - d)
    <3>1. -x # Undefined
      BY Limits
    <3> QED BY <3>1, <2>2 DEF Accumulate
  <2>8. 10 * (-x) - d = -k[j + 1] /\ -k[j + 1] \in IntMin .. IntMax
    BY <2>4, Limits
  <2> QED BY <2>6, <2>7, <2>8 DEF AsInt
<1>10. n \in P
  <2> HIDE DEF P
  <2>1. \A j \in 0 .. n : j \in P
    BY <1>8, <1>9, Upwards
  <2> QED BY <2>1
<1>11. n \in 0 .. n
  OBVIOUS
<1> QED BY <1>3, <1>6, <1>7, <1>10, <1>11

\* A remainder below the divisor is the number itself.
LEMMA Remainder ==
    ASSUME NEW m \in Nat \ {0}, NEW a \in 0 .. m - 1
    PROVE  a % m = a
<1>1. a \div m \in Nat /\ a % m \in 0 .. m - 1 /\ a = (a \div m) * m + (a % m)
  <2>1. a \in Nat
    OBVIOUS
  <2> QED BY <2>1, Quotient
<1> DEFINE q == a \div m
<1>2. q = 0
  <2> HIDE DEF q
  <2> SUFFICES ASSUME ~(q < 1) PROVE FALSE
    BY <1>1 DEF q
  <2>1. q \in Nat /\ q > 0
    BY <1>1 DEF q
  <2>2. 0 * m + m <= q * m /\ 0 * m = 0 /\ q * m \in Nat
    BY <2>1, MultipleOrder
  <2> DEFINE y == q * m
             w == a % m
  <2>3. y \in Nat /\ w \in Nat /\ m <= y /\ a = y + w
    BY <1>1, <2>2 DEF q
  <2> HIDE DEF y, w
  <2> QED BY <2>3
<1> QED BY <1>1, <1>2

\* strtoul's test with cutoff and cutlim is exact: a digit is refused just where the
\* number would leave an unsigned long.
LEMMA TooLargeExact ==
    ASSUME Powers, NEW acc \in 0 .. ULongMax, NEW b \in Nat \ {0}, NEW c \in 0 .. b - 1
    PROVE  acc * b + c \in Nat /\ (TooLarge(acc, c, b) <=> acc * b + c > ULongMax)
<1> DEFINE q == ULongMax \div b
           w == ULongMax % b
<1>1. ULongMax \in Nat /\ acc \in Nat /\ c \in Nat
  BY Limits
<1>2. q \in Nat /\ w \in 0 .. b - 1 /\ q * b \in Nat /\ ULongMax = q * b + w
  BY <1>1, Quotient
<1>3. TooLarge(acc, c, b) <=> acc > q \/ (acc = q /\ c > w)
  BY DEF TooLarge
<1> HIDE DEF q, w
<1>4. PICK x \in Nat : x = acc * b
  BY <1>1
<1>5. PICK y \in Nat : y = q * b
  BY <1>2
<1>6. ULongMax = y + w
  BY <1>2, <1>5
<1>7. CASE acc > q
  <2>1. y + b <= x
    BY <1>1, <1>2, <1>4, <1>5, <1>7, MultipleOrder
  <2>2. x + c > y + w
    BY <2>1, <1>1, <1>2
  <2> QED BY <1>3, <1>4, <1>6, <1>7, <2>2, <1>1
<1>8. CASE acc = q
  <2>1. x = y
    BY <1>4, <1>5, <1>8
  <2>2. x + c > y + w <=> c > w
    BY <2>1, <1>1, <1>2
  <2>3. ~(acc > q)
    BY <1>8, <1>2
  <2> QED BY <1>3, <1>4, <1>6, <1>8, <2>2, <2>3, <1>1
<1>9. CASE acc < q
  <2>1. x + b <= y
    BY <1>1, <1>2, <1>4, <1>5, <1>9, MultipleOrder
  <2>2. ~(x + c > y + w)
    BY <2>1, <1>1, <1>2
  <2>3. ~(acc > q) /\ acc # q
    BY <1>9, <1>1, <1>2
  <2> QED BY <1>3, <1>4, <1>6, <2>2, <2>3, <1>1
<1>10. acc > q \/ acc = q \/ acc < q
  BY <1>1, <1>2
<1> QED BY <1>7, <1>8, <1>9, <1>10

\* The loop of strtoul over its digits.
Reads(digits, b) ==
    FoldLeft(LAMBDA s, c : Digit(s, DigitOf(c), b), [any |-> 0, acc |-> 0], digits)

\* One digit: what is accumulated is what the digits denote until an unsigned long
\* does not hold it, and never wraps.
LEMMA DigitReads ==
    ASSUME Powers, NEW b \in Nat \ {0}, NEW c \in 0 .. b - 1, NEW x \in Nat,
           NEW r \in [any : {-1, 0, 1}, acc : 0 .. ULongMax],
           IF r.any < 0 THEN x > ULongMax ELSE r.acc = x
    PROVE  /\ x * b + c \in Nat
           /\ IF Digit(r, c, b).any < 0 THEN x * b + c > ULongMax
              ELSE Digit(r, c, b).acc = x * b + c
<1>1. ULongMax \in Nat /\ ULongMax + 1 = 2 ^ Width /\ 2 ^ Width \in Nat \ {0}
  BY Limits
<1>2. x * b \in Nat /\ x <= x * b
  <2>1. CASE b = 1
    BY <2>1
  <2>2. CASE b # 1
    <3>1. b \in Nat \ {0} /\ b >= 1
      OBVIOUS
    <3>2. x * b \in Nat
      OBVIOUS
    <3>3. PICK e \in Nat : b = e + 1
      <4>1. b - 1 \in Nat /\ b = b - 1 + 1
        BY <3>1
      <4> QED BY <4>1
    <3>4. x * b = x * e + x /\ x * e \in Nat
      BY <3>3
    <3> QED BY <3>4
  <2> QED BY <2>1, <2>2
<1>3. PICK y \in Nat : y = x * b
  BY <1>2
<1>4. CASE r.any < 0
  <2>1. Digit(r, c, b) = [r EXCEPT !.any = -1]
    BY <1>4 DEF Digit
  <2>2. Digit(r, c, b).any = -1
    BY <2>1
  <2>3. y + c > ULongMax
    BY <1>1, <1>2, <1>3, <1>4
  <2> QED BY <1>3, <2>2, <2>3
<1>5. CASE ~(r.any < 0) /\ TooLarge(r.acc, c, b)
  <2>1. Digit(r, c, b) = [r EXCEPT !.any = -1]
    BY <1>5 DEF Digit
  <2>2. Digit(r, c, b).any = -1
    BY <2>1
  <2>3. r.acc * b + c > ULongMax /\ r.acc = x
    BY <1>5, TooLargeExact
  <2> QED BY <1>3, <2>2, <2>3
<1>6. CASE ~(r.any < 0) /\ ~TooLarge(r.acc, c, b)
  <2>1. Digit(r, c, b) = [any |-> 1, acc |-> (r.acc * b + c) % 2 ^ Width]
    BY <1>6 DEF Digit
  <2>2. Digit(r, c, b).any = 1 /\ Digit(r, c, b).acc = (y + c) % 2 ^ Width
    BY <2>1, <1>3, <1>6
  <2>3. ~(y + c > ULongMax)
    BY <1>3, <1>6, TooLargeExact
  <2>4. y + c \in 0 .. 2 ^ Width - 1
    BY <2>3, <1>1
  <2>5. (y + c) % 2 ^ Width = y + c
    BY <2>4, <1>1, Remainder
  <2> QED BY <1>3, <2>2, <2>5
<1> QED BY <1>4, <1>5, <1>6

\* The result of a step is a result.
LEMMA DigitTyped ==
    ASSUME Powers, NEW b \in Nat, NEW c \in Nat, NEW r \in [any : {-1, 0, 1}, acc : 0 .. ULongMax]
    PROVE  Digit(r, c, b) \in [any : {-1, 0, 1}, acc : 0 .. ULongMax]
<1>1. ULongMax \in Nat /\ ULongMax + 1 = 2 ^ Width /\ 2 ^ Width \in Nat \ {0}
  BY Limits
<1>2. PICK y \in Nat : y = r.acc * b + c
  <2>1. r.acc \in Nat
    BY <1>1
  <2>2. r.acc * b + c \in Nat
    BY <2>1
  <2> QED BY <2>2
<1>3. y % 2 ^ Width \in 0 .. 2 ^ Width - 1
  BY <1>1, Quotient
<1>4. 2 ^ Width - 1 = ULongMax
  BY <1>1
<1>5. y % 2 ^ Width \in 0 .. ULongMax
  BY <1>3, <1>4
<1>6. Digit(r, c, b) = [r EXCEPT !.any = -1] \/ Digit(r, c, b) = [any |-> 1, acc |-> y % 2 ^ Width]
  BY <1>2 DEF Digit
<1> QED BY <1>5, <1>6

\* strtoul reads the number its digits denote, or that it is too large.
LEMMA StrtoulReads ==
    ASSUME Powers, NEW s, NEW n \in Nat, DOMAIN s = 1 .. n, NEW b \in Nat \ {0},
           \A i \in 1 .. n : DigitOf(s[i]) < b
    PROVE  /\ Denoted(s, b) \in Nat
           /\ IF Reads(s, b).any < 0 THEN Denoted(s, b) > ULongMax
              ELSE Reads(s, b).acc = Denoted(s, b) /\ Denoted(s, b) <= ULongMax
<1> DEFINE T == [any : {-1, 0, 1}, acc : 0 .. ULongMax]
           z == [any |-> 0, acc |-> 0]
           F == [i \in 1 .. n |-> [t \in T |-> Digit(t, DigitOf(s[i]), b)]]
           Folds(g) == g = [r \in SUBSET (1 .. n) |->
                              IF r = {} THEN [any |-> 0, acc |-> 0]
                              ELSE Digit(g[r \ {Max(r)}], DigitOf(s[Max(r)]), b)]
           g == CHOOSE g : Folds(g)
           h == [j \in 0 .. n |-> g[1 .. j]]
<1>1. F \in [1 .. n -> [T -> T]] /\ z \in T
  <2>1. ASSUME NEW t \in T, NEW i \in 1 .. n PROVE Digit(t, DigitOf(s[i]), b) \in T
    BY DigitNat, DigitTyped
  <2>2. z \in T
    BY Limits
  <2> HIDE DEF T
  <2>3. F \in [1 .. n -> [T -> T]]
    BY <2>1
  <2> QED BY <2>2, <2>3
<1>2. Folds(g)
  <2>1. PICK f \in [SUBSET (1 .. n) -> T] : Folded(f, z, n, F)
    <3> HIDE DEF F, T, z
    <3> QED BY <1>1, FoldExists
  <2>2. ASSUME NEW r \in SUBSET (1 .. n), r # {}
        PROVE  F[Max(r)][f[r \ {Max(r)}]] = Digit(f[r \ {Max(r)}], DigitOf(s[Max(r)]), b)
    <3>1. Max(r) \in 1 .. n
      BY <2>2, MaxIs
    <3> HIDE DEF T
    <3>2. f[r \ {Max(r)}] \in T
      OBVIOUS
    <3> QED BY <3>1, <3>2
  <2>3. Folds(f)
    <3> HIDE DEF F, T
    <3> QED BY <2>1, <2>2 DEF Folded
  <2> HIDE DEF Folds
  <2> QED BY <2>3
<1>3. Reads(s, b) = g[1 .. n]
  BY DEF Reads, FoldLeft, MapThenFoldSet
<1> HIDE DEF g
<1>4. h[0] = z
  <2>1. 1 .. 0 = {} /\ {} \in SUBSET (1 .. n)
    OBVIOUS
  <2>2. g[{}] = z
    BY <1>2, <2>1
  <2> QED BY <2>1, <2>2
<1>5. ASSUME NEW j \in 0 .. n - 1 PROVE h[j + 1] = Digit(h[j], DigitOf(s[j + 1]), b)
  <2>1. /\ 1 .. j + 1 \in SUBSET (1 .. n) /\ 1 .. j + 1 # {} /\ Max(1 .. j + 1) = j + 1
        /\ (1 .. j + 1) \ {j + 1} = 1 .. j
    BY FirstPositions
  <2>2. g[1 .. j + 1] = Digit(g[1 .. j], DigitOf(s[j + 1]), b)
    BY <1>2, <2>1
  <2> QED BY <2>2
<1>6. h[n] = g[1 .. n]
  OBVIOUS
<1> HIDE DEF h
<1>7. PICK k \in [0 .. n -> Nat] : RunsUp(k, s, n, b) /\ k[n] = Denoted(s, b)
  BY DenotedRuns
<1> DEFINE Agrees(r, x) == IF r.any < 0 THEN x > ULongMax ELSE r.acc = x
           P == {j \in 0 .. n : h[j] \in T /\ Agrees(h[j], k[j])}
<1>8. 0 \in P
  BY <1>1, <1>4, <1>7 DEF RunsUp
<1>9. ASSUME NEW j \in 0 .. n - 1, j \in P PROVE j + 1 \in P
  <2>1. j + 1 \in 0 .. n /\ j \in 0 .. n /\ j + 1 \in 1 .. n
    OBVIOUS
  <2>2. PICK d \in 0 .. b - 1 : d = DigitOf(s[j + 1])
    <3>1. DigitOf(s[j + 1]) \in Nat /\ DigitOf(s[j + 1]) < b
      BY <2>1, DigitNat
    <3> QED BY <3>1
  <2>3. h[j + 1] = Digit(h[j], d, b) /\ k[j + 1] = k[j] * b + d
    BY <1>5, <1>7, <2>2 DEF RunsUp
  <2>4. h[j] \in T /\ Agrees(h[j], k[j]) /\ k[j] \in Nat
    BY <1>9, <2>1
  <2>5. h[j + 1] \in T
    BY <2>3, <2>4, DigitTyped
  <2>6. Agrees(h[j + 1], k[j + 1])
    BY <2>3, <2>4, DigitReads
  <2> QED BY <2>1, <2>5, <2>6
<1>10. n \in P
  <2> HIDE DEF P
  <2>1. \A j \in 0 .. n : j \in P
    BY <1>8, <1>9, Upwards
  <2> QED BY <2>1
<1>11. n \in 0 .. n
  OBVIOUS
<1>12. Reads(s, b) \in T /\ Agrees(Reads(s, b), Denoted(s, b)) /\ Denoted(s, b) \in Nat
  BY <1>3, <1>6, <1>7, <1>10, <1>11
<1> QED BY <1>12, Limits

\* The negation of an unsigned long.
LEMMA Negation ==
    ASSUME NEW m \in Nat \ {0}, NEW a \in 0 .. m - 1
    PROVE  (-a) % m = (m - a) % m
<1>1. m \in 0 .. m /\ a \in Nat /\ m \in Nat /\ m > 0 /\ a < m /\ -a \in Int
  OBVIOUS
<1> DEFINE q == (-a) \div m
           w == (-a) % m
<1>2. q \in Int /\ w \in 0 .. m - 1 /\ -a = m * q + w
  OBVIOUS
<1> HIDE DEF q, w
<1>3. CASE a = 0
  <2>1. m % m = 0
    <3> DEFINE p == m \div m
               v == m % m
    <3>1. p \in Nat /\ v \in 0 .. m - 1 /\ m = p * m + v
      BY <1>1, Quotient
    <3>2. (1 * m + 0) \div m = 1
      BY <1>1, QuotientIs
    <3>3. p = 1
      BY <1>1, <3>2
    <3>4. 1 * m = m
      BY <1>1
    <3> HIDE DEF p, v
    <3>5. m = m + v /\ v \in Int
      BY <1>1, <3>1, <3>3, <3>4
    <3>6. v = 0
      BY <1>1, <3>5
    <3> QED BY <3>6 DEF v
  <2>2. 0 % m = 0
    <3>1. 0 \in 0 .. m - 1
      BY <1>1
    <3> QED BY <3>1, Remainder
  <2>3. -a = 0
    <3>1. -a <= 0 /\ -a >= 0 /\ -a \in Int
      BY <1>1, <1>3
    <3> QED BY <3>1
  <2>4. m - a = m
    BY <1>1, <1>3
  <2> QED BY <2>1, <2>2, <2>3, <2>4
<1>4. CASE a > 0
  <2>1. q = -1
    <3>1. ~(q >= 0)
      <4> SUFFICES ASSUME q >= 0 PROVE FALSE
        OBVIOUS
      <4>1. m * q \in Nat
        BY <1>1, <1>2
      <4> DEFINE y == m * q
      <4>2. y \in Nat /\ -a = y + w
        BY <4>1, <1>2
      <4> HIDE DEF y
      <4> QED BY <4>2, <1>1, <1>2, <1>4
    <3>2. ~(q <= -2)
      <4> SUFFICES ASSUME q <= -2 PROVE FALSE
        OBVIOUS
      <4>1. PICK e \in Nat : q = -2 - e
        <5>1. -2 - q \in Nat /\ q = -2 - (-2 - q)
          BY <1>2
        <5> QED BY <5>1
      <4>2. m * e \in Nat
        BY <1>1
      <4>3. PICK y \in Nat : y = m * e
        BY <4>2
      <4>4. m * q = -2 * m - y
        BY <4>1, <4>3, <1>1
      <4>5. -a = -2 * m - y + w
        BY <4>4, <1>2
      <4> QED BY <4>5, <1>1, <1>2
    <3> QED BY <3>1, <3>2, <1>2
  <2>2. w = m - a
    BY <2>1, <1>1, <1>2
  <2>3. m - a \in 0 .. m - 1
    BY <1>1, <1>4
  <2>4. (m - a) % m = m - a
    BY <2>3, Remainder
  <2> QED BY <2>2, <2>4 DEF w
<1> QED BY <1>1, <1>3, <1>4

\* The digits taken are those of the base.
LEMMA TakenDigits ==
    ASSUME NEW C, NEW str \in Seq(C), NEW b \in Nat \ {0}
    PROVE  /\ Taken(str, b) \in Seq(C)
           /\ \A i \in 1 .. Len(Taken(str, b)) : DigitOf(Taken(str, b)[i]) < b
<1> DEFINE I == {i \in 1 .. Len(str) : DigitOf(str[i]) >= b}
           wrong == IF I # {} THEN Min(I) ELSE 0
           n == IF wrong = 0 THEN Len(str) ELSE wrong - 1
<1>1. Taken(str, b) = SubSeq(str, 1, n)
  BY DEF Taken, SelectInSeq
<1>2. n \in 0 .. Len(str) /\ \A i \in 1 .. n : i \notin I
  <2>1. CASE I = {}
    BY <2>1
  <2>2. CASE I # {}
    <3>1. I \in SUBSET Nat
      OBVIOUS
    <3>2. Min(I) \in I /\ \A i \in I : Min(I) <= i
      BY <2>2, <3>1, LeastIs DEF Min
    <3>3. Min(I) \in 1 .. Len(str) /\ n = Min(I) - 1
      BY <2>2, <3>2
    <3> HIDE DEF I, n
    <3>4. n \in 0 .. Len(str) /\ \A i \in 1 .. n : ~(Min(I) <= i)
      BY <3>3
    <3> QED BY <3>2, <3>4
  <2> QED BY <2>1, <2>2
<1> HIDE DEF n
<1>3. /\ SubSeq(str, 1, n) \in Seq(C) /\ Len(SubSeq(str, 1, n)) = n
      /\ \A i \in 1 .. n : SubSeq(str, 1, n)[i] = str[i]
  BY <1>2
<1>4. ASSUME NEW i \in 1 .. n PROVE DigitOf(str[i]) < b
  <2>1. i \in 1 .. Len(str) /\ i \notin I
    BY <1>2
  <2>2. ~(DigitOf(str[i]) >= b)
    BY <2>1
  <2> QED BY <2>2, DigitNat
<1> QED BY <1>1, <1>3, <1>4

\* What is left of a text behind its spaces, its sign and its prefix.
LEMMA TextLeft ==
    ASSUME NEW C, NEW str \in Seq(C), NEW b
    PROVE  /\ Unspaced(str) \in Seq(C)
           /\ Unsigned(str) \in Seq(C)
           /\ Unprefixed(str, b) \in Seq(C)
<1>1. Unspaced(str) \in Seq(C)
  <2> DEFINE I == {i \in 1 .. Len(str) : str[i] \notin Spaces}
  <2>1. CASE \A i \in DOMAIN str : str[i] \in Spaces
    <3>1. Unspaced(str) = SubSeq(str, Len(str) + 1, Len(str))
      BY <2>1 DEF Unspaced
    <3>2. SubSeq(str, Len(str) + 1, Len(str)) \in Seq(C)
      OBVIOUS
    <3> QED BY <3>1, <3>2
  <2>2. CASE ~ \A i \in DOMAIN str : str[i] \in Spaces
    <3>1. I \in SUBSET Nat /\ I # {}
      BY <2>2
    <3>2. Min(I) \in I
      BY <3>1, LeastIs DEF Min
    <3>3. Unspaced(str) = SubSeq(str, Min(I), Len(str))
      BY <2>2, <3>1 DEF Unspaced, SelectInSeq
    <3>4. Min(I) \in 1 .. Len(str)
      BY <3>2
    <3> HIDE DEF I
    <3>5. SubSeq(str, Min(I), Len(str)) \in Seq(C)
      BY <3>4
    <3> QED BY <3>3, <3>5
  <2> QED BY <2>1, <2>2
<1>2. Unsigned(str) \in Seq(C)
  BY DEF Unsigned
<1>3. Unprefixed(str, b) \in Seq(C)
  <2>1. CASE IsHex(str, b)
    <3>1. Len(str) \in Nat /\ Len(str) > 1
      BY <2>1 DEF IsHex
    <3>2. SubSeq(str, 3, Len(str)) \in Seq(C)
      BY <3>1
    <3> QED BY <2>1, <3>2 DEF Unprefixed
  <2>2. CASE ~IsHex(str, b)
    BY <2>2 DEF Unprefixed
  <2> QED BY <2>1, <2>2
<1> QED BY <1>1, <1>2, <1>3

\* strtoul converts every text in every base.
LEMMA StrtoulConverts ==
    ASSUME Powers, NEW C, NEW str \in Seq(C), NEW base \in Nat
    PROVE  strtoul(str, base) = Converted(str, base)
<1> DEFINE text == Unspaced(str)
           bare == Unsigned(text)
           b == BaseOf(bare, base)
           d == Taken(Unprefixed(bare, base), b)
           r == Reads(d, b)
           n == Denoted(d, b)
<1>1. b \in Nat \ {0}
  BY DEF BaseOf
<1>2. d \in Seq(C) /\ \A i \in 1 .. Len(d) : DigitOf(d[i]) < b
  <2> HIDE DEF b
  <2>1. Unprefixed(bare, base) \in Seq(C)
    BY TextLeft
  <2> QED BY <1>1, <2>1, TakenDigits
<1>3. strtoul(str, base) =
        IF r.any < 0 THEN ULongMax
        ELSE IF text # <<>> /\ Head(text) = "-" THEN (-r.acc) % 2 ^ Width
        ELSE r.acc
  BY DEF strtoul, Reads
<1>4. Converted(str, base) =
        IF n > ULongMax THEN ULongMax
        ELSE IF text # <<>> /\ Negative(text) THEN (2 ^ Width - n) % 2 ^ Width
        ELSE n
  BY DEF Converted
<1> HIDE DEF text, b, d
<1>5. /\ n \in Nat
      /\ IF r.any < 0 THEN n > ULongMax ELSE r.acc = n /\ n <= ULongMax
  <2>1. Len(d) \in Nat /\ DOMAIN d = 1 .. Len(d)
    BY <1>2
  <2> QED BY <1>1, <1>2, <2>1, StrtoulReads
<1>6. ULongMax \in Nat /\ ULongMax + 1 = 2 ^ Width /\ 2 ^ Width \in Nat \ {0}
  BY Limits
<1> HIDE DEF r, n
<1>7. CASE r.any < 0
  BY <1>3, <1>4, <1>5, <1>6, <1>7
<1>8. CASE ~(r.any < 0)
  <2>1. ~(n > ULongMax) /\ r.acc = n /\ n \in 0 .. 2 ^ Width - 1
    BY <1>5, <1>6, <1>8
  <2>2. (-n) % 2 ^ Width = (2 ^ Width - n) % 2 ^ Width
    BY <1>6, <2>1, Negation
  <2> QED BY <1>3, <1>4, <1>8, <2>1, <2>2 DEF Negative
<1> QED BY <1>7, <1>8

\* The characters itoa writes.
Figures == {(Decimal \o Upper)[d + 1] : d \in 0 .. 17}

\* f writes the amounts up to k in base b.
Writes(f, k, b) ==
    \A n \in 0 .. k :
        f[n] = (IF n < b THEN <<>> ELSE f[n \div b]) \o <<(Decimal \o Upper)[(n % b) + 1]>>

\* The rest of an amount behind its last digit.
LEMMA Shorter ==
    ASSUME NEW b \in 2 .. 18, NEW n \in Nat
    PROVE  /\ n \div b \in Nat /\ n % b \in 0 .. 17 /\ n % b < b /\ n = (n \div b) * b + (n % b)
           /\ n >= b => n \div b < n
           /\ n < b => n % b = n
           /\ (Decimal \o Upper)[(n % b) + 1] \in Figures
<1> DEFINE q == n \div b
           w == n % b
<1>1. b \in Nat \ {0} /\ b >= 2 /\ b <= 18
  OBVIOUS
<1>2. q \in Nat /\ w \in 0 .. b - 1 /\ q * b \in Nat /\ n = q * b + w
  BY <1>1, Quotient
<1>3. n < b => w = n
  <2> SUFFICES ASSUME n < b PROVE w = n
    OBVIOUS
  <2>1. n \in 0 .. b - 1
    BY <1>1
  <2> QED BY <1>1, <2>1, Remainder
<1> HIDE DEF q, w
<1>4. ASSUME n >= b PROVE q < n
  <2> SUFFICES ASSUME ~(q < n) PROVE FALSE
    BY <1>2
  <2>1. PICK e \in Nat : b = 2 + e
    <3>1. b - 2 \in Nat /\ b = 2 + (b - 2)
      BY <1>1
    <3> QED BY <3>1
  <2>2. q * b = 2 * q + q * e /\ q * e \in Nat
    BY <1>2, <2>1
  <2>3. PICK y \in Nat : y = q * e
    BY <2>2
  <2>4. n = 2 * q + y + w /\ q >= n /\ w \in Nat
    BY <1>1, <1>2, <2>2, <2>3
  <2>5. n > 0
    BY <1>1, <1>4
  <2> QED BY <1>2, <2>3, <2>4, <2>5
<1>5. w \in 0 .. 17 /\ w < b
  BY <1>1, <1>2
<1>6. (Decimal \o Upper)[w + 1] \in Figures
  BY <1>5 DEF Figures
<1> QED BY <1>2, <1>3, <1>4, <1>5, <1>6 DEF q, w

\* itoa's digits exist.
LEMMA WritesExists ==
    ASSUME NEW b \in 2 .. 18, NEW m \in Nat
    PROVE  \E f : f \in [0 .. m -> Seq(Figures)] /\ Writes(f, m, b)
<1> DEFINE Figure(n) == (Decimal \o Upper)[(n % b) + 1]
           P == {k \in 0 .. m : \E f : f \in [0 .. k -> Seq(Figures)] /\ Writes(f, k, b)}
<1>1. 0 \in P
  <2> DEFINE f == [n \in 0 .. 0 |-> <<>> \o <<Figure(n)>>]
  <2>1. 0 < b /\ 0 \in 0 .. m
    OBVIOUS
  <2>2. Figure(0) \in Figures
    BY Shorter
  <2> HIDE DEF Figure
  <2>3. f \in [0 .. 0 -> Seq(Figures)]
    BY <2>2
  <2>4. \A n \in 0 .. 0 : n = 0
    OBVIOUS
  <2>5. Writes(f, 0, b)
    BY <2>1, <2>4 DEF Writes, Figure
  <2> HIDE DEF f
  <2> QED BY <2>1, <2>3, <2>5
<1>2. ASSUME NEW k \in 0 .. m - 1, k \in P PROVE k + 1 \in P
  <2>1. PICK f : f \in [0 .. k -> Seq(Figures)] /\ Writes(f, k, b)
    BY <1>2
  <2> DEFINE Next(n) == (IF n < b THEN <<>> ELSE f[n \div b]) \o <<Figure(n)>>
             g == [n \in 0 .. k + 1 |-> IF n = k + 1 THEN Next(n) ELSE f[n]]
  <2>2. ASSUME NEW n \in 0 .. k + 1 PROVE n >= b => n \div b \in 0 .. k
    <3>1. n \in Nat /\ k \in Nat /\ n <= k + 1
      OBVIOUS
    <3>2. n \div b \in Nat /\ (n >= b => n \div b < n)
      BY <3>1, Shorter
    <3> QED BY <3>1, <3>2
  <2>3. Figure(k + 1) \in Figures
    <3>1. k + 1 \in Nat
      OBVIOUS
    <3> QED BY <3>1, Shorter
  <2>4. Next(k + 1) \in Seq(Figures)
    <3> HIDE DEF Figure
    <3>1. k + 1 \in 0 .. k + 1 /\ k + 1 \in Int /\ b \in Int
      OBVIOUS
    <3>2. (IF k + 1 < b THEN <<>> ELSE f[(k + 1) \div b]) \in Seq(Figures)
      BY <2>1, <2>2, <3>1
    <3> QED BY <2>3, <3>2
  <2>5. g \in [0 .. k + 1 -> Seq(Figures)]
    <3> HIDE DEF Next
    <3> QED BY <2>1, <2>4
  <2>6. ASSUME NEW n \in 0 .. k + 1
        PROVE  g[n] = (IF n < b THEN <<>> ELSE g[n \div b]) \o <<Figure(n)>>
    <3> HIDE DEF Figure
    <3>1. n >= b => g[n \div b] = f[n \div b]
      <4> SUFFICES ASSUME n >= b PROVE g[n \div b] = f[n \div b]
        OBVIOUS
      <4>1. n \div b \in 0 .. k
        BY <2>2
      <4> HIDE DEF Next
      <4> QED BY <4>1
    <3>2. n < b \/ n >= b
      OBVIOUS
    <3>3. (IF n < b THEN <<>> ELSE g[n \div b]) = (IF n < b THEN <<>> ELSE f[n \div b])
      <4> HIDE DEF g
      <4> QED BY <3>1, <3>2
    <3>4. CASE n = k + 1
      <4>1. g[n] = Next(n)
        <5> HIDE DEF Next
        <5> QED BY <3>4
      <4> HIDE DEF g
      <4> QED BY <4>1, <3>3
    <3>5. CASE n # k + 1
      <4>1. n \in 0 .. k /\ g[n] = f[n]
        <5> HIDE DEF Next
        <5> QED BY <3>5
      <4>2. f[n] = (IF n < b THEN <<>> ELSE f[n \div b]) \o <<Figure(n)>>
        BY <2>1, <4>1 DEF Writes, Figure
      <4> HIDE DEF g
      <4> QED BY <4>1, <4>2, <3>3
    <3> QED BY <3>4, <3>5
  <2>7. Writes(g, k + 1, b)
    <3> HIDE DEF g
    <3> QED BY <2>6 DEF Writes
  <2>8. k + 1 \in 0 .. m
    OBVIOUS
  <2> HIDE DEF g
  <2> QED BY <2>5, <2>7, <2>8
<1> HIDE DEF P
<1>3. \A k \in 0 .. m : k \in P
  BY <1>1, <1>2, Upwards
<1>4. m \in P
  BY <1>3
<1> QED BY <1>4 DEF P

\* What is written denotes the amount, and begins with no sign.
LEMMA WritesDenote ==
    ASSUME NEW b \in 2 .. 18, NEW m \in Nat, NEW f, Writes(f, m, b)
    PROVE  /\ f[m] \in Seq(Figures) /\ f[m] # <<>> /\ f[m][1] \notin {"-", "+"}
           /\ Denoted(f[m], b) = m
<1> DEFINE Good(n) ==
               /\ f[n] \in Seq(Figures) /\ f[n] # <<>> /\ f[n][1] \notin {"-", "+"}
               /\ Denoted(f[n], b) = n
           P == {k \in 0 .. m : \A n \in 0 .. k : Good(n)}
<1>1. ASSUME NEW n \in 0 .. m, n >= b => Good(n \div b) PROVE Good(n)
  <2>1. PICK d : d = n % b
    OBVIOUS
  <2>2. PICK q : q = n \div b
    OBVIOUS
  <2>3. /\ q \in Nat /\ d \in 0 .. 17 /\ n = q * b + d /\ (n < b => d = n)
        /\ (Decimal \o Upper)[d + 1] \in Figures
    <3>1. n \in Nat
      OBVIOUS
    <3> QED BY <2>1, <2>2, <3>1, Shorter
  <2>4. PICK c \in Figures : c = (Decimal \o Upper)[d + 1]
    BY <2>3
  <2>5. DigitOf(c) = d /\ c \notin {"-", "+"}
    BY <2>3, <2>4, DigitIs
  <2>6. f[n] = (IF n < b THEN <<>> ELSE f[q]) \o <<c>>
    BY <2>1, <2>2, <2>4 DEF Writes
  <2>7. b \in Nat /\ n \in Nat
    OBVIOUS
  <2>8. CASE n < b
    <3>1. f[n] = <<>> \o <<c>> /\ <<>> \in Seq(Figures)
      BY <2>6, <2>8
    <3>2. Denoted(<<>> \o <<c>>, b) = Denoted(<<>>, b) * b + DigitOf(c) /\ Denoted(<<>>, b) = 0
      BY <2>7, <3>1, DenotedBehind, DenotedNothing
    <3>3. Denoted(f[n], b) = n
      BY <3>1, <3>2, <2>3, <2>5, <2>7, <2>8
    <3>4. f[n] = <<c>>
      BY <3>1
    <3> QED BY <3>3, <3>4, <2>5
  <2>9. CASE n >= b
    <3>1. f[n] = f[q] \o <<c>> /\ Good(q)
      <4>1. Good(n \div b)
        BY <1>1, <2>9
      <4>2. ~(n < b)
        BY <2>7, <2>9
      <4>3. f[n] = f[q] \o <<c>>
        BY <2>6, <4>2
      <4> QED BY <2>2, <4>1, <4>3
    <3>2. f[q] \in Seq(Figures) /\ f[q] # <<>> /\ f[q][1] \notin {"-", "+"} /\ Denoted(f[q], b) = q
      BY <3>1
    <3>3. Denoted(f[q] \o <<c>>, b) = Denoted(f[q], b) * b + DigitOf(c)
      BY <2>7, <3>2, DenotedBehind
    <3>4. Denoted(f[n], b) = n
      BY <3>1, <3>2, <3>3, <2>3, <2>5
    <3>5. f[n] \in Seq(Figures) /\ f[n] # <<>> /\ f[n][1] = f[q][1]
      BY <3>1, <3>2
    <3> QED BY <3>2, <3>4, <3>5
  <2> QED BY <2>7, <2>8, <2>9
<1> HIDE DEF Good
<1>2. 0 \in P
  <2>1. 0 \in 0 .. m /\ ~(0 >= b) /\ \A n \in 0 .. 0 : n = 0
    OBVIOUS
  <2> QED BY <1>1, <2>1
<1>3. ASSUME NEW k \in 0 .. m - 1, k \in P PROVE k + 1 \in P
  <2>1. k + 1 \in 0 .. m /\ k + 1 \in Nat /\ \A n \in 0 .. k + 1 : n = k + 1 \/ n \in 0 .. k
    OBVIOUS
  <2>2. k + 1 >= b => (k + 1) \div b \in 0 .. k
    <3>1. (k + 1) \div b \in Nat /\ (k + 1 >= b => (k + 1) \div b < k + 1)
      BY <2>1, Shorter
    <3> QED BY <3>1
  <2>3. Good(k + 1)
    BY <1>1, <1>3, <2>1, <2>2
  <2> QED BY <1>3, <2>1, <2>3
<1> HIDE DEF P
<1>4. m \in P /\ m \in 0 .. m
  <2>1. \A k \in 0 .. m : k \in P
    BY <1>2, <1>3, Upwards
  <2> QED BY <2>1
<1>5. Good(m)
  BY <1>4 DEF P
<1> QED BY <1>5 DEF Good

\* itoa writes the digits of the amount, behind a sign in base 10.
LEMMA ItoaWrites ==
    ASSUME NEW b \in 2 .. 18, NEW v \in Int
    PROVE  \E d \in Seq(Figures) :
               /\ itoa(v, b) = (IF v < 0 /\ b = 10 THEN <<"-">> ELSE <<>>) \o d
               /\ d # <<>> /\ d[1] \notin {"-", "+"}
               /\ Denoted(d, b) = IF v < 0 THEN -v ELSE v
<1> DEFINE m == IF v < 0 THEN -v ELSE v
           Is(f) == f = [n \in 0 .. m |-> (IF n < b THEN <<>> ELSE f[n \div b])
                                             \o <<(Decimal \o Upper)[(n % b) + 1]>>]
           f == CHOOSE f : Is(f)
<1>1. m \in Nat
  OBVIOUS
<1>2. itoa(v, b) = (IF v < 0 /\ b = 10 THEN <<"-">> ELSE <<>>) \o f[m]
  BY DEF itoa
<1>3. Is(f)
  <2> HIDE DEF m
  <2>1. PICK g : g \in [0 .. m -> Seq(Figures)] /\ Writes(g, m, b)
    BY <1>1, WritesExists
  <2>2. Is(g)
    BY <2>1 DEF Writes
  <2> HIDE DEF Is
  <2> QED BY <2>2
<1>4. Writes(f, m, b)
  <2> HIDE DEF f, m
  <2> QED BY <1>3 DEF Writes
<1> HIDE DEF f
<1>5. /\ f[m] \in Seq(Figures) /\ f[m] # <<>> /\ f[m][1] \notin {"-", "+"}
      /\ Denoted(f[m], b) = m
  <2> HIDE DEF m
  <2> QED BY <1>1, <1>4, WritesDenote
<1> QED BY <1>2, <1>5

\* atoi converts every text whose number an int holds.
LEMMA AtoiConverts ==
    ASSUME Powers, NEW C, NEW str \in Seq(C), str # <<>>,
           NEW value \in IntMin .. IntMax,
           value = IF Negative(str) THEN -Denoted(Unsigned(str), 10) ELSE Denoted(Unsigned(str), 10)
    PROVE  atoi(str) = value
<1> DEFINE d == Unsigned(str)
           n == Denoted(d, 10)
           signed == str # <<>> /\ Head(str) \in {"-", "+"}
           sum == FoldLeft(Accumulate, 0, IF signed THEN Tail(str) ELSE str)
<1>1. sum = FoldLeft(Accumulate, 0, d)
  <2>1. (IF signed THEN Tail(str) ELSE str) = d
    BY DEF Unsigned
  <2> HIDE DEF d, signed
  <2> QED BY <2>1
<1>2. atoi(str) = IF sum = Undefined \/ (signed /\ Head(str) = "-") THEN sum ELSE AsInt(-sum)
  <2> HIDE DEF d, n
  <2> QED BY DEF atoi
<1> HIDE DEF sum
<1>3. d \in Seq(C)
  BY TextLeft
<1> HIDE DEF d
<1>4. DOMAIN d = 1 .. Len(d) /\ Len(d) \in Nat
  BY <1>3
<1>5. n \in Nat
  <2>1. 10 \in Nat
    OBVIOUS
  <2>2. PICK h \in [0 .. Len(d) -> Nat] : RunsUp(h, d, Len(d), 10) /\ h[Len(d)] = Denoted(d, 10)
    BY <1>4, <2>1, DenotedRuns
  <2>3. h[Len(d)] \in Nat
    BY <1>4
  <2> QED BY <2>2, <2>3
<1>6. value = IF Negative(str) THEN -n ELSE n
  BY DEF d
<1> HIDE DEF n
<1>7. n <= -IntMin
  BY <1>5, <1>6, Limits
<1>8. sum = -n
  BY <1>1, <1>4, <1>7, AtoiSums DEF n
<1>9. sum # Undefined
  BY <1>5, <1>8, Limits
<1>10. CASE Negative(str)
  BY <1>2, <1>6, <1>8, <1>10 DEF Negative
<1>11. CASE ~Negative(str)
  <2>1. atoi(str) = AsInt(-sum)
    BY <1>2, <1>9, <1>11 DEF Negative
  <2>2. -sum = n /\ n \in IntMin .. IntMax
    BY <1>5, <1>6, <1>8, <1>11
  <2> QED BY <1>6, <1>11, <2>1, <2>2 DEF AsInt
<1> QED BY <1>10, <1>11

\* itoa writes what denotes the number, and atoi turns it back.
LEMMA ItoaConverts ==
    ASSUME Powers, NEW b \in 2 .. 18, NEW v \in IntMin + 1 .. IntMax
    PROVE  /\ Denoted(Unsigned(itoa(v, b)), b) \in {v, -v}
           /\ b = 10 => atoi(itoa(v, b)) = v
<1>1. v \in Int /\ v \in IntMin .. IntMax
  BY Limits
<1>2. PICK d \in Seq(Figures) :
          /\ itoa(v, b) = (IF v < 0 /\ b = 10 THEN <<"-">> ELSE <<>>) \o d
          /\ d # <<>> /\ d[1] \notin {"-", "+"}
          /\ Denoted(d, b) = IF v < 0 THEN -v ELSE v
  BY <1>1, ItoaWrites
<1> DEFINE C == Figures \cup {"-"}
           str == itoa(v, b)
<1>3. CASE v < 0 /\ b = 10
  <2>1. str = <<"-">> \o d
    BY <1>2, <1>3
  <2>2. str \in Seq(C) /\ str # <<>> /\ Head(str) = "-" /\ Tail(str) = d
    <3> HIDE DEF str
    <3>1. <<"-">> \in Seq(C) /\ d \in Seq(C)
      OBVIOUS
    <3>2. str \in Seq(C) /\ Len(str) = 1 + Len(d) /\ str[1] = "-"
      BY <2>1, <3>1
    <3>3. Tail(str) = d
      BY <2>1
    <3> QED BY <3>2, <3>3
  <2> HIDE DEF str
  <2>3. Unsigned(str) = d /\ Negative(str)
    BY <2>2 DEF Unsigned, Negative
  <2>4. v = -Denoted(Unsigned(str), 10)
    BY <1>1, <1>2, <1>3, <2>3
  <2>5. atoi(str) = v
    BY <1>1, <2>2, <2>3, <2>4, AtoiConverts
  <2>6. Denoted(Unsigned(str), b) = -v
    BY <1>2, <1>3, <2>3
  <2> QED BY <2>5, <2>6 DEF str
<1>4. CASE ~(v < 0 /\ b = 10)
  <2>1. str = d
    BY <1>2, <1>4
  <2> HIDE DEF str
  <2>2. str \in Seq(C) /\ str # <<>> /\ Head(str) \notin {"-", "+"}
    BY <1>2, <2>1
  <2>3. Unsigned(str) = d /\ ~Negative(str)
    BY <2>1, <2>2 DEF Unsigned, Negative
  <2>4. Denoted(Unsigned(str), b) \in {v, -v}
    BY <1>2, <2>3
  <2>5. ASSUME b = 10 PROVE atoi(str) = v
    <3>1. v = Denoted(Unsigned(str), 10)
      BY <1>1, <1>2, <1>4, <2>3, <2>5
    <3> QED BY <1>1, <2>2, <2>3, <3>1, AtoiConverts
  <2> QED BY <2>4, <2>5 DEF str
<1> QED BY <1>3, <1>4

\* A conversion is made once, of an input the run may choose.
NumInv ==
    \/ converted = [op |-> "none"]
    \/ \E v \in IntMin + 1 .. IntMax, b \in Bases :
          converted = [op |-> "itoa", value |-> v, base |-> b] /\ result = itoa(v, b)
    \/ \E s \in {t \in Inputs : IsNumeral(t)} :
          converted = [op |-> "atoi", text |-> s] /\ result = atoi(s)
    \/ \E s \in Inputs, b \in Bases \cup {0} :
          converted = [op |-> "strtoul", text |-> s, base |-> b] /\ result = strtoul(s, b)

LEMMA InputsAreTexts ==
    ASSUME MaxLength \in Nat, NEW s \in Inputs
    PROVE  s \in Seq(Characters)
<1>1. PICK n \in 0 .. MaxLength : s \in [1 .. n -> Characters]
  BY DEF Inputs
<1> QED BY <1>1

\* itoa, atoi and strtoul at the limits of their types, for an int and an unsigned long
\* of every width, texts of every length in any characters and every base with a figure.
THEOREM NumbersExactHolds ==
    ASSUME Powers, Bases \subseteq 2 .. 18, MaxLength \in Nat
    PROVE  NumInit /\ [][NumNext]_numvars => []NumbersExact
<1>1. NumInit => NumInv
  BY DEF NumInit, NumInv
<1>2. NumInv /\ [NumNext]_numvars => NumInv'
  <2> SUFFICES ASSUME NumInv, [NumNext]_numvars PROVE NumInv'
    OBVIOUS
  <2>1. CASE NumNext
    <3>1. ASSUME NEW v \in IntMin + 1 .. IntMax, NEW b \in Bases, Itoa(v, b) PROVE NumInv'
      BY <3>1 DEF Itoa, NumInv
    <3>2. ASSUME NEW s \in {t \in Inputs : IsNumeral(t)}, Atoi(s) PROVE NumInv'
      BY <3>2 DEF Atoi, NumInv
    <3>3. ASSUME NEW s \in Inputs, NEW b \in Bases \cup {0}, Strtoul(s, b) PROVE NumInv'
      BY <3>3 DEF Strtoul, NumInv
    <3> QED BY <2>1, <3>1, <3>2, <3>3 DEF NumNext
  <2>2. CASE UNCHANGED numvars
    BY <2>2 DEF NumInv, numvars
  <2> QED BY <2>1, <2>2
<1>3. NumInv => NumbersExact
  <2> SUFFICES ASSUME NumInv PROVE NumbersExact
    OBVIOUS
  <2>1. CASE converted = [op |-> "none"]
    BY <2>1 DEF NumbersExact
  <2>2. ASSUME NEW v \in IntMin + 1 .. IntMax, NEW b \in Bases,
               converted = [op |-> "itoa", value |-> v, base |-> b], result = itoa(v, b)
        PROVE  NumbersExact
    <3>1. /\ Denoted(Unsigned(itoa(v, b)), b) \in {v, -v}
          /\ b = 10 => atoi(itoa(v, b)) = v
      BY ItoaConverts
    <3>2. converted.op = "itoa" /\ converted.value = v /\ converted.base = b
      BY <2>2
    <3> QED BY <2>2, <3>1, <3>2 DEF NumbersExact
  <2>3. ASSUME NEW s \in Inputs, IsNumeral(s),
               converted = [op |-> "atoi", text |-> s], result = atoi(s)
        PROVE  NumbersExact
    <3>1. s \in Seq(Characters) /\ s # <<>>
      BY <2>3, InputsAreTexts DEF IsNumeral, Unsigned
    <3> DEFINE n == Denoted(Unsigned(s), 10)
               value == IF Negative(s) THEN -n ELSE n
    <3>2. value \in IntMin .. IntMax => atoi(s) = value
      BY <3>1, AtoiConverts
    <3>3. converted.op = "atoi" /\ converted.text = s
      BY <2>3
    <3> QED BY <2>3, <3>2, <3>3 DEF NumbersExact
  <2>4. ASSUME NEW s \in Inputs, NEW b \in Bases \cup {0},
               converted = [op |-> "strtoul", text |-> s, base |-> b], result = strtoul(s, b)
        PROVE  NumbersExact
    <3>1. s \in Seq(Characters) /\ b \in Nat
      BY InputsAreTexts
    <3>2. strtoul(s, b) = Converted(s, b)
      BY <3>1, StrtoulConverts
    <3>3. converted.op = "strtoul" /\ converted.text = s /\ converted.base = b
      BY <2>4
    <3> QED BY <2>4, <3>2, <3>3 DEF NumbersExact
  <2> QED BY <2>1, <2>2, <2>3, <2>4 DEF NumInv
<1> QED BY <1>1, <1>2, <1>3, PTL
==============================================================================
