------------------------------ MODULE Interrupts ------------------------------
(***************************************************************************)
(* Interrupts, from the first lines of kernel_main on: the tables and the  *)
(* dispatch of kern/sys/interrupts.c, the stub every interrupt enters by   *)
(* (interrupts_stubs.S), and the interrupt controller.  The boot is a      *)
(* sequence of those steps that touch interrupts; afterwards main makes    *)
(* system calls.  The code interrupted goes on only when no frame is left. *)
(*                                                                         *)
(* The gates are trap gates, so that a stub is entered with interrupts on. *)
(***************************************************************************)
EXTENDS Integers, SequencesExt

CONSTANTS
    Lines,          \* the lines of the controller that devices use: 0 the timer, 1 the keyboard
    MaxTicks        \* bound: the ticks counted

Vectors == {l + 32 : l \in Lines} \cup {3, 128}
BootSteps ==
    <<"disable_pic", "handlers", "pic_init", "lidt", "cli", "lgdt", "syscall_init",
      "keyboard_init", "ticks", "irq0_handle", "main">>

\* Lines of the first of the two controllers.
ASSUME LinesAssumption == {0, 1} \subseteq Lines /\ Lines \subseteq 0 .. 7
ASSUME TicksAssumption == MaxTicks \in Nat

VARIABLES
    step,           \* the boot step to come
    ifl,            \* the interrupt flag
    masked,         \* the controller's masks
    irr,            \* lines raised and not yet delivered
    isr,            \* lines in service
    bound,          \* bound_handlers
    ll,             \* ll_bound_handlers
    stack,          \* frames of interrupts, the innermost last
    ticks,          \* ticks
    hung            \* exception() hangs the system

intrvars == <<step, ifl, masked, irr, isr, bound, ll, stack, ticks, hung>>

NoHandler == "NULL"
Phases == {"stub", "handle", "eoi", "iret"}

IntrTypeOK ==
    /\ step \in DOMAIN BootSteps
    /\ ifl \in BOOLEAN /\ masked \subseteq Lines /\ irr \subseteq Lines /\ isr \subseteq Lines
    /\ bound \in [Vectors -> {NoHandler, "do_nothing", "irq0_handle", "keyboard_handle_irq"}]
    /\ ll \in [Vectors -> {NoHandler, "exception", "dump_regs", "syscall_handle"}]
    /\ ToSet(stack) \subseteq [vec : Vectors, phase : Phases]
    /\ ticks \in 0 .. MaxTicks /\ hung \in BOOLEAN

\* The boot loader leaves interrupts off; the tables are zero.
IntrInit ==
    /\ step = 1 /\ ifl = FALSE /\ masked = {} /\ irr = {} /\ isr = {}
    /\ bound = [v \in Vectors |-> NoHandler] /\ ll = [v \in Vectors |-> NoHandler]
    /\ stack = <<>> /\ ticks = 0 /\ hung = FALSE
-------------------------------------------------------------------------------
(* The boot: interrupts_init, load_gdt, and the handlers kernel_main registers. *)

\* A line is delivered when none of its own or a higher priority is in service.
Deliverable(l) ==
    /\ ifl /\ l \in irr \ masked
    /\ \A h \in Lines : h <= l => h \notin isr /\ (h < l => h \notin irr \ masked)

\* The processor takes an interrupt before the next instruction.
Undisturbed == ~hung /\ \A l \in Lines : ~Deliverable(l)

\* The main program goes on.
Runs(name) == Undisturbed /\ stack = <<>> /\ BootSteps[step] = name

Boot(name) == Runs(name) /\ step' = step + 1 /\ UNCHANGED <<stack, hung>>

disable_pic ==
    /\ Boot("disable_pic")
    /\ ifl' = FALSE /\ masked' = Lines
    /\ UNCHANGED <<irr, isr, bound, ll, ticks>>

\* Mutation: nothing for the timer until the kernel counts ticks.
Bound_None == [v \in Vectors |-> NoHandler]

\* "Register a handler for irq0, because the timer is probably already running"
Bound == [v \in Vectors |-> IF v = 32 THEN "do_nothing" ELSE NoHandler]

handlers ==
    /\ Boot("handlers")
    /\ bound' = Bound
    /\ ll' = [v \in Vectors |-> IF v = 3 THEN "dump_regs" ELSE "exception"]
    /\ UNCHANGED <<ifl, masked, irr, isr, ticks>>

\* Initialising the controller forgets what was raised.
pic_init ==
    /\ Boot("pic_init")
    /\ masked' = {} /\ irr' = {} /\ isr' = {}
    /\ UNCHANGED <<ifl, bound, ll, ticks>>

\* "lidt %0; sti", and load_gdt: "cli" and "lgdt", "sti".
FlagSet(name, on) ==
    /\ Boot(name)
    /\ ifl' = on
    /\ UNCHANGED <<masked, irr, isr, bound, ll, ticks>>

register_handler(name, v, h) ==
    /\ Boot(name)
    /\ bound' = [bound EXCEPT ![v] = h]
    /\ UNCHANGED <<ifl, masked, irr, isr, ll, ticks>>

syscall_init ==
    /\ Boot("syscall_init")
    /\ ll' = [ll EXCEPT ![128] = "syscall_handle"]
    /\ UNCHANGED <<ifl, masked, irr, isr, bound, ticks>>

\* kernel_late_init: ticks = 0.
ticks_init ==
    /\ Boot("ticks")
    /\ ticks' = 0
    /\ UNCHANGED <<ifl, masked, irr, isr, bound, ll>>

BootStep ==
    \/ disable_pic \/ handlers \/ pic_init \/ syscall_init \/ ticks_init
    \/ FlagSet("lidt", TRUE) \/ FlagSet("cli", FALSE) \/ FlagSet("lgdt", TRUE)
    \/ register_handler("keyboard_init", 33, "keyboard_handle_irq")
    \/ register_handler("irq0_handle", 32, "irq0_handle")

\* A program's system call, and int $3 of the command brk.
SoftInt(v) ==
    /\ Runs("main")
    /\ stack' = <<[vec |-> v, phase |-> "stub"]>>
    /\ UNCHANGED <<step, ifl, masked, irr, isr, bound, ll, ticks, hung>>
-------------------------------------------------------------------------------
(* Devices and the controller.  Any device may interrupt at any time: the boot unmasks every
   line and turns interrupts on before the keyboard has its handler. *)

Raise(l) ==
    /\ irr' = irr \cup {l}
    /\ UNCHANGED <<step, ifl, masked, isr, bound, ll, stack, ticks, hung>>

Deliver(l) ==
    /\ ~hung /\ Deliverable(l)
    /\ irr' = irr \ {l} /\ isr' = isr \cup {l}
    /\ stack' = Append(stack, [vec |-> l + 32, phase |-> "stub"])
    /\ UNCHANGED <<step, ifl, masked, bound, ll, ticks, hung>>
-------------------------------------------------------------------------------
(* The stub and interrupts_handle_int. *)

Top(phase) == Undisturbed /\ stack # <<>> /\ Last(stack).phase = phase
Goes(phase) == stack' = [stack EXCEPT ![Len(stack)].phase = phase]

\* The stub's first instruction is cli.
Stub ==
    /\ Top("stub")
    /\ ifl' = FALSE /\ Goes("handle")
    /\ UNCHANGED <<step, masked, irr, isr, bound, ll, ticks, hung>>

\* The handler that runs: "If a bound handler is present, it takes priority".
Handler(v) == IF bound[v] # NoHandler THEN bound[v] ELSE ll[v]

\* interrupts_handle_int, up to the acknowledgement; exception hangs.
Handle ==
    /\ Top("handle")
    /\ LET h == Handler(Last(stack).vec)
       IN  /\ IF h = "exception" THEN hung' = TRUE /\ UNCHANGED stack
              ELSE Goes("eoi") /\ UNCHANGED hung
           /\ ticks' = IF h = "irq0_handle" /\ ticks < MaxTicks THEN ticks + 1 ELSE ticks
    /\ UNCHANGED <<step, ifl, masked, irr, isr, bound, ll>>

\* Mutations: only the timer is acknowledged; nothing is.
Acknowledges_Timer(v) == v = 32
Acknowledges_None(v) == FALSE

\* The vectors of hardware lines.
Acknowledges(v) == v >= 32 /\ v < 48

\* interrupts_eoi: the controller ends the line of the highest priority in service.
Eoi ==
    /\ Top("eoi")
    /\ Goes("iret")
    /\ isr' = IF Acknowledges(Last(stack).vec) /\ isr # {}
              THEN isr \ {CHOOSE l \in isr : \A k \in isr : l <= k} ELSE isr
    /\ UNCHANGED <<step, ifl, masked, irr, bound, ll, ticks, hung>>

\* "sti; iret": the flag is back only when the frame is gone.
Iret ==
    /\ Top("iret")
    /\ stack' = Front(stack) /\ ifl' = TRUE
    /\ UNCHANGED <<step, masked, irr, isr, bound, ll, ticks, hung>>

Dispatch == Stub \/ Handle \/ Eoi \/ Iret

IntrNext ==
    \/ BootStep \/ Dispatch
    \/ \E v \in {3, 128} : SoftInt(v)
    \/ \E l \in Lines : Raise(l) \/ Deliver(l)

\* The processor goes on, with the boot, a handler or the next interrupt.
Processor == BootStep \/ Dispatch \/ \E l \in Lines : Deliver(l)

IntrSpec == IntrInit /\ [][IntrNext]_intrvars /\ WF_intrvars(Processor)
-------------------------------------------------------------------------------
(***************************************************************************)
(* Properties.                                                             *)
(***************************************************************************)

\* Interrupts are on, with every line unmasked, well before keyboard_init: a key pressed
\* then reaches exception(), which hangs the kernel.  But from that moment on nothing hangs
\* on the timer, and nothing on the keyboard once keyboard_init is through, wherever the
\* boot and the handlers are interrupted; only a line that no one has registered yet, or
\* ever, reaches exception().
UnhandledOnlyEarly ==
    hung => LET v == Last(stack).vec
            IN  v - 32 \in Lines \ {0} /\ (v = 33 => step <= 8)

\* What the controller holds in service is just what has a frame that has yet to
\* acknowledge it: no acknowledgement is missing, sent twice or taken for another line, and
\* no handler is entered while it is under way below, so that irq0_handle's increment is
\* never torn.
InServiceHasFrame ==
    /\ isr = {stack[i].vec - 32 : i \in {j \in DOMAIN stack : stack[j].phase # "iret"}} \cap Lines
    /\ \A i, j \in DOMAIN stack : i # j => stack[i].vec # stack[j].vec

\* The timer is never shut out: a tick raised once interrupts are on is taken, unless an
\* interrupt no one handles hangs the kernel first.
TimerTaken == 0 \in irr /\ step > 4 ~> 0 \notin irr \/ hung
===============================================================================
