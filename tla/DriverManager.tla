--------------------------- MODULE DriverManager ---------------------------
(***************************************************************************)
(* The driver manager, kern/io/driver.c.  Registering a driver probes it   *)
(* with the devices there are, registering a device probes the drivers     *)
(* that depend on its type, and a probe registers and deregisters devices: *)
(* the functions call each other through the drivers, each inside its own  *)
(* loop over a list that the calls below it change.  stack holds the       *)
(* activations, innermost last; a step runs the innermost one to its next  *)
(* call or return.  The probes themselves are in the modules that extend   *)
(* this one.                                                               *)
(***************************************************************************)
EXTENDS SequencesExt

CONSTANTS
    Drivers,        \* the struct drivers there are
    Attr,           \* the fields of each driver that do not change
    Ids,            \* the struct devices memory has room for, 1 .. some bound
    Words        \* the words device names are built from

Types == {"con", "framebuffer", "char", "block", "fs"}
None == "none"
NoDevice == 0

\* A subdevices nobody assigned that is not NULL: it points to no device.
Garbage == <<NoDevice>>

\* hasProbe: probe is defined, else only probe_directed is.
ASSUME AttrAssumption ==
    /\ Attr \in [Drivers -> [hasProbe : BOOLEAN, dependsOn : Types \cup {None},
                             typeFor : Types \cup {None}, disabled : BOOLEAN]]
    /\ \A d \in Drivers : Attr[d].dependsOn # None => ~Attr[d].hasProbe

VARIABLES
    drivers,        \* the list of drivers
    devices,        \* the list of devices
    dev,            \* every struct device made so far, by identity
    disabled,       \* disabled of each driver
    firstProbe,     \* first_probe of each driver
    stack,          \* the activations under way
    probed,         \* ghost: how often a driver was probed with a device since it
                    \* was registered or enabled
    panicked        \* an ASSERT failed

managerVars == <<drivers, devices, dev, disabled, firstProbe, stack, probed, panicked>>

\* An activation of fn: its driver, its device, its loop variable, and the device
\* a probe has just made.
Frame(fn, drv, d, at, new) == [fn |-> fn, drv |-> drv, dev |-> d, at |-> at, new |-> new]

Frames == [fn : {"register", "deregister", "first", "probeFor", "probe"},
           drv : Drivers \cup Types \cup {None}, dev : Ids \cup {NoDevice},
           at : Nat, new : Ids \cup {NoDevice}]

\* A name is a word, a number, and for a partition again a word and a number.
IsName(n) == \A i \in DOMAIN n : IF i % 2 = 1 THEN n[i] \in Words ELSE n[i] \in Nat

ManagerTypeOK ==
    /\ drivers \in Seq(Drivers)
    /\ devices \in Seq(DOMAIN dev)
    /\ DOMAIN dev = 1 .. Len(dev) /\ DOMAIN dev \subseteq Ids
    /\ \A i \in DOMAIN dev :
          /\ IsName(dev[i].name)
          /\ dev[i].type \in Types
          /\ dev[i].unit \in Nat
          /\ dev[i].subdevices \in Seq(DOMAIN dev \cup {NoDevice})
    /\ disabled \in [Drivers -> BOOLEAN]
    /\ firstProbe \in [Drivers -> BOOLEAN]
    /\ stack \in Seq(Frames)
    /\ probed \in [Drivers -> [Ids -> Nat]]
    /\ panicked \in BOOLEAN

ManagerInit ==
    /\ drivers = <<>>
    /\ devices = <<>>
    /\ dev = <<>>
    /\ disabled = [d \in Drivers |-> Attr[d].disabled]
    /\ firstProbe = [d \in Drivers |-> FALSE]
    /\ stack = <<>>
    /\ probed = [d \in Drivers |-> [i \in Ids |-> 0]]
    /\ panicked = FALSE
----------------------------------------------------------------------------
(* The control stack. *)

Idle == stack = <<>>
Top == Last(stack)

Running(fn) == ~Idle /\ ~panicked /\ Top.fn = fn

\* The innermost activation returns, goes on as fr, or goes on as fr and calls callee.
Return == stack' = Front(stack)
Continue(fr) == stack' = Front(stack) \o <<fr>>
Call(fr, callee) == stack' = Front(stack) \o <<fr, callee>>

\* Mutations: the loop variable stays where it is; the loop ends a device early.
NextDevice_Stuck(i) ==
    IF devices = <<>> THEN NoDevice
    ELSE IF i = NoDevice THEN devices[1] ELSE i
NextDevice_NotLast(i) ==
    LET k == IF i = NoDevice THEN 0 ELSE CHOOSE j \in DOMAIN devices : devices[j] = i
    IN  IF k + 1 < Len(devices) THEN devices[k + 1] ELSE NoDevice

\* The device behind i in the list, or the first one.
NextDevice(i) ==
    LET k == IF i = NoDevice THEN 0 ELSE CHOOSE j \in DOMAIN devices : devices[j] = i
    IN  IF k < Len(devices) THEN devices[k + 1] ELSE NoDevice

\* A probe of d with device i as invoker.
Probe(d, i) == Frame("probe", d, i, 0, NoDevice)
Counted(d, i) == IF i = NoDevice THEN probed ELSE [probed EXCEPT ![d][i] = @ + 1]
----------------------------------------------------------------------------
(* Names. *)

\* atoi takes any character for a digit; 'p' is worth 64.
Atoi(s) == IF Len(s) = 1 THEN s[1] ELSE (10 * s[1] + 64) * 10 + s[3]

MatchingSuffixes(prefix) ==
    {Atoi(SubSeq(dev[i].name, Len(prefix) + 1, Len(dev[i].name))) :
        i \in {j \in ToSet(devices) : IsPrefix(prefix, dev[j].name)}}

\* ASSERT(suffix_num < 512)
SuffixFails(prefix) == \E n \in MatchingSuffixes(prefix) : n >= 512

\* Mutation: the suffix is not looked up, as for "vga0".
FirstAvailableSuffix_Zero(prefix) == 0

\* 512 when all below are taken.
FirstAvailableSuffix(prefix) ==
    CHOOSE n \in 0 .. 512 : /\ n \notin MatchingSuffixes(prefix)
                            /\ \A m \in 0 .. n - 1 : m \in MatchingSuffixes(prefix)

device_get_by_name(name) ==
    LET k == SelectInSeq(devices, LAMBDA i : dev[i].name = name)
    IN  IF k = 0 THEN NoDevice ELSE devices[k]

\* The struct device a probe makes; unit tells which hardware it stands for.
Device(name, type, unit, subdevices) ==
    [name |-> name, type |-> type, unit |-> unit, subdevices |-> subdevices]
NewId == Len(dev) + 1
----------------------------------------------------------------------------
(* device_register *)

\* The running probe registers a new device and goes on as fr; table is what
\* becomes of the other devices.
device_register(fr, table, new) ==
    /\ dev' = Append(table, new)
    /\ devices' = Append(devices, NewId)
    /\ Call(fr, Frame("register", None, NewId, 0, NoDevice))

DependsOn(d, i) == Attr[d].dependsOn = dev[i].type

\* LIST_FOREACH over the drivers; nothing removes one meanwhile.
RegisterStep ==
    /\ Running("register")
    /\ IF Top.at = Len(drivers)
       THEN Return /\ UNCHANGED probed
       ELSE LET d == drivers[Top.at + 1]
                next == [Top EXCEPT !.at = @ + 1]
            IN  IF DependsOn(d, Top.dev)
                THEN Call(next, Probe(d, Top.dev)) /\ probed' = Counted(d, Top.dev)
                ELSE Continue(next) /\ UNCHANGED probed
    /\ UNCHANGED <<drivers, devices, dev, disabled, firstProbe, panicked>>
----------------------------------------------------------------------------
(* device_deregister and device_deregister_subdevices *)

\* The subdevices that are deregistered with i.
Doomed(i) == dev[i].subdevices

\* Not in the list: returns false.  Else the subdevices go first, then i.
DeregisterStep ==
    /\ Running("deregister")
    /\ LET i == Top.dev IN
       IF i \notin ToSet(devices)
       THEN Return /\ UNCHANGED <<devices, dev>>
       ELSE IF Top.at < Len(Doomed(i))
       THEN /\ Call([Top EXCEPT !.at = @ + 1],
                    Frame("deregister", None, Doomed(i)[Top.at + 1], 0, NoDevice))
            /\ UNCHANGED <<devices, dev>>
       ELSE /\ dev' = [dev EXCEPT ![i].subdevices = <<>>]
            /\ devices' = RemoveFirst(devices, i)
            /\ Return
    /\ UNCHANGED <<drivers, disabled, firstProbe, probed, panicked>>
----------------------------------------------------------------------------
(* driver_first_probe *)

FirstStep ==
    /\ Running("first")
    /\ LET d == Top.drv
           loops == ~Attr[d].hasProbe /\ Attr[d].dependsOn # None
           i == NextDevice(Top.dev)
       IN  IF loops /\ i # NoDevice
           THEN /\ IF DependsOn(d, i)
                   THEN Call([Top EXCEPT !.dev = i], Probe(d, i)) /\ probed' = Counted(d, i)
                   ELSE Continue([Top EXCEPT !.dev = i]) /\ UNCHANGED probed
                /\ UNCHANGED firstProbe
           ELSE IF ~loops /\ Top.at = 0
           THEN Call([Top EXCEPT !.at = 1], Probe(d, NoDevice)) /\ UNCHANGED <<probed, firstProbe>>
           ELSE /\ Return
                /\ firstProbe' = [firstProbe EXCEPT ![d] = FALSE]
                /\ UNCHANGED probed
    /\ UNCHANGED <<drivers, devices, dev, disabled, panicked>>

FirstProbe(d) ==
    /\ firstProbe' = [firstProbe EXCEPT ![d] = TRUE]
    /\ stack' = <<Frame("first", d, NoDevice, 0, NoDevice)>>

Uncounted(d) == [probed EXCEPT ![d] = [i \in Ids |-> 0]]

\* A driver comes with the fields of its initialiser, a reloaded one again.
driver_register(d) ==
    /\ Idle /\ ~panicked
    /\ drivers' = Append(drivers, d)
    /\ disabled' = [disabled EXCEPT ![d] = Attr[d].disabled]
    /\ probed' = Uncounted(d)
    /\ IF Attr[d].disabled THEN UNCHANGED <<firstProbe, stack>> ELSE FirstProbe(d)
    /\ UNCHANGED <<devices, dev, panicked>>

driver_enable(d) ==
    /\ Idle /\ ~panicked
    /\ disabled' = [disabled EXCEPT ![d] = FALSE]
    /\ probed' = Uncounted(d)
    /\ FirstProbe(d)
    /\ UNCHANGED <<drivers, devices, dev, panicked>>

driver_deregister(d) ==
    /\ Idle /\ ~panicked
    /\ d \in ToSet(drivers)
    /\ drivers' = RemoveFirst(drivers, d)
    /\ UNCHANGED <<devices, dev, disabled, firstProbe, stack, probed, panicked>>

\* device_deregister called from outside any probe.
device_deregister(i) ==
    /\ Idle /\ ~panicked
    /\ stack' = <<Frame("deregister", None, i, 0, NoDevice)>>
    /\ UNCHANGED <<drivers, devices, dev, disabled, firstProbe, probed, panicked>>
----------------------------------------------------------------------------
(* driver_probe_for *)

\* With no invoker, as the first probes have it: nothing in the kernel calls this, and
\* nothing gives it another.
driver_probe_for(type) ==
    /\ Idle /\ ~panicked
    /\ stack' = <<Frame("probeFor", type, NoDevice, 0, NoDevice)>>
    /\ UNCHANGED <<drivers, devices, dev, disabled, firstProbe, probed, panicked>>

ProbeForStep ==
    /\ Running("probeFor")
    /\ IF Top.at = Len(drivers)
       THEN Return
       ELSE LET d == drivers[Top.at + 1]
                next == [Top EXCEPT !.at = @ + 1]
            IN  IF Attr[d].typeFor = Top.drv THEN Call(next, Probe(d, NoDevice)) ELSE Continue(next)
    /\ UNCHANGED <<drivers, devices, dev, disabled, firstProbe, probed, panicked>>

ManagerStep == RegisterStep \/ DeregisterStep \/ FirstStep \/ ProbeForStep
============================================================================
