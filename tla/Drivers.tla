------------------------------ MODULE Drivers ------------------------------
(***************************************************************************)
(* The kernel's own drivers on top of the driver manager: serial ports,    *)
(* VGA and framebuffer consoles, the VESA framebuffer, BIOS disks and FAT  *)
(* partitions, with the boot of the drivers in link order, the endrv       *)
(* command, and a loaded module that uses the exported functions.          *)
(***************************************************************************)
EXTENDS DriverManager, FiniteSetsExt

CONSTANTS
    LinkOrders,     \* the orders in which the link may leave the drivers
    DiskCounts,     \* how many disks the BIOS may report
    MaxPartitions,  \* how many FAT partitions a disk may have
    LeftInMemory,   \* what kalloc may leave in an unassigned subdevices
    MaxMade,        \* bound: with more devices made there are no more commands and calls
    ModuleRemoves   \* the types of devices a loaded module may deregister

\* The kernel's own drivers, and one a loaded module brings.
TreeDrivers == {"serial", "vga", "vesa", "fbcon", "bdrive", "fat"}
ModuleDriver == "module"

Fields(probe, dependsOn, typeFor, off) ==
    [hasProbe |-> probe, dependsOn |-> dependsOn, typeFor |-> typeFor, disabled |-> off]

\* The fields of the kernel's own drivers.
SerialDriver == Fields(TRUE, None, None, FALSE)
VgaDriver    == Fields(TRUE, None, "con", FALSE)
VesaDriver   == Fields(TRUE, None, "framebuffer", TRUE)
FbconDriver  == Fields(FALSE, "framebuffer", "con", FALSE)
BdriveDriver == Fields(TRUE, None, "block", FALSE)
FatDriver    == Fields(FALSE, "block", "fs", FALSE)

TreeAttr ==
    [d \in TreeDrivers |->
        CASE d = "serial" -> SerialDriver [] d = "vga" -> VgaDriver [] d = "vesa" -> VesaDriver
          [] d = "fbcon" -> FbconDriver [] d = "bdrive" -> BdriveDriver [] d = "fat" -> FatDriver]

\* A loaded module's driver may have any fields.  What kalloc leaves in memory is no device.
ASSUME TreeAssumption ==
    /\ TreeDrivers \subseteq Drivers
    /\ \A d \in TreeDrivers : Attr[d] = TreeAttr[d]
    /\ DiskCounts \subseteq Nat /\ MaxPartitions \in Nat /\ MaxMade \in Nat
    /\ LeftInMemory \subseteq {<<>>, Garbage}

VARIABLES
    partitions,     \* FAT partitions of each disk, by BIOS drive
    booted,         \* kernel_main has taken vga0 for its console
    console         \* the device behind the global console, or NoDevice

vars == <<managerVars, partitions, booted, console>>

Disks == DOMAIN partitions

TypeOK ==
    /\ ManagerTypeOK
    /\ \E n \in DiskCounts : partitions \in [0 .. n - 1 -> 0 .. MaxPartitions]
    /\ booted \in BOOLEAN
    /\ console \in DOMAIN dev \cup {NoDevice}

Init ==
    /\ ManagerInit
    /\ \E n \in DiskCounts : partitions \in [0 .. n - 1 -> 0 .. MaxPartitions]
    /\ booted = FALSE
    /\ console = NoDevice
----------------------------------------------------------------------------
(* The probes.  Each step makes and registers one device, or returns. *)

Probing(d) == Running("probe") /\ Top.drv = d

\* The probe registers a device and counts it.
Make(new) ==
    /\ device_register([Top EXCEPT !.at = @ + 1], dev, new)
    /\ UNCHANGED <<drivers, disabled, firstProbe, probed, panicked, partitions, booted, console>>

\* The probe makes nothing on this round of its loop.
Skip ==
    /\ Continue([Top EXCEPT !.at = @ + 1])
    /\ UNCHANGED <<drivers, devices, dev, disabled, firstProbe, probed, panicked,
                   partitions, booted, console>>

Done ==
    /\ Return
    /\ UNCHANGED <<drivers, devices, dev, disabled, firstProbe, probed, panicked,
                   partitions, booted, console>>

\* The name a probe wants has no suffix left to it: ASSERT.
Panic ==
    /\ panicked' = TRUE
    /\ UNCHANGED <<drivers, devices, dev, disabled, firstProbe, probed, stack,
                   partitions, booted, console>>

\* Registers a device whose name is prefix and the first suffix available.
MakeNumbered(prefix, type, unit, subdevices) ==
    IF SuffixFails(prefix)
    THEN Panic
    ELSE Make(Device(Append(prefix, FirstAvailableSuffix(prefix)), type, unit, subdevices))

SerialProbe ==
    /\ Probing("serial")
    /\ IF firstProbe["serial"] /\ Top.at < 4
       THEN Make(Device(<<"sp", Top.at>>, "char", 0, <<>>))
       ELSE Done

\* subdevices is never set, but the memory is fresh: nothing in it is a device.
VgaProbe ==
    /\ Probing("vga")
    /\ IF firstProbe["vga"] /\ Top.at = 0
       THEN Make(Device(<<"vga", 0>>, "con", 0, <<>>))
       ELSE Done

\* Without VBE, or when the mode cannot be set, there is no device.
VesaProbe ==
    /\ Probing("vesa")
    /\ \/ Done
       \/ /\ firstProbe["vesa"] /\ Top.at = 0
          /\ \E left \in LeftInMemory : MakeNumbered(<<"vesafb">>, "framebuffer", 0, left)

\* Mutation: the test for a drive counts from 1.
Registers_Many(nr) == nr % 2 = 1 /\ nr > 1

\* regs.edx & 0xff > 0 is regs.edx & (0xff > 0), the last bit of the number of disks.
Registers(nr) == nr % 2 = 1

\* at is the loop's i; the BIOS call fails for a drive that is not there.
BdriveProbe ==
    /\ Probing("bdrive")
    /\ IF ~firstProbe["bdrive"] \/ Top.at = 4
       THEN Done
       ELSE IF Top.at \in Disks /\ Registers(Cardinality(Disks))
       THEN MakeNumbered(<<"hd">>, "block", Top.at, <<>>)
       ELSE Skip

\* Mutation: the partition table is always that of the first disk.
PartitionsOf_First(i) == partitions[0]

\* The partitions of type 0x0e in the table read from the invoker i.
PartitionsOf(i) == partitions[dev[i].unit]

\* at counts the partitions.
FatProbe ==
    /\ Probing("fat")
    /\ LET i == Top.dev IN
       IF i = NoDevice \/ Top.at = PartitionsOf(i)
       THEN Done
       ELSE MakeNumbered(dev[i].name \o <<"p">>, "fs", dev[i].unit, <<>>)

Bindable(i) == dev[i].type = "framebuffer" /\ dev[i].subdevices = <<>>

\* fbcon_probe visits every device; at is the one it stands on.
FbconVisit ==
    /\ Probing("fbcon") /\ Top.new = NoDevice
    /\ LET i == NextDevice(Top.at) IN
       IF i = NoDevice THEN Done
       ELSE IF Bindable(i) /\ SuffixFails(<<"fbcon">>) THEN Panic
       ELSE /\ IF Bindable(i)
               THEN device_register([Top EXCEPT !.at = i, !.new = NewId],
                                    [dev EXCEPT ![i].subdevices = <<NewId>>],
                                    Device(<<"fbcon", FirstAvailableSuffix(<<"fbcon">>)>>,
                                           "con", 0, <<>>))
               ELSE Continue([Top EXCEPT !.at = i]) /\ UNCHANGED <<dev, devices>>
            /\ UNCHANGED <<drivers, disabled, firstProbe, probed, panicked,
                           partitions, booted, console>>

\* "get rid of the old one"
OldConsole == device_get_by_name(<<"vga", 0>>)

\* Mutation: the console stays the old one.
NewConsole_Kept == console

NewConsole == Top.new

\* Back from registering the new console, or from deregistering the old one.
FbconTakeOver ==
    /\ Probing("fbcon") /\ Top.new # NoDevice
    /\ IF OldConsole # NoDevice
       THEN /\ Call(Top, Frame("deregister", None, OldConsole, 0, NoDevice))
            /\ UNCHANGED console
       ELSE /\ Continue([Top EXCEPT !.new = NoDevice])
            /\ console' = NewConsole
    /\ UNCHANGED <<drivers, devices, dev, disabled, firstProbe, probed, panicked,
                   partitions, booted>>

\* The module's driver looks at the device and makes nothing.
ModuleProbe == Probing(ModuleDriver) /\ Done

ProbeStep ==
    \/ SerialProbe \/ VgaProbe \/ VesaProbe \/ BdriveProbe \/ FatProbe
    \/ FbconVisit \/ FbconTakeOver \/ ModuleProbe
----------------------------------------------------------------------------
(* The callers. *)

Steps ==
    \/ ManagerStep /\ UNCHANGED <<partitions, booted, console>>
    \/ ProbeStep

\* The initialisers run in the order of the link, which is the order in which
\* find lists the sources.
BootDriver ==
    /\ ~booted
    /\ \E o \in LinkOrders, d \in TreeDrivers \ ToSet(drivers) :
          /\ IsPrefix(Append(drivers, d), o)
          /\ driver_register(d)
    /\ UNCHANGED <<partitions, booted, console>>

\* device_get_console(device_get_by_name("vga0"))
TakeVga ==
    /\ ~booted /\ Idle /\ ~panicked
    /\ TreeDrivers \subseteq ToSet(drivers)
    /\ booted' = TRUE
    /\ console' = device_get_by_name(<<"vga", 0>>)
    /\ UNCHANGED <<managerVars, partitions>>

\* A command makes up to two devices.
Room == Len(dev) + 2 <= MaxMade

\* endrv of a driver with a modname says so when it is enabled, and goes on.
Endrv ==
    /\ booted /\ Room
    /\ \E d \in {"vesa", ModuleDriver} \cap ToSet(drivers) : driver_enable(d)
    /\ UNCHANGED <<partitions, booted, console>>

\* A loaded module registers or deregisters its driver or a device, or asks for
\* another probe.
ModuleCalls ==
    /\ booted /\ Room
    /\ \/ ModuleDriver \in Drivers \ ToSet(drivers) /\ driver_register(ModuleDriver)
       \/ driver_deregister(ModuleDriver)
       \/ \E i \in ToSet(devices) : dev[i].type \in ModuleRemoves /\ device_deregister(i)
       \/ \E t \in Types : driver_probe_for(t)
    /\ UNCHANGED <<partitions, booted, console>>

Next == BootDriver \/ TakeVga \/ Endrv \/ ModuleCalls \/ Steps

\* The processor goes on with what it has begun; nobody has to give commands.
Spec == Init /\ [][Next]_vars /\ WF_vars(Steps)
----------------------------------------------------------------------------
(***************************************************************************)
(* Properties.                                                             *)
(***************************************************************************)

\* device_get_by_name is unambiguous: the suffixes keep registered names apart,
\* whatever was deregistered in between.
UniqueNames ==
    \A i, j \in ToSet(devices) : dev[i].name = dev[j].name => i = j

\* However the link orders the drivers and whatever is registered later, an
\* enabled driver that depends on a type has been probed once with each device of
\* that type since it was registered or last enabled.
ProbedOnce ==
    Idle /\ ~panicked =>
        \A d \in ToSet(drivers), i \in ToSet(devices) :
            ~disabled[d] /\ DependsOn(d, i) => probed[d][i] = 1

\* No disk is registered and no partition mounted twice, and after the boot every
\* partition of each registered disk is mounted, under a name that starts with that of
\* its disk: however many disks there are, and however the link orders bdrive and fat.
PartitionsMounted ==
    LET mounts(u) == {i \in ToSet(devices) : dev[i].type = "fs" /\ dev[i].unit = u}
        disk(u) == {i \in ToSet(devices) : dev[i].type = "block" /\ dev[i].unit = u}
    IN  \A u \in Disks :
            /\ Cardinality(mounts(u)) <= partitions[u] /\ Cardinality(disk(u)) <= 1
            /\ \A i \in mounts(u), j \in disk(u) : IsPrefix(dev[j].name, dev[i].name)
            /\ ~booted /\ Idle /\ {"bdrive", "fat"} \subseteq ToSet(drivers) /\ ~panicked =>
                  Cardinality(mounts(u)) = IF disk(u) = {} THEN 0 ELSE partitions[u]

\* After the boot each of the first four disks is a device once, wherever the link puts
\* bdrive and whatever probes and takeovers come between its registrations, provided the
\* number of disks is odd: an even one registers none.
DisksRegistered ==
    Cardinality(Disks) % 2 = 1 /\ ~booted /\ Idle /\ ~panicked /\ "bdrive" \in ToSet(drivers) =>
        \A u \in Disks : u < 4 =>
            Cardinality({i \in ToSet(devices) : dev[i].type = "block" /\ dev[i].unit = u}) = 1

\* Between commands the console is a registered one, also after a framebuffer
\* console has taken over from vga0.
ConsoleRegistered ==
    booted /\ Idle /\ ~panicked =>
        console \in ToSet(devices) /\ dev[console].type = "con"

\* The probes that call each other come to an end.
CallsReturn == ~Idle ~> Idle \/ panicked
----------------------------------------------------------------------------
(* What an assertion says, and the code does not do. *)

\* "Suffix numbers greater than 512 not supported" (driver.c): no name gets there.
SuffixesFit == ~panicked
============================================================================
