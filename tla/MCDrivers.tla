----------------------------- MODULE MCDrivers -----------------------------
(* The kernel's drivers with the fields their struct driver gives them. *)
EXTENDS Drivers

\* With a loaded module whose driver depends on framebuffers and starts disabled.
MCDriverSet == TreeDrivers \cup {ModuleDriver}
MCAttr == (ModuleDriver :> Fields(FALSE, "framebuffer", "char", TRUE)) @@ TreeAttr

\* The early initialiser of the serial ports runs before all others.  Every order
\* of the drivers that look for each other's devices, and two more.
MCOrders ==
    {<<"serial", "vesa">> \o o \o <<"vga">> : o \in SetToSeqs({"fbcon", "bdrive", "fat"})}
    \cup {<<"serial", "vesa", "bdrive", "fat", "vga", "fbcon">>,
          <<"serial", "fat", "fbcon", "vga", "bdrive", "vesa">>}

\* Room for what a boot with three disks of two partitions each makes.
MCIds == 1 .. 14
MCWords == {"sp", "vga", "vesafb", "fbcon", "hd", "p"}

\* NULL in memory never used before, anything in a block used again.
MCLeft == {<<>>, Garbage}
=============================================================================
