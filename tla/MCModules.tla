------------------------------ MODULE MCModules -------------------------------
(***************************************************************************)
(* A small kernel and the files that are loaded into it.                   *)
(***************************************************************************)
EXTENDS Modules

\* Link order: early and other init functions between the symbols.
MCKernelTable ==
    <<[kind |-> "init", name |-> "__init$fat"], [kind |-> "sym", name |-> "kalloc"],
      [kind |-> "einit", name |-> "__einit$serial"], [kind |-> "init", name |-> "__init$vga"],
      [kind |-> "sym", name |-> "puts"]>>

Mod(name) == [kind |-> "mod", name |-> name]
Sym(name) == [kind |-> "sym", name |-> name]
Ini(name) == [kind |-> "init", name |-> name]

\* A program without exports; a module that exports a function, one that exports
\* functions with the names of another and of the kernel; one with an init function; a
\* stripped file.
MCFiles ==
    {[strtab |-> TRUE, table |-> <<>>, wants |-> {"puts", "kalloc", "draw", "__einit$serial"}],
     [strtab |-> TRUE, table |-> <<Mod("drv"), Ini("__init$fat")>>, wants |-> {"__init$fat"}],
     [strtab |-> TRUE, table |-> <<Mod("gfx"), Sym("draw")>>, wants |-> {"kalloc"}],
     [strtab |-> TRUE, table |-> <<Mod("fake"), Sym("puts"), Sym("draw")>>, wants |-> {"puts", "draw"}],
     [strtab |-> FALSE, table |-> <<>>, wants |-> {}]}
===============================================================================
