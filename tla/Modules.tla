-------------------------------- MODULE Modules --------------------------------
(***************************************************************************)
(* Symbols, modules and system calls: kern/mod.c, kern/exe/elf.c, the       *)
(* commands that load a file (kern/main.c), kern/sys/syscall.c and         *)
(* kern/syscalls.c.  A program learns an address in two system calls: the  *)
(* number of getmodsym from number 0, the address from getmodsym (MODULE   *)
(* of lib/export.h, INIT of user/common.h).                                *)
(*                                                                         *)
(* A function is where it lies and its name: <<0, f>> in the kernel,       *)
(* <<n, f>> in the n-th file loaded.  The kind of a symbol stands for the  *)
(* prefix of its name: "einit" and "init" for __einit$ and __init$.        *)
(***************************************************************************)
EXTENDS Integers, SequencesExt, FiniteSetsExt

CONSTANTS
    KernelTable,    \* the symbols between _kexp_start and _kexp_end, in link order
    Files,          \* files that can be loaded
    MaxLoads,       \* bound: files loaded in a run
    NrMax, Reserved \* SYSCALL_NR_MAX, SYSCALL_NR_RESERVED

\* The table has room for the two calls the kernel registers by name: of 128 numbers, 32
\* are reserved.
ASSUME ModAssumption ==
    /\ KernelTable \in Seq([kind : STRING, name : STRING \ {""}])
    /\ \A f \in Files : f.table \in Seq([kind : STRING, name : STRING])
    /\ NrMax \in Nat /\ Reserved \in Nat /\ Reserved + 2 < NrMax

VARIABLES
    mpc,            \* what is going on
    sym,            \* the kernel symbol looked at
    called,         \* ghost: the init functions called
    exports,        \* the list exports: names and functions
    modules,        \* the list modules
    syscalls,       \* syscall_table
    syscall_max,
    loads,          \* files loaded so far
    running,        \* the file whose entry runs, or NoFile
    live,           \* the blocks that hold a loaded file and its segments
    getexport,      \* getexport of the program
    answer          \* what the program asked for last, and got

modvars == <<mpc, sym, called, exports, modules, syscalls, syscall_max, loads, running, live,
             getexport, answer>>

NULL == <<0, "NULL">>
NoFile == [strtab |-> FALSE, table |-> <<>>, wants |-> {}]
Symbol(n, t) == [name |-> t.name, fn |-> <<n, t.name>>]
NoSyscall == "NULL"
NoAnswer == [name |-> "", fn |-> NULL]

\* mod_init, and the tables of system calls after syscall_init.
ModInit ==
    /\ mpc = "early_init" /\ sym = 1 /\ called = {}
    /\ exports = <<>> /\ modules = <<>>
    /\ syscalls = [i \in 0 .. NrMax - 1 |-> NoSyscall] /\ syscall_max = Reserved
    /\ loads = 0 /\ running = NoFile /\ live = {}
    /\ getexport = -1 /\ answer = NoAnswer

ModTypeOK ==
    /\ mpc \in {"early_init", "ksymtab_add", "run", "entry", "panicked", "wild"}
    /\ sym \in 1 .. Len(KernelTable) + 1
    /\ called \subseteq {<<0, s.name>> : s \in ToSet(KernelTable)}
    /\ \A e \in ToSet(exports) \cup ToSet(modules) : e.fn[1] \in 0 .. loads /\ e.fn[2] = e.name
    /\ DOMAIN syscalls = 0 .. NrMax - 1 /\ syscall_max \in Reserved .. NrMax
    /\ loads \in 0 .. MaxLoads /\ running \in Files \cup {NoFile}
    /\ live \subseteq (1 .. loads) \X {"file", "base"}
    /\ getexport \in -1 .. NrMax - 1 /\ answer.fn[1] \in 0 .. loads
--------------------------------------------------------------------------------
(* The boot: the kernel's own symbols. *)

\* mod_ksymtab_early_init: the loop over the table.
EarlyInit ==
    /\ mpc = "early_init" /\ sym <= Len(KernelTable)
    /\ called' = IF KernelTable[sym].kind = "einit" THEN called \cup {Symbol(0, KernelTable[sym]).fn} ELSE called
    /\ sym' = sym + 1
    /\ UNCHANGED <<mpc, exports, modules, syscalls, syscall_max, loads, running, live, getexport, answer>>

\* mod_ksymtab_add: the loop calls the init functions and appends plain symbols.
KSymtabAdd ==
    /\ mpc = "ksymtab_add" /\ sym <= Len(KernelTable)
    /\ called' = IF KernelTable[sym].kind = "init" THEN called \cup {Symbol(0, KernelTable[sym]).fn} ELSE called
    /\ exports' = IF KernelTable[sym].kind = "sym"
                  THEN Append(exports, Symbol(0, KernelTable[sym])) ELSE exports
    /\ sym' = sym + 1
    /\ UNCHANGED <<mpc, modules, syscalls, syscall_max, loads, running, live, getexport, answer>>

EarlyInitEnd ==
    /\ mpc = "early_init" /\ sym > Len(KernelTable)
    /\ mpc' = "ksymtab_add" /\ sym' = 1
    /\ UNCHANGED <<called, exports, modules, syscalls, syscall_max, loads, running, live, getexport, answer>>

\* Where register_syscall puts one more: the last place of the table is never used.
Registered(table, max, name) == IF max + 1 < NrMax THEN [table EXCEPT ![max] = name] ELSE table
MaxAfter(max) == IF max + 1 < NrMax THEN max + 1 ELSE max

\* syscalls_init
SyscallsInit ==
    /\ mpc = "ksymtab_add" /\ sym > Len(KernelTable)
    /\ syscalls' = LET named == [syscalls EXCEPT ![0] = "sysgetdynamic"]
                   IN  Registered(Registered(named, syscall_max, "puts"), MaxAfter(syscall_max), "getmodsym")
    /\ syscall_max' = MaxAfter(MaxAfter(syscall_max))
    /\ mpc' = "run"
    /\ UNCHANGED <<sym, called, exports, modules, loads, running, live, getexport, answer>>
--------------------------------------------------------------------------------
(* Loading a file. *)

\* Mutation: a module's symbols go before the others.
Listed_Front(n, f) == [i \in 1 .. Len(f.table) - 1 |-> Symbol(n, f.table[i + 1])] \o exports

\* mod_symtab_add: "First entry in exports is the module name"; init functions are
\* symbols like any others.
Listed(n, f) == exports \o [i \in 1 .. Len(f.table) - 1 |-> Symbol(n, f.table[i + 1])]

\* The file is read and its segments copied; the entry comes next.
Load(f) ==
    /\ mpc = "run" /\ loads < MaxLoads
    /\ loads' = loads + 1 /\ running' = f /\ getexport' = -1 /\ answer' = NoAnswer
    /\ live' = live \cup {<<loads + 1, "file">>, <<loads + 1, "base">>}
    /\ UNCHANGED <<sym, called, syscalls, syscall_max>>

\* ldmod and elf_load_mod, which asserts that there is a string table.
ldmod(f) ==
    /\ Load(f)
    /\ IF ~f.strtab
       THEN mpc' = "panicked" /\ UNCHANGED <<exports, modules>>
       ELSE /\ mpc' = "entry"
            /\ IF f.table = <<>> THEN UNCHANGED <<exports, modules>>
               ELSE /\ modules' = Append(modules, Symbol(loads + 1, Head(f.table)))
                    /\ exports' = Listed(loads + 1, f)

\* exec and invoke_external: elf_run.
exec(f) ==
    /\ Load(f)
    /\ mpc' = "entry"
    /\ UNCHANGED <<exports, modules>>

\* The entry returns: elf_load_mod or elf_run frees the segments, the command the file.
\* The lists keep their nodes.
Returns ==
    /\ mpc = "entry"
    /\ live' = live \ {<<loads, "file">>, <<loads, "base">>}
    /\ mpc' = "run" /\ running' = NoFile /\ getexport' = -1 /\ answer' = NoAnswer
    /\ UNCHANGED <<sym, called, exports, modules, syscalls, syscall_max, loads>>
--------------------------------------------------------------------------------
(* System calls of the program. *)

\* get_syscall_dynamic: the first with the name, or -1.
get_syscall_dynamic(name) ==
    LET found == {i \in 0 .. syscall_max - 1 : syscalls[i] # NoSyscall /\ syscalls[i] = name}
    IN  IF found = {} THEN -1 ELSE Min(found)

\* The symbol and its name lie in memory that was freed, and may be anything by now.
Stale(e) == e.fn[1] # 0 /\ <<e.fn[1], "base">> \notin live

\* What mod_sym_get may return: the first with the name, or NULL; a stale symbol in front
\* of it may happen to have the name.
mod_sym_get(name) ==
    LET found == {i \in DOMAIN exports : exports[i].name = name /\ ~Stale(exports[i])}
        stale == {i \in DOMAIN exports : Stale(exports[i]) /\ \A j \in found : i < j}
    IN  {exports[i].fn : i \in stale} \cup {IF found = {} THEN NULL ELSE exports[Min(found)].fn}

\* syscall_handle: whether the number is one of the table's.
Handled(nr) == nr >= 0 /\ nr < NrMax /\ syscalls[nr] # NoSyscall

\* module_init of MODULE: getexport = SYSCALL1(0, "getmodsym").
module_init ==
    /\ mpc = "entry"
    /\ getexport' = IF Handled(0) THEN get_syscall_dynamic("getmodsym") ELSE 0
    /\ UNCHANGED <<mpc, sym, called, exports, modules, syscalls, syscall_max, loads, running, live, answer>>

\* INIT(name): SYSCALL1(getexport, name), where that is getmodsym.
INIT(name) ==
    /\ mpc = "entry" /\ getexport >= 0 /\ Handled(getexport) /\ syscalls[getexport] = "getmodsym"
    /\ \E fn \in mod_sym_get(name) : answer' = [name |-> name, fn |-> fn]
    /\ UNCHANGED <<mpc, sym, called, exports, modules, syscalls, syscall_max, loads, running, live, getexport>>

\* The program calls what it was given.
Call ==
    /\ mpc = "entry" /\ answer.fn # NULL
    /\ mpc' = IF answer.fn[1] = 0 \/ <<answer.fn[1], "base">> \in live THEN mpc ELSE "wild"
    /\ UNCHANGED <<sym, called, exports, modules, syscalls, syscall_max, loads, running, live, getexport, answer>>

ModNext ==
    \/ EarlyInit \/ EarlyInitEnd \/ KSymtabAdd \/ SyscallsInit
    \/ \E f \in Files : ldmod(f) \/ exec(f)
    \/ Returns \/ module_init \/ Call
    \/ \E name \in running.wants : INIT(name)

ModSpec == ModInit /\ [][ModNext]_modvars
--------------------------------------------------------------------------------
(***************************************************************************)
(* Properties.                                                             *)
(***************************************************************************)

\* "Export a symbol as an init symnol, that is one which will be called when a module is
\* loaded (before that modules entry point!)": mod_symtab_add lists it and calls nothing.
ModuleInitsCalled ==
    mpc = "entry" /\ (\E m \in ToSet(modules) : m.fn[1] = loads) =>
        \A s \in ToSet(running.table) : s.kind = "init" => Symbol(loads, s).fn \in called

\* Whatever modules export under whatever names, a program that asks for a function of
\* the kernel gets the kernel's, and the two system calls it asks by are found.
KernelResolves ==
    /\ mpc = "entry" => get_syscall_dynamic("getmodsym") # -1
    /\ \A t \in ToSet(KernelTable) :
          t.kind = "sym" /\ answer.name = t.name => answer.fn = <<0, t.name>>

\* "Export a symbol that is placed in the symbol table as to be callable by other code,
\* be it in another module or directly within the kernel"
ExportsCallable == mpc # "wild"
================================================================================
