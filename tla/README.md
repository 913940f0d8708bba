# A TLA+ verification of µboot

µboot (`src/`) is a small 32-bit x86 kernel with a shell: one processor, one
stack, no processes. Concurrency comes from interrupts, and from functions that
call back into a component while it is in the middle of a loop. A failed `ASSERT`
prints and hangs (`kern/stdlib.c`, `_assert`); the modules call that *panicked* or
*stopped* and let nothing happen afterwards.

`PROJECT.json` maps every definition to the lines it models and lists the runs,
the hazards and the theorems.

## 1. Inventory

| Component | State | Operations | Hard part | What makes it correct |
|---|---|---|---|---|
| Allocator `kern/alloc.c` | chain of headers in one region | kalloc, kallocz, krealloc, kfree, kmmcritical | long call sequences: reuse, shrink, move; the end of memory | blocks disjoint, headers intact, data of one owner untouched by calls of others |
| List `kern/list.c` | two sentinels, linked nodes | append, remove, insert, LIST_FOREACH | loops whose body changes the list; freed nodes reused | links agree in both directions with the intended order; a loop visits what it owes |
| Driver manager `kern/io/driver.c` | lists of drivers and devices | (de)register device/driver, enable, probe_for, suffix | nested callbacks over lists that change | each driver meets each device once, names unique, calls return |
| Drivers: serial, VGA, VESA, fbcon, BIOS disk, FAT | devices they register | probes, console take-over | link order; unassigned fields | partitions mounted, console registered, disks found |
| Keyboard `kern/io/keyboard.c` + IRQ1 + `kern/sys/bios.S` | `available`, `shift`, controller byte, pending interrupt | IRQ handler, polling reader, BIOS call | interrupt between any two steps; lost wake-up; BIOS call that drops a byte | keys delivered once, in order, all of them |
| FAT cursor `kern/fs/fat.c`, `kern/fs/fs.c` | current cluster and offset; growing block | fat_read, fs_read_full | alignment of reads to clusters; short chains | reads are consecutive pieces of the file; full read exact, in bounds |
| Hash table `kern/htbl.c` | array, capacity, length | create, put, get, expand, destroy | probing ends only if the array is never full; expansion calls put | a map; every search ends |
| Ring buffer `kern/buffer.c` | array, head, tail, full | put, get, reset | full and empty look alike | a queue of the last elements |
| Console `kern/io/console.c`, `vga.c`, `fbcon.c` | cursor, cells, back buffer, drawn cursor | putc, erase, clear, scroll, invalidate | wrapping, scrolling, erasing around the left edge, a cursor that overwrites what it stands on | the screen is the end of one roll of text, and is seen as drawn |
| Line editor `gets` in `kern/stdlib.c` | buffer, place in it | gets | rubbing out a line that has scrolled; the byte before the buffer | what is before the cursor is the line in the buffer |
| Environment `kern/env.c` | fixed array of items, `current` | put, get, remove, add lines of a text | full table, removed items used again | a map with room for so many keys |
| Configuration `kern/config.c` | namespaces of typed values in hash tables | newns, set, get, gettype, exists | an overwritten string freed and its place reused; missing namespace | the last value set, with its type |
| FAT directories `kern/fs/fat.c`, `fs_open` | — (the disk; buffers on the heap) | fat_create, path lookup, listing, open, close | directories of several clusters, end marks, exits that owe memory | a path opens what the tree has there |
| Disk transfers `kern/io/bios_drive.c` | one low buffer | read, write in chunks | chunk sizes, a BIOS call that fails | bytes reach the right place |
| Interrupts `kern/sys/interrupts.c`, stubs | handler tables, controller, frames | init, register, dispatch, acknowledge | devices that are running before their handlers; nesting | everything handled, acknowledged once |
| Modules, programs, system calls `kern/mod.c`, `kern/exe/elf.c`, `kern/sys/syscall.c` | tables of symbols and calls | boot tables, ldmod, exec, dynamic lookup | memory freed after the entry returns | a name leads to a function that is there |
| Shell `kern/main.c` | argv, script text, strtok's pointer | autorun, split, setenv, setconf, getconf | runs of spaces, one pointer for all users of strtok | every line run once, values as typed |
| Strings and numbers `kern/stdlib.c` | strtok's pointer | strtok_r, strchr, itoa, atoi, strtoul | limits of the types | exact, or saturated |
| Kernel start `kern/kernel.c` | — | order of the initialisers | interrupts on before handlers | each thing there before it is used |
| Resolutions and fonts `kern/io/vesa.c`, `fbcon.c`, setres and setfnt in `kern/main.c` | the size in the BIOS, the VESA driver, the framebuffer device and the console; place of the drawn cursor | setres, setfnt, clear, output in between | four copies of a size; requests that are refused; a place that belongs to the old screen | the sizes agree, output stays on the screen and in the back buffer |
| printf, boot loader, segments, probes, network, self test | — | — | — | see section 7 |

Interactions: everything allocates through the allocator; the driver manager and
the module loader keep lists and run callbacks inside LIST_FOREACH; probes call
back into the manager; fs_read_full calls fat_read, which calls the disk, which
calls the BIOS, which switches interrupts off and drops a keyboard byte;
configuration is hash tables of hash tables; the shell cuts its lines with the same
strtok as fs_open, which it calls while it runs a script; it waits in gets for the
keyboard and writes to the console the framebuffer driver may replace.

## 2. Plan

Done, in this order: Alloc, LinkedList, DriverManager and Drivers, Keyboard,
FatFile, HashTable, RingBuffer, Console; then Environment, BlockDrive, FatVolume,
Interrupts, Modules, Config, Strings, Shell, Numbers, Framebuffer.

Next, most important first:

1. Names of files: padding, case, and what fat.c:208 does with a name longer than 8.3.
2. The text on the screen, and a line being typed, across a change of the resolution:
   Framebuffer has the sizes, Console the text.
3. BIOS calls with the saved masks and register frame, for Interrupts as it is for
   Keyboard.

The runs are few and broad: a new component joins the run of a layer it belongs to,
as a part of its own.

## 3. Modules

*Alloc* keeps the bytes of memory (`mem`) and the headers (`blocks`, chain order), so
that headers, payloads, memset, memcpy and owners' writes meet in the same
cells. `live` is a ghost ledger: what each caller owns. One action per function;
krealloc is the branch that shrinks in place, the one that moves and the one for
size 0. *AbstractHeap* is what callers count on: disjoint regions whose bytes
change only by their owner. The refinement mapping reads each owned region out of
memory.

*LinkedList* has `next` and `prev` of every cell, freed nodes included, a ghost
`order` and one LIST_FOREACH whose cursor and successor are as the macro computes
them. Appends and removals may come between its steps, as they do from probe
callbacks. list_insert, which nothing calls, is left out.

*DriverManager* models nested calls by a `stack` of activations; a step runs the
innermost one to its next call or return. driver_probe_for has no invoker, as the
first probes have none: nothing in the kernel calls it, so nothing says what other it would
get. *Drivers* gives the kernel's own drivers the
fields of their structs (`TreeAttr`; those of a module's driver are a constant), and
adds what each probe makes,
boot in link order (`LinkOrders`: find's order is not fixed), endrv, and a loaded
module that calls the exported functions.

*Keyboard* has the reader's program counter, the handler between any two of its
steps, the controller (external), and BIOS calls in three steps. `SavedIf` is what the
assembly saves for the interrupt flag: %al, in which the number of the BIOS interrupt
happens to be. Interrupts come back on because no such number is 0.

*Interrupts* begins with the first instructions of kernel_main: the boot is the
sequence of those steps that touch interrupts (`BootSteps`), after which main makes
system calls and runs `brk`. `stack` holds a frame per interrupt under way; a frame is
in one of four
phases: before the stub's cli, before the handler, before the acknowledgement, before
iret. The gates are trap gates, so that interrupts stay on until the cli, and between sti
and iret. The controller (external) knows masks, requests and what is in service by
priority, and ends the highest. Any device may interrupt at any time; a line without a
handler reaches exception(), which hangs (`hung`).

*FatFile* numbers a file's bytes and clusters from 0, so byte p is p. fat_read is
one step (nothing else touches the cursor during a call); fs_read_full one step
per chunk. `Missing` shortens the chain; a read then returns more bytes than it copied, the
rest `Garbage`, and leaves the offset where its own count says. *AbstractFile* is a byte sequence with a
position.

*FatVolume* is given the tree its maker meant, with the clusters everything occupies;
`Sector` lays it out as mkfs.fat and mcopy do, and the code's operators see sectors
only. `WellMade` says what those two programs promise: among it that a chain ends with a
mark above FAT_CLUSTER_END (mcopy writes 0xffff), which read_cluster_chain would
take for a cluster if it were 0xfff8 itself. fs_open cuts the path (`PathParts`), find_dir searches one directory per step,
`FatOpen` makes the file or the listing. `allocated` holds the blocks of the heap, so that each
exit shows what it keeps. What lies behind a buffer is any of `Beyond`, because
find_dir_ent looks there.

*BlockDrive* has one step per chunk through the low buffer; the BIOS may fail at each,
which an ASSERT meets. *AbstractDisk* is an array of blocks.

*HashTable* makes htbl_expand a loop of its own, one old entry per step, each a put
into the table being built; `strings` counts strdup minus kfree. *AbstractMap* is a
partial function. *RingBuffer* and *AbstractQueue* likewise. *Environment* has the
items with the keys and values that removal leaves in them; *AbstractStore* is a map
that drops a new key exactly when it holds as many as there are items. env_remove returns
the address of the item (`Pointer`), not the value the comment promises; the refinement
keeps of it only that something was removed (section 5).

*Config* puts strings into numbered places of a heap, and a place that was freed is
the next to be used; an ASSERT of the hash table meets a namespace that is not there.
*AbstractConfig* is a map from namespace and key to a typed value, with the set of the
namespaces there are (`known`): a call stops (`stopped`) exactly if its namespace is not
among them, and a namespace created again begins anew.

*Strings* has strtok_r and its companions over a buffer with Nul characters; *Shell* the
configuration kernel_late_init makes, the script line by line, and the commands that
store something. strtok's pointer is a variable of its own (`strtokSave`), next to the
one of the script (`rsave`). *Numbers* has the conversions at a width of a few bits.

*Modules* runs over the linker's table once for each kind of symbol, then loads files by
ldmod and exec; `called` collects the init functions that were run. A function is the file it lies in and its name; `live` says whether that
file's memory still is its own. Once it is freed a lookup that meets the symbol may be
answered either way, since name and address may have been overwritten.

*Console* is console_putc, console_erase and console_clear over both drivers, chosen
by `fb`. `con.cells` is VGA memory or fbcon's back buffer and `con.front` the linear
framebuffer, of which invalidate brings a part up to date (`Copied`: what is drawn at
`Offset`, at a distance of `Pitch` from row to row, and looked for at `Source`, where
memblit takes the rows to be `Width` apart and the loop for 8 bits multiplies). A place is
one pixel there; `con.tracked` is where fbcon
believes its cursor glyph to be, and drawing over a cell takes the cursor from it.
The ghost `con.gone` keeps the rows that have scrolled off. gets runs to its next
getc in one step (GetcOther, GetcBackspace, GetcBackspaceAtStart), because nothing
else runs meanwhile; `str` is its pointer. It looks at the byte in front of its
buffer when a backspace comes first, and that byte may be anything (`buf[-1]`). Three
details are merged: console_clear_row passes fb_invalidate its arguments in another
order than the parameters have, but console_putc invalidates the whole screen
right after it scrolls; set_cursor is a no-op of the picture on VGA; vga_null is a
no-op. Colours, console_pad and gets without echo are left out. *AbstractTerminal* is a
roll of paper: characters, line feeds, a line typed at its end, rubbing out that
takes one character off the line and off the roll. A place under a drawn cursor may
lose its character, which is what fb_set_cursor does by erasing it with a space.

*Framebuffer* has the sizes of the screen where the code keeps them: the BIOS (`mode`,
external), `struct vesa_priv` and its back buffer, the framebuffer device, the console.
What is drawn is Console's affair; here a drawing counts for the last byte it writes,
and `fbcon.reach` is the last one since the back buffer was made. FontsFit leaves out fonts
that are larger than the screen, which would leave no place on it.

Three MC modules put parts next to each other: *MCStructures* (heap, list, ring,
environment, hash table, numbers), *MCDevices* (text, sizes of the screen, transfers of a
disk) and *MCKernel* (interrupts, keyboard, modules, shell with configuration,
configuration, paths, contents of files). `part` says which one runs while the others stay
as they began.
But for the shell, a part sees of the one below only what that one promises, so a
product of their states would show nothing more. The shell and the configuration do
share their state.

## 4. Runs

| Run | Shows | Bounds and why they suffice |
|---|---|---|
| structures | chain, headers, ledger and overrun of the allocator, and that owners keep their data; links and loops; a ring is a queue; an environment is a map with room for so many; a hash table is a map, every search ends, through every expansion; conversions of numbers are exact | header 1, alignment 2, memory 4: three blocks, a shrink to an unaligned size, reuse, moves and the end of memory all occur; 4 nodes (symmetric): empty, one, inner, first and last removals under a loop; 4 cells, 3 elements; 3 items, 4 keys, texts with a line without `=`; capacities 2 to 16, four keys that collide at every, some or no capacity, and at the last cell; ints of 5 bits and texts of 3 characters, which reach over every limit. The theorems cover every size |
| drivers | probes, names, disks, partitions, console for 8 link orders: every order of fbcon, BIOS disk and FAT, which look for each other's devices; calls of a module in any order; calls end | 0 to 3 disks of up to 2 partitions each; of an even number none is registered, of an odd one all are. After a boot that made up to 8 devices, commands and calls of a module until there are 10 (`MaxMade`); a boot of more disks ends there, in some link orders with the panic of *drivers_suffix* |
| devices | what is drawn is seen; line and roll agree; no erase at the origin; refinement; sizes agree after every mix of output, resolutions and fonts; transfers are those of an array of blocks | 2 columns, 3 rows, a buffer of 5, 2 rows scrolled off: a line fills the screen but for its last row, wraps twice, scrolls and is rubbed out around the left edge. The buffer is as large as the assumption allows (`BufSize <= (Height - 1) * Width + 1`); in the kernel it is 256 against 1921. Pitch 2 and 32 bits: rows without a gap; *console_pitch* has another mode. Seven modes of 2 to 5 by 2 to 4 pixels and three fonts: changes of columns, of rows, of both and of neither, requests no mode meets, and modes the BIOS lists but the driver does not take. Transfers of 1..5 blocks through a buffer of 2, up to and beyond the end of a disk of 5: three chunks, the last of them shorter |
| kernel: interrupts, modules, shell, configuration | only a key before keyboard_init finds no handler, each interrupt is acknowledged once, the timer never shut out; the kernel's functions found whatever modules export; every line of a script runs; quoted values stored as typed; configuration is a typed map that stops with an unknown namespace and with nothing else | ticks and keys from the first step on, 2 ticks counted; 3 loads of 4 files, with names of the kernel's and each other's; 6 scripts, 22 command lines, 3 typed; 2 namespaces, 4 strings |
| kernel: keyboard | order, completeness and shift; no deaf reader after a BIOS call | 5 key events, shift and 2 letters, 1 BIOS call: a letter pressed under, before and after a shift, with every interleaving. The left shift only: the right one is never released (keyboard.c:73) |
| kernel: files | a path opens what the tree has there, and all memory comes back; reads are pieces of one sequence; fs_read_full is exact and ends | sizes 0..9, clusters of 2, 3, 4 bytes, reads within a cluster or of the rest, chunks of 2 and 10: every alignment of size and offset. Three volumes: clusters of one and two sectors, one and two FATs, a FAT of two sectors, an odd root, directories of one and two clusters out of order, hidden files, labels, empty directories; every path of up to two names, with slashes around, and some of three |
| drivers_suffix | *violation*: the name of a second disk panics | 3 disks with a partition each |
| module_inits | *violation*: a module's entry runs before its init functions, which nothing calls | 2 loads |
| console_pitch | *violation*: rows further apart than they are wide are copied from the wrong place | pitch 3 for a width of 2 |
| fat_cursor | *violation*: a full last cluster is read again | one size |
| dir_past_end | *violation*: an entry found behind the buffer | a directory that fills its cluster |
| htbl_leak | *violation*: key copies leak | 3 leaked strings |
| module_exports | *violation*: a program calls into freed memory | as in kernel |
| screen_shrinks | *violation*: the old cursor is erased outside a smaller screen | as in devices |

Each module's type invariant is in no run's list: those of Alloc, LinkedList, Keyboard,
HashTable, RingBuffer, Environment, Interrupts, Console, FatFile and BlockDrive are
theorems. Those of Drivers, FatVolume and Modules were checked over the state spaces of
the runs (an `INVARIANT` line in the cfg is all it takes).

`CHECK_DEADLOCK FALSE` appears where the system may stop: in structures when memory is
used up; in drivers after a panic or when nothing is left to do within the bounds; in
devices when the buffer is full or the bound on scrolled rows is reached; in all of them,
in kernel and the runs of its modules after a failed ASSERT, a key nobody handles or at a
bound.

Fairness. Keyboard: the controller, pending interrupts, the timer and the kernel's
own steps happen (WF); nobody must press a key. Interrupts: the processor goes on with
the boot, a handler or the next deliverable interrupt (WF of the three together); no
device must interrupt. Drivers and FatFile: the kernel carries on with a call it has
begun (WF of the steps inside a call), which a single processor with no preemption
does; no call has to be made. The other modules assume none.

## 5. Findings

| Run | Where | What |
|---|---|---|
| drivers_suffix | driver.c:293 | hd0p0 counted as number 640 of hd: panic |
| fat_cursor | fat.c:494 | full last cluster read without advancing |
| dir_past_end | fat.c:227 | a full directory is searched one entry past its buffer |
| htbl_leak | htbl.c:133 | keys duplicated again, never freed |
| module_exports | elf.c:65 | a module's exports stay listed when its memory is freed |
| module_inits | mod.c:94 | a module's init functions are listed as symbols and never called; lib/export.h:24-26 says they are |
| console_pitch | vesa.c:334 | memblit's rows are width pixels apart, those of put_pixel and the hardware pitch bytes |
| screen_shrinks | fbcon.c:88 | the old cursor's place is drawn on a smaller screen that has no such place: bytes behind the back buffer change |

Other places where source and intention differ, seen while modelling and not made
runs of their own. The models have the code's behaviour where they reach it:

- bios_drive.c:193, `regs.edx & 0xff > 0` is `regs.edx & (0xff > 0)`, the last bit of the
  number of disks: of an even number none becomes a device (`Registers`), although the
  comment at bios_drive.c:186 gives up only on those whose call failed. DisksRegistered
  is therefore about odd numbers; without that condition two disks refute it.
- env.c:91, env_remove returns the address of the item; env.c:81 promises "the value of the
  item removed". One put and one removal show it. ImplementsStore says no more of a removal
  than that it tells whether there was something to remove.
- interrupts.c:141 turns interrupts on with every line unmasked (interrupts.c:185-186), long
  before keyboard_init: a key pressed in between reaches exception(), which hangs the kernel,
  and interrupts.c:18-19 wants every interrupt handled. UnhandledOnlyEarly says that nothing
  gets there but a line that has no handler at that point of the boot.
- config.c:54, a get of a key in a namespace that is not there fails the assertion of
  htbl_get (htbl.c:85), where config.h:82 and :99 promise NULL and zero. ImplementsConfig
  says that calls with such a namespace, and no others, stop the system.
- vesa.c:325, the loop for 8 bits takes x * pitch * y for the offset of a pixel, which
  vesa_put_pixel draws at x + pitch * y: `Bits = 8` refutes SeenIsDrawn as *console_pitch* does.
- fat.c:497, on a chain that ends early the offset grows by the size asked for, passes
  the end of the file, and `size - offset` wraps in the next call: `Missing = {2}` refutes
  OffsetIntoFile. fat.c:107 calls the offset one "into the file".
- alloc.c:90 compares only the new header's start with the end of memory
  (OverrunBounded says by how much a block may pass it); alloc.c:128 moves a block
  that is exactly large enough.
- list.c:86, list_insert sets two of four pointers, for the wrong side.
- bios_drive.c: a write of more than one block fails an assertion.
- driver.c:32 probes disabled drivers at registration; vesa.c:394 leaves subdevices
  unassigned; main.c:529 goes on after "already enabled"; fat.c:532 filesystems
  outlive their disk.
- keyboard.c:73 does not know the right shift's break code. bios.S:58 saves %al for the
  interrupt flag, so that interrupts are on after every BIOS call, even one made with them off.
- fat.c:166, the least end mark, 0xfff8, is read as a cluster (fat_read stops at it);
  fat.c:208 takes names
  longer than 8.3 beyond the name's bytes; fat.c:253 opens the first entry of an unlabelled
  root instead of the root; fs.c:66 stores a possible -1 in a size_t, which BIOS disks
  never return.
- fbcon.c:139-146: a line feed in the last row moves the drawn cursor up with the
  pixels, and clearing the row makes fb_putxy stop tracking it, so the glyph stays
  behind one row up (the comment at fbcon.c:57 thinks of a cursor overwritten).
- vesa.c:270-274 writes four bytes for a pixel of three, and the back buffer
  (vesa.c:246) has no room for a pitch above the width; fbcon_setparam puts no bound on a
  font; vesa_find_mode keeps its block when there is no VESA; setfnt never frees the old font's
  data.
- stdlib.c:421 looks at the byte before the buffer after a backspace at its start;
  atoi and itoa leave the ints at their limits (itoa of the smallest int); strtoul's
  end pointer and islower's bounds are off by one.
- syscall.c:34 never uses the last slot.
- main.c: a line of blanks or a comment behind blanks is looked up as a command;
  getconf without a key reads behind argv; setconf and setenv without a value copy
  into a buffer of no bytes; a key behind two spaces is looked for in a namespace
  that has a space in front and stops the kernel; a string may replace the device at
  `sys:&stdout`.
- memcpy and memset change registers their asm statements do not declare.

## 6. Proofs

Checked by TLAPS for every value of the constants, from the assumptions named in
the modules (positive header and alignment, sentinels distinct from nodes, a
power of two as initial capacity, positive ring size, NULL not a key, a screen that
holds the line buffer, a pitch no less than the width, values that are not addresses of
items, fonts that fit some
place on every screen, room for the two system calls of the kernel, the fields of the kernel's own drivers). Some statements need more than that, and say so as hypotheses of their
theorems: those about FatFile (WholeChains, ReadsStayInside), the opening of paths
(NothingBehind), the order of letters
(LeftShiftOnly), the console (KeepsConsoles), ProbedOnce and PartitionsMounted (room for
the devices), SeenIsDrawn (Pitch = Width and 32
bits), NumbersExact (Powers, below, and
bases of 2 to 18, for which *Numbers* has the figures); why is below.

*NumberLemmas*. What the proofs share: LeastNumber, from well-foundedness of <, gives the
first number with a property; Induction, over sets of numbers; quotients and
remainders; appending to a sequence; FoldExists, that there is the function a fold
chooses, built from the first element up.

*AllocProofs*. TypeOK, ChainIntact (ordered chain, headers untouched), LedgerMatches,
OverrunBounded, CriticalKept and ImplementsHeap. The invariant says: blocks follow each
other with no overlap, each header's cells hold header bytes, and the ledger's pointers
are exactly the payloads of used blocks, each with room for what was asked. That the
chain is ordered is not inductive by itself: a shrunk header leaves a gap, and only
the order of *starts* together with room for each payload survives.

*StructureProofs*. LinkedList: ListTypeOK, LinksMatchOrder, AppendNeverPanics, ForeachComplete.
The links thread the ghost order in both directions (an emptied list has its sentinels
pointing at each other, a fresh one at NULL), and the loop's pending nodes are the
suffix of the order behind its cursor (ListInv). RingBuffer: indices in range and full
only when they meet (RingInv, FullCorrect); the refinement maps the cells from tail to
head to a queue, for every size. HashTable: tables are sound (every key reachable
from its hash over occupied cells, no key twice) and at most half full; during an expansion the new table holds
exactly the entries before `at` (TableInv). HtblTypeOK, ProbesReach, SearchesEnd and the
refinement of AbstractMap follow, and two facts no run states: the length counts the
entries (LengthCorrect) and the copy loses none (CopyCorrect). Environment: items before
`current` have a key, those behind have never been used, no key is present twice
(StoreInv). The refinement of AbstractStore needs that "no item is free" coincides with
"as many keys as items": keys and present items are in bijection, and all items being
present is what no emptied and no unused one means. It says nothing of the value env_remove
should return, which is why there is no such promise in AbstractStore.

*KeyboardProofs*. TypeOK and BytesNoticedOnce. A waiting byte is announced by a
pending interrupt, the flag, or the reader about to fetch; without BIOS calls the
flag also implies a byte, so that none is fetched twice. CharsInOrder is a statement
about letters that are already out, and says nothing of those under way: its invariant,
CatchesUp, is that the codes under way (in the reader's hand, in the controller, behind
it), replayed from the shift and the letters the reader has now, end in the shift keys
held and the letters typed. It needs LeftShiftOnly, that no right shift is used, because
keyboard.c:73 does not know the right shift's break code: with one, shift stays on.

*KernelProofs*. Interrupts: IntrTypeOK, UnhandledOnlyEarly and InServiceHasFrame, for any
lines of the first controller, each raised at any time: nothing is assumed of the
devices. Nested says that every
frame but the innermost still stands before the stub's cli, and that lines descend in
number from frame to frame: so the line an acknowledgement ends, the one of the highest
priority in service, is that of the frame that sends it. Served adds which handler is
there at which step, Unserved that a line that hangs is one without. Modules: KernelResolves by ModInv, whose parts are that every
symbol the table has shown so far is listed, that the kernel's symbols come before those
of all modules, whatever these export and under whatever names, and that the search of
the list stops at the first.
Config: ConfInv says that the string a key holds is there and is no other key's. Without
the second part a set that frees the old string would take it from another key, and
ImplementsConfig would fail; that it is inductive rests on the new string's place being
one that nothing holds.
Numbers: NumbersExact, for ints of every width and texts of every length, where the run
has five bits and three characters. A fold of the community modules and itoa's own
recursion are functions chosen by CHOOSE, of which nothing is known before one is shown to
exist: FoldExists and WritesExists build them, position by position and amount by amount,
with the Induction of NumberLemmas, and DenotedRuns, AtoiSums and StrtoulReads then follow
them digit by digit. What each loop keeps is that the number accumulated is the one the
digits so far denote, until the type does not hold that: TooLargeExact says that cutoff and
cutlim tell just when, AtoiSums that towards IntMin every int is reached. Powers, that
2 ^ Width and 2 ^ (Width - 1) are positive, is a hypothesis because the provers do not know
it of ^.

*DriverProofs*. For every link order, any number of disks and partitions and any fields of
a module's driver. StackInv says which activations can be under way above which: a first
probe only at the bottom, a registration only right above the probe that made the device,
a deregistration at the bottom (a module's), above that of a framebuffer, or innermost
above the probe of fbcon that replaces vga0. So the device a loop stands on never leaves
the list under it: what leaves is vga0, and the loops stand on framebuffers then. From it:
- UniqueNames. A probe chooses a suffix that is free when it looks; NamesInv adds what
  names each type has, so that the names of one driver cannot meet those of another.
- ProbedOnce. Between calls a driver has met each device of its kind once. Within calls
  that is not so: a pair of a driver and a device waits (`Pending`) while the loop of a
  registration or of a first probe has not come to it. CountsInv says that a pair has
  been counted once if it does not wait and not at all if it does. No pair is owed
  twice: no device is registered twice at a time, the first probe is always the
  outermost activation, and no driver makes devices of the type it depends on.
  The theorem holds as long as there is room for the devices (`Ids`): beyond it the
  model counts nothing.
- PartitionsMounted. ProbedOnce is not enough: it says that fat was called with each
  disk, and not what came of it, nor that a disk found once cannot be found again under
  another name. MountInv adds, about the devices *ever* made: a disk is made for each drive
  the first probe of bdrive has come past (`Reached`) and for no other; the partitions
  made of a disk are none while fat was not probed with it, as many as its loop has
  counted while that probe runs, and all of them after it. A second probe would break
  that, and CountsInv is what excludes it. That the disks stay listed until the boot is
  over is part of the invariant too; later a module may deregister them, and then nothing
  is mounted again. The theorem is
  for any number of disks: of those registered, and of no disk twice. That all the disks
  looked at *are* registered (DisksRegistered) is so when their number is odd, because of
  bios_drive.c:193: the loop stops at the fourth, and each of the four was made once.
- ConsoleRegistered. Before the boot ends, vga0 comes or is there; afterwards the
  console is listed unless fbcon has registered its own and not taken over yet.
  KeepsConsoles is the hypothesis that a module takes away no console and no framebuffer,
  whose console goes with it: that would leave the kernel a console that is gone.

*FileProofs*. BlockDrive: between two chunks the buffer holds what the call has moved
(DriveInv), and so the step that returns is AbstractDisk's transfer; the chunks before it
are stutters. FatVolume: MemoryReturned by LiveInv, which says what is allocated between
two steps of fs_open, for every volume and path. OpensWhatTreeSays, for every volume that
mkfs.fat and mcopy make (WellMade, which VolInit asks of a volume: clusters on the disk, in
the FAT and nobody else's, end marks behind FAT_CLUSTER_END, names apart, the label
first) of any geometry and any size. VolInv says that the buffer find_dir searches is the
root, or the clusters of the item that the first part names, and that what find_dir gives
is the entry of what the tree has there. It rests on what the arithmetic of sectors reads:
Flattened puts pieces of one length together, RootRead and ClusterRead find the layout of
mkfs.fat again under the code's own sums (among them the two ways to round the root up to
sectors, RootPlace), FatNext follows the FAT, and ChainIs shows that
read_cluster_chain's loop ends with the item's chain. On top of these, SearchOfList says what
a search makes of a directory's slots, ContentsAre what the listing does, and
UntidyNowhere that a path that is cut wrongly names nothing. NothingBehind is needed for
the finding of section 5 (fat.c:227): the entry behind a buffer that is compared with the
name must not have it, nor must what a file that is taken for a directory has in it. The
module *MCKernel* assumes it, so that TLC evaluates it for the paths of the run. FatFile: DriveInv's counterpart is
FileInv, that the cursor's cluster is the one its offset lies in, and that the growing
block of fs_read_full holds the bytes it has passed. FullReadExact, CursorInStep,
OffsetIntoFile and ImplementsFile follow, under two hypotheses. WholeChains: the chain of
a file is as long as its size asks for, which is what an undamaged volume has.
ReadsStayInside: a read asks for no more than a cluster or for no less than the file.
Neither can be dropped, since what section 5 says of fat.c:494 and fat.c:497 are the
executions without them; both are met by the run *kernel*, and by the kernel on clusters
of 2048 bytes or more, since fs_read_full asks for 2048 bytes and cat for 512.

*ConsoleProofs*. TypeOK, SeenIsDrawn (for rows without a gap and 32 bits, where PackedExact
says that what is asked for is what is copied) and NeverPanics by IInv, whose CursorBehindLine
says that the cursor has at least as many places before it on the screen as gets has
characters to rub out. That is not a sum kept step by step, since scrolling takes a
row of those places away: it survives because the cursor is then at the start of
the last row, with enough rows above it by the assumption on the buffer. LineOnScreen
needs LineInv: the text (scrolled rows and cells, a drawn cursor read as a space)
before the cursor ends with the buffer, and the driver knows where its cursor
is drawn, so that set_cursor erases nothing else. Its lemmas follow the text through
each function: PutText, ScrollText, LineFeedText, SetCursorText, ErasedText.
ImplementsTerminal (TerminalRefinement) needs all of the roll, behind the cursor too,
and so RollInv: what is under a cursor the driver knows of is drawn as the cursor, so
that erasing it changes nothing one reads; and rows scroll off whole, so that a
position on the roll gives its row by a division. PutcRoll, PutcControlRoll and
ErasedRoll say what each function makes of the roll, and one lemma per action maps it
to the step of AbstractTerminal. The line gets returns is the one that was typed because
the characters in the buffer are on the roll (LineInv), where there is no Nul: the
first one is where the line was ended.
Framebuffer: ScreenAgrees by ScreenInv, for every list of modes and all fonts that fit
them: drawing changes no size, and each change of the mode or the font reaches the
console's size and brings its cursor back onto the screen before anything else is drawn.

Only model-checked: liveness (AllDelivered, WaiterNotDeaf, CallsReturn, FullReadEnds,
TimerTaken), which is out of the prover's reach; AutorunRunsAll and ValueVerbatim, which are
about what recursive definitions make of the lines of a file: the induction that
NumbersExact and OpensWhatTreeSays need is done there for folds and for a chain of
clusters, and these would need it for strtok_r and the cutting of lines.

## 7. Not modelled

Formatting, the bits of glyphs, colours, the BIOS tables of video modes, port I/O, the
boot loader,
descriptor tables (but for the interrupt flag around lgdt), probes, the self test and the
unused network fragments: straight-line code or pure I/O without state to relate.
printf is third-party. driver_probe_for with an invoker other than NULL is left out (nothing
calls it). In Console a place of the framebuffer is one pixel, so that glyphs are too; Bits
is 8 or 32: at 16 and 24 bits vesa_put_pixel writes four bytes and so also into the pixel to
the right. A pitch above the width also makes the back buffer (x * y * bytes,
vesa.c:246) too small for its last rows, which Console, whose back buffer is as large as it
must be, does not show. The loop for 8 bits is reached by a mode that the BIOS lists with
memory model 6, the only one the driver takes. That the kernel's init functions are called
in link order, early ones first, is the shape of two loops and no property here.
Hazards without a property, and why, are in `PROJECT.json`: two shift keys, the end mark
0xfff8, and a chain shorter than its file. Addresses near 2^32 are excluded in Alloc. Lines longer than the
buffer of gets are excluded in Console (gets has no limit of its own). Scancodes
behind the table (keyboard.c:59) read a byte the linker chooses. The layout of an ELF
file is reduced to its exports. Exceptions of the processor and the second interrupt
controller are left out: nothing uses its lines. Commands that only print, and the string
functions that only compare or copy, change no state the models keep. What is planned is
in section 2.
