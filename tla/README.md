# CKernel: a TLA+ model of the kernel

CKernel is a small x86_64 kernel. A multiboot2 loader starts it, `boot.S`
switches to long mode with the first 2 MB mapped, and `kernel_main` brings up
the boot information, the physical memory manager, the interrupts and the timer,
then halts in a `hlt` loop in which only interrupt handlers run.

This directory models the kernel and the libraries it is linked with, checks
them with TLC on small instances, and proves with TLAPS, for every size, almost
all of the safety properties that are checked. Paths below are relative to the repository's `src/`.

## 1. The system

| part | state it keeps | operations | used by |
|---|---|---|---|
| `boot.S` | control registers, page tables, stack | straight-line switch to long mode | - |
| `BOOT_INFO`, `MULTIBOOT2` (`libk/src/multiboot2.cpp`) | address, size and magic of the boot information, `inited` | `init` (checks), `multiboot2_iter`, `get_memory` | `kernel_main`, `PMM` |
| `ALLOCATOR` (`libk/include/allocator.h`) | region start and length, free and used counts | interface only | `PMM` |
| `FIRSTFIT` (`libk/src/firstfit.cpp`) | a bitmap of 32768 pages | `alloc(len)`, `alloc(addr,len)`, `free`, counts | `PMM` |
| `PMM` (`libk/src/pmm.cpp`) | the kernel space and the rest, one `FIRSTFIT` each | `init`, `move_boot_info`, `alloc_*`, `free_*`, counts | `kernel_main` |
| `INTERRUPTS` (`platform/x86_64/src/intr.cpp`, `idt/idt.S`) | IDT, handler table, masks in the two 8259A, the interrupted registers on the stack | `init`, `register_intr_handler`, `enable_irq`, `enable`, `disable`, `send_eoi`, dispatch, stubs | `TIMER`, CPU |
| `TIMER` (`timer.cpp`) | `g_ticks` | `init`, `timer_intr` | `kernel_main`, CPU |
| console: `IO`, `TUI` (`io.cpp`, `tui.cpp`) | position, colour, one shared 512-byte buffer; video memory, cursor registers | `info`/`warn`/`err`/`printf`, `put_char`, `scroll`, `clear` | everyone, `timer_intr` included |
| `vgaprint.cpp` | a cursor of its own; the same video memory; the serial line | `vga_init`, `vga_printf`, `serial_putc` | early boot, `TUI` |
| `vsprintf.c` | none between calls | `_vsnprintf` and its wrappers | `IO` |
| `string.c` | none | memory and string functions | everyone |
| `cxxabi.cpp` | table of 128 destructors, guards of statics | `cpp_init`, `__aeabi_atexit`, `__cxa_finalize`, `__cxa_guard_*` | compiler |
| `selfboot`, `gdt`, `cpu`, ports, `c_time` | machine state | single instructions | - |

What is hard in it, and what would be correct:

* **Long call sequences** on two allocators whose bitmaps, counters and address
  ranges must agree: no page lost, none handed out twice.
* **Boundaries**: the end of the region and of the bitmap, requests for no page,
  counters that wrap, tags and entries of odd sizes, a text as long as the
  buffer, the least integer, a limit that overflows an address, the last column
  and row of the screen.
* **Unchecked results**: `move_boot_info` uses the answer of an allocation and
  ignores the result of the second `BOOT_INFO::init`.
* **Interrupts between any two instructions** of `kernel_main` once the flag is
  set: a handler registered too late, a line left in service, a mask read and
  written in two steps, spurious interrupts, starvation, a frame the stub and
  the handler see differently; and the console, which a handler uses while
  `kernel_main` is in the middle of it.
* **Order**: static constructors in the order of the linker, page tables before
  paging, destructors registered while others run.

`PROJECT.json` lists these line by line, each with the properties about it.

## 2. Modules

| module | models | role |
|---|---|---|
| `Bitmap` | `set`, `clr`, `test`, `find_len`, `size_t` arithmetic | pure operators |
| `FindLen` | the loop of `find_len`, one iteration per step | shows the loop computes `Bitmap!find_len` |
| `PageAllocator` | what `ALLOCATOR` promises | abstract specification |
| `FirstFit` | `FIRSTFIT` and its `ALLOCATOR` fields | refines `PageAllocator` |
| `BootInfo` | the checks of `multiboot2_init`, `BOOT_INFO::init`, `memcpy` | pure operators and state |
| `PMM` | `PMM` over two instances of `FirstFit`, and boot up to `PMM::init` | composition |
| `Multiboot2` | `multiboot2_iter` with the callback `get_memory` | component |
| `PIC` | the two 8259A, external | environment of `Interrupts` |
| `Stubs` | the stubs of `idt.S` as operators on registers and stack | used by `Interrupts` |
| `Interrupts` | `INTERRUPTS`, `TIMER`, the rest of `kernel_main` | composition |
| `Boot` | `boot.S` | component, extended by `Console` |
| `Console` | `cpp_init`'s constructors, `vgaprint`, `IO`, `TUI`, the serial line, with handlers that print | composition |
| `CString` | `string.c`, every function | algorithms against references |
| `Format` | `vsprintf.c`, and the formatter of `vga_printf` | state machine of one call |
| `CxxAbi` | `cxxabi.cpp` | component |
| `Runtime` | the three libraries side by side | composition |
| `Recursion_proofs` | - | lemmas on induction and on recursive functions of natural numbers |
| `FindLen_proofs`, `FirstFit_proofs` | - | theorems about `find_len` and one allocator, and what `PMM` needs of an allocator |
| `PMM_proofs`, `Multiboot2_proofs`, `Interrupts_proofs`, `Console_proofs`, `Runtime_proofs` | - | theorems about the module of that name; `Console_proofs` also about `Boot`, `Runtime_proofs` about `CxxAbi`, `Format` and `CString` |
| `MCFirstFit`, `MCPMM`, `MCMultiboot2`, `MCConsole`, `MCRuntime` | - | instances for TLC; `FindLen` and `Interrupts` are run directly |

Operators whose name ends in `_Something` and whose comment says *mutation* are
changed versions of the definition that follows them. No specification uses
them: each shows that a property would notice that mistake in the code.

### Correspondence

**FirstFit.** The variables are the fields of the object. `map` is a function on
bit numbers: the word and mask arithmetic is a bijection and is left out. It
has `Overrun` bits more than the array, which stand for the memory behind it,
because the code indexes the array without a check. `held` and `answer` are the
callers' view, computed from the *addresses* the code answers and not from the
bits it sets, so that a mistake in either shows. `Spec` has the callers the
class is meant for: regions that fit the bitmap, whole pages inside the region
at a given address, and only held pages given back. `LargeSpec` drops the first condition,
`WildSpec` drops them all. The conditions are needed: `alloc(addr, len)` does
not check that the run ends inside the region or that `addr` is a page address
(`firstfit.cpp:84-97`), and `free` clears whatever it is given.

**PMM.** `pc` follows `kernel_main` from `BOOT_INFO::init()` through `PMM::init`
call by call; after `ready` callers use the interface in any order. Physical
memory is a function from byte addresses to "byte k of the boot information" or
other, enough to see what the copy in `move_boot_info` does. A touch of memory
that `boot.S` has not mapped ends in `fault`; a failed step in `halt`.

**Multiboot2.** Sizes are real (8-byte alignment, 16-byte map header, 24-byte
entries). The layout of tags is the loader's: `at` is where it put a tag, and
`TagListsAssumption` says that the tags lie one behind the other. The walk
computes its own offsets and must meet them. `PMM` uses the result: the sum of the available ranges.

**Interrupts.** A step of `kernel_main`, a step of a handler, the CPU taking an
interrupt, and a device raising a line are separate actions. Interrupt gates
close the flag and `iretq` restores it, so handlers do not nest. `enable_irq` is
two steps. The kernel's only driver is the timer; `DriverVectors` adds drivers
that use the interface as `TIMER::init` does, to see whether the interface
carries more than one line. `g_ticks` is kept modulo the period, the only way
the code reads it. The descriptor register keeps the low 32 bits of the address
of `idt`, as `idtr_t` does; `idt_load`'s check is in `InitAccepts`. Messages are
in `Console`.

**Stubs.** A stack is the sequence of 8-byte words pushed since the interrupt. A
stub is an operator from what the CPU pushed to what the handler finds, and from
there to the registers after `iretq`. `Interrupts` keeps both in its state; a
handler leaves arbitrary values in the registers it may clobber.

**Boot.** One step per block of `boot.S`; the 512 entries of the page table are
filled one at a time. A control bit is a member of the set `cr`. What the CPU
demands of the order is not a guard but the property `SwitchSound`.

**Console.** Two threads run the same code on the same `buf`, colour, position,
cursor registers and serial line; a step is one statement: one store or one port
access. A handler's message starts between any two steps of `kernel_main` once
interrupts are on, and runs to its end before `kernel_main` goes on, because the
gate has closed the flag. `handler_default` prints and then spins. The position
is two bytes, `TUI::pos`, that wrap at 256. `vga_printf` runs before interrupts
are on and is one step per character. `put_char` takes the characters of the
formatted text; formatting itself is in `Format`. `said` and `hist` are what a
reader sees: the characters of each message, and whether any message was
interrupted.

**CString.** Memory is a few bytes; each function is an operator on it. A call
is one step: nothing runs inside the functions but interrupts, which do not
touch their memory. A loop is a recursive function of its counter, a copy is the
order in which it moves the bytes. `strnlen` keeps the longword loop, its filter
(the subtraction of `lomagic` with the borrow from byte to byte) and the
addresses it reads. The references are set-and-sequence definitions: the first zero,
lexicographic order, the written range. Calls respect what C demands of the
caller (terminated strings, room for the result, ranges apart except for
`memmove`, no null pointer), because the code checks nothing; `strcat` alone
looks for null pointers (`string.c:210`), and its check is left out. `strchr`
gets the ints of signed and of unsigned characters, as it does not convert them.
The references are C's, with two exceptions for characters above 127, stated at
`LengthsRight` and `OrderRight`: what `strchr` finds, and the order of `strcmp`.

**Format.** `_vsnprintf` with a program counter at the loop and at each part of
a directive; a flag, digit or modifier is one step, and so is each round of
`_atoi`. An argument is what each conversion would take it for: a word, the
character with that code, the string at that address. Integers have their widths
and `va_arg` takes a whole word, so conversions truncate and sign-extend as the
code's casts do, the one of the result (`vsprintf.c:924`) included; behind the caller's arguments it takes what the stack holds.
`_ntoa_long` and `_ntoa_format` are operators on sequences of characters, built
backwards and reversed as in the code; the loop of `_ntoa_long` is written out
(`Rounds`: the first after which its condition fails; `Left`: what the divisions
have left of the value). The
floating-point conversions are compiled out (`PRINTF_SUPPORT_FLOAT` is not
defined for this build) and are not modelled.

**CxxAbi.** The table keeps its holes. `fin` is the stack of the calls of
`__cxa_finalize` under way: calling a destructor (line 160 or 200) is a step,
its return, which only in the second loop clears the entry (line 201), another,
and in between the destructor may register others and call `__cxa_finalize`
again. `__cxa_atexit`, which the compiler calls on x86, stores
nothing; `__aeabi_atexit` is the function that fills the table. The guards are
used as the compiler does for `get_instance`: test, construct, release, with a
handler in between.

**Runtime.** The three libraries share no state, so each is explored while the
others rest.

## 3. Runs

| run | checks | result |
|---|---|---|
| `find_len` | the loop answers what `Bitmap!find_len` says | holds |
| `firstfit` | bitmap and counters exact, no double hand-out, no stray write, refinement | holds |
| `firstfit_wild` | counters conserved modulo 2^w, `alloc(len)` takes free pages only, whatever callers do | holds |
| `firstfit_large` | no stray write, region larger than the bitmap | **violated** |
| `pmm` | nothing lost and counts true, kernel pages kept, boot information moved, no page twice | holds |
| `pmm_low_memory` | pages handed out are available memory, on a PC's memory map | **violated** |
| `pmm_straddle` | boot information intact after the move, when it starts just behind the kernel | **violated** |
| `multiboot2` | walk stays on tags, whole entries, right total, ends | holds |
| `interrupts` | nothing left in service, exact ticks, frames, registers, timer goes on, enabled lines served | holds |
| `console` | mode switch and stack, screen, cursor and serial line, writes inside the video memory, colour and buffer, whole messages of handlers, boot reaches its `hlt` | holds |
| `console_race` | every message of `kernel_main` comes out whole | **violated** |
| `runtime` | strings and memory, formatter, destructors and guards | holds |

What the violated ones show:

* `firstfit_large`: the bitmap holds 32768 pages (128 MB). `PMM::init` gives the
  second allocator all memory above 9 MB; with more, `set` writes behind `map[]`.
* `pmm_low_memory`: `non_kernel_space_length = length - kernel_space_length`,
  but `length` also counts usable memory below 1 MB. The last pages of the
  space lie behind the end of RAM by as much.
* `pmm_straddle`: the copy goes forward and its destination, the first free page
  behind the kernel, may start inside its source.
* `console_race`: `timer_intr` calls `info` once a second. When it interrupts a
  message of `kernel_main` after interrupts are on, it formats into the same
  buffer and clears it; `kernel_main` goes on with its old length and prints
  the other text or zeros. `console` shows what survives: the handler's message
  is whole, writes stay in the video memory, colour and buffer end as they were.

Smaller disagreements met on the way, without a run of their own:

* `alloc(addr, len)` across the end of a region succeeds, wraps the free count
  and, through `alloc_pages_kernel`, takes pages of the other space; an address
  inside a page is accepted and its last page stays free.
* With a full kernel space `move_boot_info` copies to address 0 and `PMM::init`
  still succeeds.
* After `INTERRUPTS::init` the gates 32 to 47 have no handler although the
  comment says all point to the default stub. The cascade line stays masked
  (`intr.cpp:313`), so a line of the second 8259A that `enable_irq` opens
  (`intr.h:164`) is never delivered. Vector 15 has the stub for an error code
  the CPU would not push.
* The kernel is compiled with a red zone (`CMakeLists.txt:12-19` has no
  `-mno-red-zone`; only `selfboot` does) although handlers run on its stack.
* A tab near the right edge moves the column past `WIDTH`; the next character
  lands in a later row, or behind the screen but inside the video memory.
* `sprintf_` ignores its format and formats `"TEST:%d\n"` (`vsprintf.c:931`;
  `stdio.h:21-27` describes the usual function).
* `_vsnprintf`: binary output of a `long` keeps 32 digits; the sign is dropped
  when a precision of 32 or more, or zero padding wider than 32, has filled the
  buffer; `#` with a width equal to the number of digits eats digits; `-`
  switches the precision off. These are the exceptions `NumberReadsBack` names.
* `_vsnprintf` casts its `size_t` count to an int (`vsprintf.c:924`), so of a
  text longer than the largest int the answer is not the number of characters
  `stdio.h:33-41` promises; `%*d` with the least int, a width of 2^31, is enough.
  `FormatTruncates` claims the answer for lengths an int holds, and the buffer
  for all.
* `vga_printf` prints rubbish for the least int, eight digits for a pointer, and
  consumes no argument for a directive it does not know (`%X`, as in
  `firstfit.cpp:52`).
* `strcmp` orders signed characters, unlike C, and `strncmp` unsigned ones;
  `strchr` compares a signed character with an int it has not converted
  (`string.c:223`), so `strchr(s, 0xE9)` finds nothing and `strchr(s, -23)` does;
  `strcat` writes no terminator; `backspace` on an empty string writes before it.
* `__cxa_finalize(0)` called twice destroys everything twice, and a call out of a
  destructor destroys the object of that destructor again, as its entry is
  cleared only behind it (`cxxabi.cpp:200-201`); the comment at `cxxabi.cpp:167`
  says objects are not to be destroyed several times. `DestroyedOnce` names both.

### Bounds

* `find_len`: all bitmaps of 5 bits, lengths 0 to 5, requests 0 to 6, so that
  empty, exact, too long, and first-of-several runs all occur.
* `firstfit`: 5 pages of 2 bytes, three regions (full, partial, empty), lengths
  0 to 5, aligned addresses on both sides of the region, `SizeMod` 16. Two bytes
  per page are enough to tell aligned from unaligned. `firstfit_wild` adds odd
  addresses, a region larger than the bitmap, and counters that wrap at 8.
* `pmm`: pages of 4 bytes, "1 MB" is one page, the kernel space four pages, the
  rest three. Nine machines: boot information below, behind, across page
  borders, outside the kernel space, too low, too small, not mapped, a copy that
  leaves the mapped memory, no memory.
* `multiboot2`: sequences of up to three of ten tags; lengths modulo 8 so that
  sums wrap.
* `interrupts`: lines 0, 1 and 7 (7 also comes spuriously), exceptions with and without an error code,
  period 3, four addresses of `idt` on both sides of each check. Three lines are
  the smallest number with one above and one below a given line.
* `console`: a screen of 2 rows of 5 cells, 31 cells of video memory (at 16
  values of a byte, a column can be moved as far behind the screen, in
  proportion, as the kernel's), a buffer of 5 bytes, so that messages are cut,
  wrap and scroll; three programs that cover every function and escape; one tick
  message and one exception, at every place. One handler message is enough:
  handlers do not nest, and a second one finds the state the first has left, for
  which `ColourKept` and `WritesInVideo` hold. Page tables of 4 entries.
* `runtime`: memories of 6 bytes over three values, longwords of 3 bytes, so
  that every alignment and a limit in every place of a longword occur; the
  highest limit overflows the address. Types of 2, 3, 4 and 8 bits for char,
  short, int and long, and a conversion buffer of 4 digits: as in the kernel,
  where it is 32, an int in binary just fills it and a long does not. Every
  combination of nine sets of flags, five widths, five precisions, the length
  modifiers, all conversions and six arguments; messages, among them formats that
  end inside a directive and a `%` behind `%%`, in buffers of 0 to 8 bytes and none. A
  table of 3 entries and 3 calls of `__cxa_finalize`, one inside the other or one
  after the other, so that a call meets holes, its own running entry and entries
  registered meanwhile. An int of 4 bits ends at 7 and `%*d` pads to 8, so the
  cast of the answer matters.

### Fairness

* `Multiboot2`: weak fairness of the step: a loop on a running CPU.
* `Interrupts`: weak fairness of `kernel_main` and of the running handler (the
  CPU goes on) and of the timer chip (the 8254 is periodic); strong fairness of
  taking each line, since the CPU takes an offered interrupt at the next
  instruction when the flag is set. Nothing is assumed of other devices,
  drivers, exceptions or spurious interrupts. `LineServed` is stated under the
  condition that the lines above leave the CPU infinitely often: priorities
  alone do not guarantee it. `TimerGoesOn` excepts a kernel stopped by an
  exception, as `handler_default` never returns.
* `Console`: weak fairness of the steps of boot and of each thread (the CPU goes
  on) and of the serial line (a UART sends what it holds). No interrupt has to
  come.
* `Format` needs none: `LoopsEnd` says that every step lowers a variant.

`CHECK_DEADLOCK FALSE` is used where the behaviour ends: the two loops, boot,
which ends in `hlt` when the ticks of the model are used up, and the calls of
the libraries. `pmm` checks deadlock, so boot is never stuck between two steps.

## 4. Proofs

All proofs are checked by TLAPS to the last leaf, for all values of the
constants under the named assumptions of the modules. Every run of a module
evaluates them for its instance. What they say, and the kernel's values:

* `FirstFit`, `Bitmap`: a positive page size (4096); the bitmap and the memory
  behind it smaller than `SizeMod - 1` (32768 against 2^64); natural arguments.
* `PMM` (`PMMAssumption`, `MachinesAssumption`): the kernel space begins and ends
  on a page (1 MB and 9 MB) and fits its bitmap; behind the kernel image it has
  room for the largest boot information accepted; the loader reports no memory,
  or as much as the kernel space and at most as much more as the second bitmap
  covers. The last is where the code itself has no check: `firstfit_large` shows
  what happens beyond.
* `Multiboot2`: the layout of the boot information, as its specification has it:
  adjacent tags, padded to 8 bytes.
* `Interrupts`: exceptions are among the vectors 0 to 20 that a CPU raises, 15
  not among them; `idt` lies below 4 GB, where `boot.S` has mapped memory, so the
  32 bits that `idtr_t` keeps of its address are all of it.
* `Boot`, `Console`: a stack page divisible by 16 (4096); the video memory has
  room for a screen and a column of 255 more (16384 cells against 2000 + 256)
  and both fit the arithmetic of two bytes; texts hold neither the
  terminator nor a `\r`, which only `serial_putc` sends.
* `Format`: positive widths of the types, and that 2^w is a positive number,
  which the prover does not know; a pointer's digits are fewer than an unsigned
  int counts (16 against 2^32); sizes up to `SIZE_MAX`; as many arguments, with
  those that only the stack holds, as the format has characters.
* `CString`: an even number of values of a char (256); a memory of whole
  longwords, smaller than the address space.
* `CxxAbi`: a table that is not empty (128); what a handler gets is among the
  statics.

**Induction.** The library's induction theorems take an operator, which the
provers cannot instantiate. `Recursion_proofs` has them with sets and functions
instead: `Induction` (a set of naturals that holds 0 and the successors of its
members; from a least counterexample), `RecursionExists` (a recursive function
whose step is a function exists, so that `CHOOSE` finds it) and `ScanIs` (a
recursion upwards to the first place where it stops answers the value there).
They carry the loops of `string.c`, the sum over the memory map, the order of
the tags and the lines of a text.

**find_len.** `FindLenCorrect`: the first run, exactly. The invariant is
`TypeOK /\ ScanInv /\ ReturnsFirstRun`: `ScanInv` says that the pages since
`idx` are the current run and that no earlier iteration could have returned.

**FIRSTFIT.** `BitmapAndCountsExact`, `CountsAreExact`, and from the same
invariant the action properties `NoDoubleHandOut` and `NoStrayWrite`. The
invariant adds to bitmap and counters what they need of each other: page
addresses divide exactly, the held set is finite, an unconstructed object is
zero. `FirstRunIsFree` says what the first run is, `PagesOfRun` and
`AlignedAddr` how an address becomes pages, `TakeKeeps`, `RefuseKeeps`,
`FreeKeeps` what each outcome preserves. `Refinement`: `FirstFit!Spec`
implements `PageAllocator!Spec`, each action by one abstract step. For callers
without discipline (`WildSpec`): `CountsAlwaysConserved`, from modular arithmetic
alone, and `AllocAlwaysTakesFreePages`, which needs only that the bitmap is one.

**PMM.** The last part of `FirstFit_proofs` restates its lemmas as facts of one
space with its own variables; `PMM_proofs` uses them twice. `IInv` is `TypeOK`
and four parts: `SpacesInv` (each allocator's invariant, and the spaces lie one
behind the other), `OwnersInv` (what the allocators hold is the kernel's own or
a caller's, and never both), `ImageInv` (which pages `init` has taken for the
image so far), `InfoInv` (where the boot information is at each step of `init`,
and the page it will be copied to). From it `TypesKept`,
`PagesHandedOutOnce`, `NoPageLost`, `KernelKeepsItsPages`. `BootInfoArrives` has
the hypothesis `NothingStraddles` about the machines: the boot information does
not reach from below into the first page behind the kernel, where the copy goes.
It is needed: `pmm_straddle` shows the forward copy spoiling its source without
it. The machines of the run `pmm` satisfy it.

**Multiboot2.** `TypesKept` and `OnlyTagsAreRead`, from `LayoutInv` (what the
loader wrote does not change) and `WalkInv` (the pointer is at a tag; inside a
memory map, at the entry the loop counts, `MmapHeader + i * entry_size`). That an
entry index inside `max_entries` is an entry of the tag rests on
`(i * entry_size) / entry_size = i` (`Quotient`). `TotalIsRight`: what `get_memory`
returns is the sum of the available entries of the first usable memory map, modulo
the width of a length, for every list of tags. `TotalInv` says that no tag before
the pointer is a usable map and that the length so far is the sum of the entries
before `i` (`UpTo`); at the end, an entry behind the last whole one adds nothing.

**Interrupts.** `IInv` is `TypeOK` and `TablesInv` (which gates and handlers
exist at each step of `kernel_main`), `MaskInv` (an open line has its handler),
`ServiceInv` (in service is the line of the running handler, or none), `TicksInv`
(the counter is one behind exactly in the step before it is raised), `FrameInv`
(the stack is what the stub left on it). From it `TypesKept`,
`EveryLineEnded`, `EveryTickCounted`, `HandlersFindTheirFrame`,
`InterruptedGoesOn`. The proof of `EveryLineEnded` failed at first for a good
reason: a driver on line 7 is also called for the spurious interrupt 7 of the
master, with no line in service, and then ends the interrupt of nobody.
`InServiceIsHandled` now excepts it, and the run has a device on line 7.

**Console.** `IInv` is `BootInv`, `TypesInv`, `ControlInv` (who can be where: nobody prints and
interrupts are off before `kernel_main`'s program), `ColourInv` (the colour each
thread will put back is the one it found), `RowInv` (each thread between its
newline and its scroll may have moved the row one below the screen, and nobody
else has), `BufferInv` (how much of the shared buffer is clear at each step of
the thread that runs) and `SaidInv` (the characters written so far, of a
handler's message and of one nobody interrupted, are those of its text). From it
`TypesKept`, `SwitchIsSound`, `WritesStayInVideo`, `ColourIsKept` and
`HandlersPrintWhole`. Each part has one lemma that says what a statement of
`put_char` or `printf` does to it (`ColourEffect`, `RowEffect`, `BufferEffect`),
used for both threads.

`ScreenIsRight` (`ScreenShows`): until a handler cuts into a message, the screen shows the end of
the text, wrapped and scrolled, for every size of the screen and every text. It
needs a second invariant on top of `IInv`, `ScreenInv`, because between two
statements the screen is neither what it was nor what it will be: `Drawn` says at
every label how far it is (`Entering`, `Entered`: the last character of the text
is not yet drawn, or drawn but not yet passed; `Broken`: the text has begun a line
that the screen has no room for yet; `Scrolling`: the first n cells have been
copied, so they show the new lines and the others still the old ones),
`Programmed` which of the cursor's registers are already written. Below it,
`LinesOfMore` says what one more character does to the lines of a text, and
`DrawingShows`, `BreakShows`, `ScrollVisible` and `CopyShows` what one more cell
does to the screen. A backspace or a tab in the text ends the comparison
(`Plain`): the text then no longer says where the characters are.

**cxxabi.** `StaticsBuiltOnce`: the guard is no lock, and two threads in the
same `get_instance` would both construct. `GuardInv` says why it does not
happen: interrupts come on only when every static a handler gets has its guard,
so a handler is never inside the construction of one. `FinalizedRight`: a call of
`__cxa_finalize` destroys nothing but what was registered for it when it began,
the last one first, and when it returns all of that has been destroyed, by it or
by a call out of one of its destructors; no object is destroyed twice, unless a
call without a function did it first or its own destructor is still running. It
holds for every table, however destructors register others and call
`__cxa_finalize` meanwhile. `TableInv` is `TableTypes`, `StackInv` (`LoopInv` of
every call under way: the log is part of the wanted entries, descending and not
below `i`, and a wanted entry is still ahead of the loop or was destroyed since
the call began; all calls but the innermost are inside a destructor) and
`OnceInv` (a destroyed entry is a hole, or a call for everything destroyed it, or
its destructor still runs). An inner call may destroy what an outer one has yet
to reach, so a call's own log does not tell what is left: `LoopStays` shows that
`LoopInv` survives whatever another call does.

**_vsnprintf.** `OutputTruncated` and `FormattingEnds`, for every format,
arguments and buffer size. `FormatInv` is `LocalsInv` (the types of the locals,
and arguments for the rest of the format), `PointerInv` (inside a directive,
everything since its `%` is a modifier; outside, the pointer is where a directive
may start, or past the terminator of a format that ends inside one) and
`OutputInv` (the buffer holds what fits of the text put out so far, and nothing
behind). The steps are of two kinds: inside a directive they move past modifiers
or to a later part (`Moves`); a literal and the end of a directive put out a text
(`Puts`), whose characters the proof never looks at. `ZeroIndex` says where the
terminator goes, the wrap of `_maxlen - 1` for a buffer of no bytes included. The
proof of `FormattingEnds` failed at first: `EndsInDirective` took a `%` right
behind another one for the end of a directive, but the last `%` of `"%%%"` and of
`"%-%%"` starts one, and the pointer passes the terminator of both. `MayStart` now
says which `%` can start a directive, and the run has both formats.

**string.c.** `StringsAnswer` and `StringsWrite`: every function answers what its
reference says (C's, with the two exceptions above 127) and writes exactly the bytes the reference names, for every
memory, longword size and call that keeps C's rules. The invariant `StringInv` is
only that the memory holds bytes and the last answer was right; the work is in
the operators. Each loop is brought to a closed form: `strlen` and its like by
`ScanIs`, the comparisons by the first place where the strings differ or end, a
copy by `GoodOrder` (no byte is read after it was written, which is what
`memmove` chooses its direction for), `strrev` by what is exchanged after k
rounds. For `strnlen`: the first zero byte of a longword gets no borrow from the
bytes below it, so its difference has the high bit and the filter answers; a
longword is read only when the limit lies behind its first byte; and a limit that
overflows the address counts as the end of the address space.

**Types of the libraries.** `RuntimeTypes`, from the four invariants together; a
width and a precision, in particular, stay unsigned ints whatever digits the
format has.

Every inductive invariant was checked by TLC on the instance of its run before
it was proved.

Only model-checked:

* liveness (`WalkEnds`, `TimerGoesOn`, `LineServed`, `BootReachesHalt`), which the
  prover does not do;
* `NumberReadsBack` and `VgaAgrees`: they read digits back as numbers, so a proof
  would be by induction over values and formats, with powers of the base.

## 5. Not modelled

* Port access (`port.cpp`, `c_port.cpp`): single instructions. They appear as
  the port accesses of `Console` and `Interrupts`.
* `c_time`: reads of hardware counters; nothing calls it.
* `cpu.h`, `gdt.h`: constants and single instructions; only `CPU::halt` changes
  the course of the kernel.
* `dtb.h`: declarations without an implementation. Headers of libc and libcxx:
  types and macros.
* `selfboot`: a boot sector apart from the kernel build, straight-line BIOS
  calls.
* The bit layout of IDT gates and of page-table entries: a gate is present or
  not, an entry is the page it maps.
* The red zone: whether the compiler keeps data there is not in the source.
