------------------------------ MODULE Console -------------------------------
(***************************************************************************)
(* What the kernel prints, from cpp_init on: libk/src/vgaprint.cpp, used   *)
(* before the TUI, then IO (libk/src/io.cpp) over TUI (libk/src/tui.cpp).  *)
(* Two threads of control run the same code on the same buffer, colour,    *)
(* position and ports: kernel_main ("kernel") and, once interrupts are on, *)
(* the handler that interrupts it ("handler"), which finishes before       *)
(* kernel_main goes on.  A step of a thread is one statement: a store to   *)
(* memory or one access to a port.                                         *)
(*                                                                         *)
(* A message is its formatted text; module Format has the formatting.      *)
(***************************************************************************)
EXTENDS Boot, SequencesExt

CONSTANTS WIDTH, HEIGHT,    \* 80, 25
          VideoCells,       \* TUI_MEM_SIZE / 2 = 16384
          BUF_SIZE,         \* 512
          UINT8,            \* 256
          Chars,            \* the characters of the texts
          Hello,            \* what vga_printf prints during boot
          Programs,         \* the calls kernel_main may go on with
          TickText,         \* "1 second tick\n"
          UnhandledText,    \* the message of handler_default
          MaxTicks          \* bound: messages of timer_intr

ASSUME ConsoleAssumption ==
    /\ WIDTH \in Nat \ {0} /\ HEIGHT \in Nat \ {0} /\ BUF_SIZE \in Nat \ {0}
    /\ UINT8 \in Nat /\ UINT8 % 4 = 0 /\ UINT8 > WIDTH /\ UINT8 > HEIGHT + 1
    /\ VideoCells \in Nat /\ VideoCells >= HEIGHT * WIDTH + UINT8 /\ MaxTicks \in Nat
    /\ HEIGHT * WIDTH + UINT8 <= UINT8 * UINT8

VARIABLES io,               \* memory and devices: see Blank
          vga,              \* the cursor of vgaprint.cpp
          th,               \* the locals of each thread, see Call
          k,                \* kernel_main: where it is, what is left to do
          intr,             \* interrupts are on; messages of the timer so far
          said,             \* the characters of each thread's last message
          hist              \* what the screen was given, and what went wrong

con_vars == <<io, vga, th, k, intr, said, hist>>
vars == <<boot_vars, con_vars>>

NUL == "NUL"
NL == "NL"
CR == "CR"
TAB == "TAB"
BS == "BS"
BLACK == 0
CYAN == 3
LIGHT_RED == 12
YELLOW == 14
WHITE == 15
VGA_WHITE == 7

Cells == 0 .. VideoCells - 1
Home == [col |-> 0, row |-> 0]
Threads == {"kernel", "handler"}

(* A text ends at its terminator, so it holds none; and none of the        *)
(* kernel's has a \r, which only serial_putc sends, behind an NL.          *)
Calls == [fn : {"info", "warn", "err", "printf", "clear", "sti"}, text : Seq(Chars)]

ASSUME TextsAssumption ==
    /\ NUL \notin Chars /\ CR \notin Chars
    /\ {Hello, TickText, UnhandledText} \subseteq Seq(Chars)
    /\ Programs \subseteq Seq(Calls)

(* Memory before the constructors run: zeros. *)
Blank == [screen |-> [x \in Cells |-> <<NUL, BLACK>>], pos |-> Home, color |-> BLACK,
          buf |-> [x \in 0 .. BUF_SIZE - 1 |-> NUL],
          crtc |-> [index |-> "L", H |-> 0, L |-> 0], thr_full |-> FALSE]

(* A thread in function fn with its arguments and locals. *)
Call(fn, text, at) ==
    [fn |-> fn, text |-> text, at |-> at, saved |-> BLACK, i |-> 0, len |-> 0, n |-> 0,
     c |-> NUL, idx |-> 0, color |-> BLACK, pos |-> Home]

Init ==
    /\ BootInit
    /\ io = Blank /\ vga = [x |-> 0, y |-> 0]
    /\ th = [x \in Threads |-> Call("none", <<>>, "idle")]
    /\ k = [pc |-> "cpp_init", ctors |-> {"tui.cpp", "io.cpp"}, todo |-> Hello]
    /\ intr = [on |-> FALSE, ticks |-> 0]
    /\ said = [x \in Threads |-> <<>>]
    /\ hist = [text |-> <<>>, clean |-> TRUE, disturbed |-> FALSE, overrun |-> FALSE]

Idle(x) == th[x].at = "idle"
Resting == Idle("kernel") /\ Idle("handler")

-----------------------------------------------------------------------------
(* cpp_init runs the constructors of tui.cpp's statics (pos, color) and of *)
(* io.cpp's io_instance (TUI::TUI) in the order the linker chose.          *)
CursorAt(pos) == [index |-> "L", H |-> (pos.row * WIDTH + pos.col) \div UINT8,
                                 L |-> (pos.row * WIDTH + pos.col) % UINT8]
Constructed(file) ==
    IF file = "tui.cpp" THEN [io EXCEPT !.pos = Home, !.color = WHITE]
    ELSE [io EXCEPT !.pos = Home, !.color = WHITE, !.crtc = CursorAt(Home)]

cpp_init(file) ==
    /\ boot = "cpp_init" /\ k.pc = "cpp_init" /\ file \in k.ctors
    /\ io' = Constructed(file)
    /\ k' = [k EXCEPT !.ctors = @ \ {file}, !.pc = IF k.ctors = {file} THEN "test_vga" ELSE @]
    /\ UNCHANGED <<boot_vars, vga, th, intr, said, hist>>

(* vga_init clears the screen; it moves neither TUI::pos nor the cursor    *)
(* register.                                                               *)
Cleared(screen) == [x \in Cells |-> IF x < WIDTH * HEIGHT THEN <<" ", VGA_WHITE>> ELSE screen[x]]

vga_init(from, to, todo) ==
    /\ k.pc = from /\ k' = [k EXCEPT !.pc = to, !.todo = todo]
    /\ io' = [io EXCEPT !.screen = Cleared(@)]
    /\ vga' = [x |-> 0, y |-> 0]
    /\ hist' = [hist EXCEPT !.text = <<>>]
    /\ UNCHANGED <<boot_vars, th, intr, said>>

Scrolled(screen, color) == [x \in Cells |->
    CASE x < (HEIGHT - 1) * WIDTH -> screen[x + WIDTH]
      [] x \in (HEIGHT - 1) * WIDTH .. HEIGHT * WIDTH - 1 -> <<" ", color>>
      [] OTHER -> screen[x]]

(* vga_printf, a character at a time: vga_putchar, with vga_scroll, and    *)
(* serial_putc, which waits for the line.  Interrupts are off.             *)
VgaNext_NoWrap(v, c) == IF c = NL THEN [x |-> 0, y |-> v.y + 1] ELSE [v EXCEPT !.x = @ + 1]   \* mutation
VgaNext(v, c) == IF c = NL \/ v.x + 1 = WIDTH THEN [x |-> 0, y |-> v.y + 1]
                 ELSE [v EXCEPT !.x = @ + 1]

vga_putchar ==
    /\ k.pc = "vga" /\ k.todo # <<>> /\ ~io.thr_full
    /\ LET c    == Head(k.todo)
           next == VgaNext(vga, c)
           drawn == IF c = NL THEN io.screen
                    ELSE [io.screen EXCEPT ![vga.y * WIDTH + vga.x] = <<c, VGA_WHITE>>]
       IN /\ io' = [io EXCEPT !.thr_full = TRUE, !.screen =
                       IF next.y >= HEIGHT THEN Scrolled(drawn, VGA_WHITE) ELSE drawn]
          /\ vga' = IF next.y >= HEIGHT THEN [x |-> 0, y |-> HEIGHT - 1] ELSE next
          /\ hist' = [hist EXCEPT !.text = Append(@, c)]
    /\ k' = [k EXCEPT !.todo = Tail(@)]
    /\ UNCHANGED <<boot_vars, th, intr, said>>

VgaDone ==
    /\ k.pc = "vga" /\ k.todo = <<>> /\ k' = [k EXCEPT !.pc = "clear"]
    /\ UNCHANGED <<boot_vars, io, vga, th, intr, said, hist>>

(* test_vga and the first half of test; then kernel_main clears the screen *)
(* and uses the TUI.                                                       *)
TestVga == vga_init("test_vga", "vga", Hello)
StartTui == \E prog \in Programs : vga_init("clear", "main", prog)

EarlyBoot == (\E file \in {"tui.cpp", "io.cpp"} : cpp_init(file)) \/ TestVga \/ vga_putchar
             \/ VgaDone \/ StartTui

-----------------------------------------------------------------------------
(* The next call of kernel_main; TIMER::init's sti is one of them. *)
EntryOf(fn) == CASE fn = "printf" -> "format" [] fn = "clear" -> "clear" [] OTHER -> "get_color"

NextCall ==
    /\ Resting /\ k.pc = "main" /\ k.todo # <<>>
    /\ LET call == Head(k.todo) IN
       IF call.fn = "sti"
       THEN intr' = [intr EXCEPT !.on = TRUE] /\ UNCHANGED <<th, said, hist>>
       ELSE /\ th' = [th EXCEPT !["kernel"] = Call(call.fn, call.text, EntryOf(call.fn))]
            /\ said' = [said EXCEPT !["kernel"] = <<>>]
            /\ hist' = [hist EXCEPT !.disturbed = FALSE]
            /\ UNCHANGED intr
    /\ k' = [k EXCEPT !.todo = Tail(@)]
    /\ UNCHANGED <<boot_vars, io, vga>>

Halt ==
    /\ Resting /\ k.pc = "main" /\ k.todo = <<>> /\ k' = [k EXCEPT !.pc = "hlt"]
    /\ UNCHANGED <<boot_vars, io, vga, th, intr, said, hist>>

(* The handler interrupts kernel_main between any two of its steps. *)
Interrupt(text) ==
    /\ th' = [th EXCEPT !["handler"] = Call("info", text, "get_color")]
    /\ said' = [said EXCEPT !["handler"] = <<>>]
    /\ hist' = IF Idle("kernel") THEN hist
               ELSE [hist EXCEPT !.disturbed = TRUE, !.clean = FALSE, !.text = <<>>]
    /\ UNCHANGED <<boot_vars, io, vga, k>>

(* timer_intr on every thousandth tick. *)
Tick ==
    /\ intr.on /\ Idle("handler") /\ intr.ticks < MaxTicks
    /\ intr' = [intr EXCEPT !.ticks = @ + 1]
    /\ Interrupt(TickText)

(* An exception in kernel_main: handler_default prints, then spins. *)
Unhandled ==
    /\ k.pc = "main" /\ ~Idle("kernel") /\ Idle("handler")
    /\ Interrupt(UnhandledText)
    /\ UNCHANGED intr

-----------------------------------------------------------------------------
(* The steps of a thread x, in the order of the code. *)
At(x, label) == th[x].at = label
Go(x, label) == th' = [th EXCEPT ![x].at = label]
SetIo(x, new, label) == io' = new /\ Go(x, label)
Index(p) == p.row * WIDTH + p.col

ColorOf(fn) == CASE fn = "info" -> CYAN [] fn = "warn" -> YELLOW
                 [] fn = "err" -> LIGHT_RED [] OTHER -> WHITE

get_color(x) ==
    /\ At(x, "get_color") /\ UNCHANGED io
    /\ th' = [th EXCEPT ![x].at = "set_color", ![x].saved = io.color]

set_color(x) == At(x, "set_color") /\ SetIo(x, [io EXCEPT !.color = ColorOf(th[x].fn)], "format")

(* _vsnprintf puts character after character into buf, which all share,    *)
(* then the terminator.                                                    *)
_out_buffer(c, i) == IF i < BUF_SIZE THEN [io EXCEPT !.buf[i] = c] ELSE io
TerminatorAt_Early(i) == IF i + 1 < BUF_SIZE THEN i ELSE BUF_SIZE - 2     \* mutation: off by one
TerminatorAt(i) == IF i < BUF_SIZE THEN i ELSE BUF_SIZE - 1

_vsnprintf(x) ==
    /\ At(x, "format")
    /\ LET t == th[x] IN
       IF t.i < Len(t.text)
       THEN io' = _out_buffer(t.text[t.i + 1], t.i) /\ th' = [th EXCEPT ![x].i = @ + 1]
       ELSE /\ io' = _out_buffer(NUL, TerminatorAt(t.i))
            /\ th' = [th EXCEPT ![x].at = "strlen", ![x].i = 0, ![x].len = 0]

strlen(x) ==
    /\ At(x, "strlen") /\ UNCHANGED io
    /\ IF io.buf[th[x].len] # NUL THEN th' = [th EXCEPT ![x].len = @ + 1] ELSE Go(x, "write")

write(x) ==
    /\ At(x, "write") /\ UNCHANGED io
    /\ IF th[x].i < th[x].len
       THEN th' = [th EXCEPT ![x].at = "put_char", ![x].c = io.buf[th[x].i], ![x].i = @ + 1]
       ELSE th' = [th EXCEPT ![x].at = "bzero", ![x].i = 0]

(* escapeconv on the escapes, put_entry_at's arguments for the rest. *)
Escapes == {NL, TAB, BS}
TabStop(col) == (col + 4 - (col % 4)) % UINT8

Latch(x, idx, c, label) ==
    th' = [th EXCEPT ![x].at = label, ![x].idx = idx, ![x].c = c, ![x].color = io.color]

newline(x) == At(x, "put_char") /\ th[x].c = NL
              /\ SetIo(x, [io EXCEPT !.pos.row = (@ + 1) % UINT8], "newline_col")
newline_col(x) == At(x, "newline_col") /\ SetIo(x, [io EXCEPT !.pos.col = 0], "poll")
tab(x) == At(x, "put_char") /\ th[x].c = TAB
          /\ SetIo(x, [io EXCEPT !.pos.col = TabStop(@)], "scroll")
backspace_Always(x) ==          \* mutation: without the test for column 0
    /\ At(x, "put_char") /\ th[x].c = BS
    /\ io' = [io EXCEPT !.pos.col = (@ - 1) % UINT8] /\ Latch(x, Index(io.pos) - 1, " ", "erase")
backspace(x) ==
    /\ At(x, "put_char") /\ th[x].c = BS
    /\ IF io.pos.col > 0
       THEN io' = [io EXCEPT !.pos.col = @ - 1] /\ Latch(x, Index(io.pos) - 1, " ", "erase")
       ELSE UNCHANGED io /\ Go(x, "scroll")
escapeconv(x) == newline(x) \/ newline_col(x) \/ tab(x) \/ backspace(x)

put_char(x) ==
    /\ At(x, "put_char") /\ th[x].c \notin Escapes /\ UNCHANGED io
    /\ Latch(x, Index(io.pos), th[x].c, "entry")
put_entry_at(x) ==
    /\ th[x].at \in {"entry", "erase"}
    /\ SetIo(x, [io EXCEPT !.screen[th[x].idx] = <<th[x].c, th[x].color>>],
             IF At(x, "entry") THEN "poll" ELSE "scroll")

(* serial_putc waits for the line, then writes, and sends \r after \n. *)
serial_wait(x) == At(x, "poll") /\ ~io.thr_full /\ Go(x, "outb") /\ UNCHANGED io
serial_putc_Again(x) ==         \* mutation: \n after \n
    /\ At(x, "outb") /\ io' = [io EXCEPT !.thr_full = TRUE]
    /\ IF th[x].c = NL THEN Go(x, "poll") ELSE Go(x, "advance")
serial_putc(x) ==
    /\ At(x, "outb") /\ io' = [io EXCEPT !.thr_full = TRUE]
    /\ CASE th[x].c = NL -> th' = [th EXCEPT ![x].at = "poll", ![x].c = CR]
         [] th[x].c = CR -> Go(x, "scroll")
         [] OTHER        -> Go(x, "advance")

advance(x) ==
    /\ At(x, "advance")
    /\ LET col == (io.pos.col + 1) % UINT8 IN
       SetIo(x, [io EXCEPT !.pos.col = col], IF col >= WIDTH THEN "wrap_col" ELSE "scroll")
wrap_col(x) == At(x, "wrap_col") /\ SetIo(x, [io EXCEPT !.pos.col = 0], "wrap_row")
wrap_row(x) == At(x, "wrap_row") /\ SetIo(x, [io EXCEPT !.pos.row = (@ + 1) % UINT8], "scroll")

(* TUI::scroll, a cell at a time. *)
scroll_Late(x) ==               \* mutation: > for >=
    /\ At(x, "scroll") /\ UNCHANGED io
    /\ th' = [th EXCEPT ![x].at = IF io.pos.row > HEIGHT THEN "copy" ELSE "set_pos", ![x].n = 0]
scroll(x) ==
    /\ At(x, "scroll") /\ UNCHANGED io
    /\ th' = [th EXCEPT ![x].at = IF io.pos.row >= HEIGHT THEN "copy" ELSE "set_pos", ![x].n = 0]
scroll_copy(x) ==
    /\ At(x, "copy")
    /\ LET n == th[x].n IN
       IF n < HEIGHT * WIDTH
       THEN /\ io' = [io EXCEPT !.screen[n] = IF n < (HEIGHT - 1) * WIDTH
                         THEN io.screen[n + WIDTH] ELSE <<" ", io.color>>]
            /\ th' = [th EXCEPT ![x].n = @ + 1]
       ELSE SetIo(x, [io EXCEPT !.pos.row = HEIGHT - 1], "set_pos")

(* put_char passes pos by value to set_pos, which stores it and programs   *)
(* the cursor: select a register, write it, twice.                         *)
set_pos(x) ==
    /\ At(x, "set_pos") /\ UNCHANGED io
    /\ th' = [th EXCEPT ![x].at = "store", ![x].pos = io.pos]
store(x) == At(x, "store") /\ SetIo(x, [io EXCEPT !.pos = th[x].pos], "select_H")
AfterSetPos(x) == IF th[x].fn = "clear" THEN "idle" ELSE "write"
Select(x) ==
    \/ At(x, "select_H") /\ SetIo(x, [io EXCEPT !.crtc.index = "H"], "data_H")
    \/ At(x, "select_L") /\ SetIo(x, [io EXCEPT !.crtc.index = "L"], "data_L")
CursorData(x) ==
    \/ At(x, "data_H") /\ SetIo(x, [io EXCEPT !.crtc[io.crtc.index] = Index(th[x].pos) \div UINT8], "select_L")
    \/ At(x, "data_L") /\ SetIo(x, [io EXCEPT !.crtc[io.crtc.index] = Index(th[x].pos) % UINT8], AfterSetPos(x))

(* bzero(buf) and the colour from before; handler_default then spins. *)
Ended(x) == IF th[x].text = UnhandledText THEN "spin" ELSE "idle"
bzero(x) ==
    /\ At(x, "bzero")
    /\ IF th[x].i < BUF_SIZE
       THEN io' = [io EXCEPT !.buf[th[x].i] = NUL] /\ th' = [th EXCEPT ![x].i = @ + 1]
       ELSE UNCHANGED io /\ Go(x, IF th[x].fn = "printf" THEN "idle" ELSE "restore")
restore_color_Default(x) ==     \* mutation: back to the default, not to what was saved
    At(x, "restore") /\ SetIo(x, [io EXCEPT !.color = WHITE], Ended(x))
restore_color(x) == At(x, "restore") /\ SetIo(x, [io EXCEPT !.color = th[x].saved], Ended(x))

clear(x) ==
    /\ At(x, "clear")
    /\ IF th[x].n < HEIGHT * WIDTH
       THEN io' = [io EXCEPT !.screen[th[x].n] = <<" ", io.color>>] /\ th' = [th EXCEPT ![x].n = @ + 1]
       ELSE UNCHANGED io /\ th' = [th EXCEPT ![x].at = "store", ![x].pos = Home]

Printing(x) ==
    \/ get_color(x) \/ set_color(x) \/ _vsnprintf(x) \/ strlen(x) \/ write(x)
    \/ escapeconv(x) \/ put_char(x) \/ put_entry_at(x) \/ serial_wait(x) \/ serial_putc(x)
    \/ advance(x) \/ wrap_col(x) \/ wrap_row(x) \/ scroll(x) \/ scroll_copy(x)
    \/ set_pos(x) \/ store(x) \/ Select(x) \/ CursorData(x)
    \/ bzero(x) \/ restore_color(x) \/ clear(x)

(* Only the handler runs while there is one: the gate has closed the       *)
(* interrupt flag, and kernel_main is what it interrupted.                 *)
Runs(x) == x = "handler" \/ Idle("handler")

Step(x) ==
    /\ Runs(x) /\ Printing(x)
    /\ said' = IF At(x, "put_char") THEN [said EXCEPT ![x] = Append(@, th[x].c)] ELSE said
    /\ hist' = [hist EXCEPT
           !.text = IF At(x, "put_char") /\ hist.clean THEN Append(@, th[x].c)
                    ELSE IF At(x, "clear") THEN <<>> ELSE @,
           !.overrun = @ \/ (At(x, "outb") /\ io.thr_full)]
    /\ UNCHANGED <<boot_vars, vga, k, intr>>

(* The serial line sends what it holds. *)
Transmit ==
    /\ io.thr_full /\ io' = [io EXCEPT !.thr_full = FALSE]
    /\ UNCHANGED <<boot_vars, vga, th, k, intr, said, hist>>

Next ==
    \/ BootStep /\ UNCHANGED con_vars
    \/ EarlyBoot \/ NextCall \/ Halt \/ Tick \/ Unhandled \/ Transmit
    \/ \E x \in Threads : Step(x)

(* The CPU goes on and the line sends; nobody has to interrupt. *)
Fairness ==
    /\ WF_vars(BootStep /\ UNCHANGED con_vars) /\ WF_vars(EarlyBoot)
    /\ WF_vars(NextCall \/ Halt) /\ WF_vars(Transmit)
    /\ \A x \in Threads : WF_vars(Step(x))

Spec == Init /\ [][Next]_vars /\ Fairness

-----------------------------------------------------------------------------
Labels == {"idle", "spin", "get_color", "set_color", "format", "strlen", "write", "put_char",
           "newline_col", "entry", "erase", "poll", "outb", "advance", "wrap_col", "wrap_row",
           "scroll", "copy", "set_pos", "store", "select_H", "data_H", "select_L", "data_L",
           "bzero", "restore", "clear"}
Colors == {BLACK, CYAN, LIGHT_RED, YELLOW, WHITE}
Byte == 0 .. UINT8 - 1

TypeOK ==
    /\ io.pos \in [col : Byte, row : Byte] /\ io.color \in Colors /\ io.thr_full \in BOOLEAN
    /\ DOMAIN io.screen = Cells /\ DOMAIN io.buf = 0 .. BUF_SIZE - 1
    /\ io.crtc \in [index : {"H", "L"}, H : Byte, L : Byte]
    /\ vga \in [x : 0 .. WIDTH - 1, y : 0 .. HEIGHT - 1]
    /\ \A x \in Threads : th[x].at \in Labels /\ th[x].len \in 0 .. BUF_SIZE - 1
    /\ k.pc \in {"cpp_init", "test_vga", "vga", "clear", "main", "hlt"}
    /\ intr \in [on : BOOLEAN, ticks : 0 .. MaxTicks]

(* A reference for the screen: the text in lines, a line that is full and  *)
(* a newline begin the next one, and the last HEIGHT lines are visible.    *)
AddChar(lines, c) ==
    IF c = NL THEN Append(lines, <<>>)
    ELSE LET line == Append(Last(lines), c) IN
         Front(lines) \o IF Len(line) = WIDTH THEN <<line, <<>>>> ELSE <<line>>
Lines(text) ==
    LET upto[n \in 0 .. Len(text)] == IF n = 0 THEN << <<>> >> ELSE AddChar(upto[n - 1], text[n])
    IN upto[Len(text)]
Top(lines) == IF Len(lines) > HEIGHT THEN Len(lines) - HEIGHT ELSE 0
Visible(lines, r, c) ==
    LET line == Top(lines) + r + 1 IN
    IF line <= Len(lines) /\ c + 1 <= Len(lines[line]) THEN lines[line][c + 1] ELSE " "
Showing(screen, text) ==
    LET lines == Lines(text) IN
    \A r \in 0 .. HEIGHT - 1, c \in 0 .. WIDTH - 1 :
        screen[r * WIDTH + c][1] = Visible(lines, r, c)
Plain(text) == \A i \in DOMAIN text : text[i] \notin {TAB, BS}

(* The hardware cursor is where the next character will go (tui.cpp:65). *)
CursorFollows == io.crtc.H * UINT8 + io.crtc.L = Index(io.pos)

(* While no message has been interrupted, the screen shows the end of the  *)
(* text printed, wrapped and scrolled as a terminal would, early boot      *)
(* messages are gone once the TUI is in use, the cursor follows, and the   *)
(* serial line loses nothing: a character is written only after the one    *)
(* before has left (tui.cpp:130, tui.cpp:169, vgaprint.cpp:25,             *)
(* vgaprint.cpp:38, vgaprint.cpp:77, kernel_main.cpp:82).                  *)
ScreenShows ==
    /\ k.pc = "vga" => Showing(io.screen, hist.text)
    /\ k.pc \in {"main", "hlt"} /\ Resting /\ hist.clean /\ Plain(hist.text)
          => Showing(io.screen, hist.text)
    /\ Resting /\ hist.clean => CursorFollows
    /\ hist.clean => ~hist.overrun

(* Whatever is interrupted where, and however far tabs have moved the      *)
(* column, a character is written inside the video memory, and the row is  *)
(* back on the screen when nobody prints (tui.cpp:92, tui.cpp:115).        *)
WritesInVideo ==
    /\ \A x \in Threads : th[x].at \in {"entry", "erase"} => th[x].idx \in Cells
    /\ Resting => io.pos.row < HEIGHT

(* Every message is written in the colour of its function, an interrupt    *)
(* inside it included, and leaves the colour it found and nothing in the   *)
(* shared buffer for the next one (io.cpp:135-144).                        *)
ColourKept ==
    /\ \A x \in Threads : th[x].at = "entry" => th[x].color = ColorOf(th[x].fn)
    /\ Resting /\ k.pc # "cpp_init" => io.color = WHITE
    /\ Resting => \A i \in DOMAIN io.buf : io.buf[i] = NUL

(* What a message must print: as much of the text as buf holds. *)
Fits(text) == SubSeq(text, 1, IF Len(text) < BUF_SIZE THEN Len(text) ELSE BUF_SIZE - 1)
Whole(x) == th[x].at \in {"idle", "spin"} /\ th[x].fn # "clear" => said[x] = Fits(th[x].text)

(* A handler's message is printed whole wherever it interrupts, and so is  *)
(* a message of kernel_main that no handler has interrupted (io.cpp:140).  *)
HandlerWhole == Whole("handler") /\ (~hist.disturbed => Whole("kernel"))

(* Every message is printed whole: buf holds the formatted string and is   *)
(* then written out (io.cpp:124, io.cpp:127).                              *)
MessageWhole == Whole("kernel")

(* kernel_main gets through its messages to its hlt loop, or an exception  *)
(* stops it: no wait for the serial line and no loop of the console keeps  *)
(* it (vgaprint.cpp:77, tui.cpp:198).                                      *)
BootReachesHalt == <>(k.pc = "hlt" \/ th["handler"].at = "spin")
=============================================================================
