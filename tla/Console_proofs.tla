--------------------------- MODULE Console_proofs ---------------------------
(***************************************************************************)
(* Proofs about the switch to 64 bits (module Boot) and the console        *)
(* (module Console), for every screen, buffer, set of texts and program.   *)
(* The inductive invariant IInv is a conjunction of named parts:           *)
(*   BootInv     how far the tables, the control bits and the stack are,   *)
(*   TypesInv    the types of memory, devices and locals,                  *)
(*   ControlInv  who may be where in which function,                       *)
(*   ColourInv   whose colour is set, and who will put back which,         *)
(*   RowInv      how far below the screen the row can be, and who will     *)
(*               bring it back,                                            *)
(*   BufferInv   where the buffer that both threads share holds NUL,       *)
(*   SaidInv     how much of its text a thread has written.                *)
(* ScreenInv, inductive with IInv, relates the screen, the position and    *)
(* the cursor's registers to the text printed so far, at every label.      *)
(***************************************************************************)
EXTENDS Console, Recursion_proofs, SequenceTheorems, TLAPS

AllChars == Chars \cup {NUL, CR, " "}
Shades == Colors \cup {VGA_WHITE}
Places == [col : Byte, row : Byte]
Fns == {"none", "info", "warn", "err", "printf", "clear"}
Memory == [screen : [Cells -> AllChars \X Shades], pos : Places, color : Colors,
           buf : [0 .. BUF_SIZE - 1 -> AllChars],
           crtc : [index : {"H", "L"}, H : Byte, L : Byte], thr_full : BOOLEAN]
Locals == [fn : Fns, text : Seq(Chars), at : Labels, saved : Colors, i : Nat,
           len : 0 .. BUF_SIZE - 1, n : Nat, c : AllChars, idx : Int, color : Colors,
           pos : Places]

-----------------------------------------------------------------------------
(* pt when the loop of .fill_pt has written n entries. *)
Filled(n) == [e \in 0 .. PtEntries - 1 |-> IF e < n THEN e ELSE -1]

InLongMode == {"lgdt", "jmp", "sse", "stack", "cpp_init"}

BootInv ==
    /\ boot \in {"pae", "link", "fill_pt", "cr3", "lme", "pg"} \cup InLongMode
    /\ stack_top \in Nat
    /\ boot \in {"pae", "link"} => pt = Filled(0)
    /\ boot = "fill_pt" => \E n \in 0 .. PtEntries - 1 : pt = Filled(n)
    /\ boot \in {"cr3", "lme", "pg"} \cup InLongMode => pt = Filled(PtEntries)
    /\ boot \notin {"pae", "link"} => linked = {"pml4", "pdpt", "pd"}
    /\ boot \in {"lme", "pg"} \cup InLongMode => cr3 = "pml4"
    /\ boot # "pae" => "PAE" \in cr
    /\ boot \in {"pg"} \cup InLongMode => "LME" \in cr
    /\ "PG" \in cr <=> boot \in InLongMode
    /\ boot \in InLongMode \ {"lgdt"} => gdt = "gdt64"
    /\ cs = "code_desc" => boot \in {"sse", "stack", "cpp_init"}
    /\ boot = "cpp_init" => rsp = StackPointer(stack_top)

-----------------------------------------------------------------------------
TypesInv ==
    /\ io \in Memory
    /\ vga \in [x : 0 .. WIDTH - 1, y : 0 .. HEIGHT - 1]
    /\ th \in [Threads -> Locals]
    /\ DOMAIN k = {"pc", "ctors", "todo"}
    /\ k.pc \in {"cpp_init", "test_vga", "vga", "clear", "main", "hlt"}
    /\ k.pc = "vga" => k.todo \in Seq(Chars)
    /\ k.pc = "main" => k.todo \in Seq(Calls)
    /\ intr \in [on : BOOLEAN, ticks : 0 .. MaxTicks]
    /\ said \in [Threads -> Seq(AllChars)]
    /\ DOMAIN hist = {"text", "clean", "disturbed", "overrun"}

SetPos == {"store", "select_H", "data_H", "select_L", "data_L"}

ControlInv ==
    /\ k.pc \notin {"main", "hlt"} => Resting /\ ~intr.on
    /\ ~Idle("handler") => th["handler"].fn = "info"
    /\ th["kernel"].fn = "clear" => th["kernel"].at \in {"clear", "idle"} \cup SetPos
    /\ th["kernel"].fn = "printf" => th["kernel"].at # "restore"
    /\ \A x \in Threads : th[x].at = "clear" => th[x].fn = "clear"

-----------------------------------------------------------------------------
(* At Ready a thread has not set the colour yet, or has put it back. *)
Ready == {"idle", "spin", "get_color", "set_color"}
KernelColor == IF th["kernel"].at \in Ready THEN WHITE ELSE ColorOf(th["kernel"].fn)

ColourInv ==
    /\ k.pc # "cpp_init" =>
         io.color = IF th["handler"].at \in Ready THEN KernelColor ELSE ColorOf(th["handler"].fn)
    /\ th["handler"].at \notin {"idle", "spin", "get_color"} => th["handler"].saved = KernelColor
    /\ th["kernel"].at \notin {"idle", "spin", "get_color"}
          /\ th["kernel"].fn \notin {"printf", "clear"} => th["kernel"].saved = WHITE
    /\ \A x \in Threads : th[x].at = "entry" => th[x].color = ColorOf(th[x].fn)

-----------------------------------------------------------------------------
(* Between its newline and its scroll a thread may have moved the row one  *)
(* below the screen; the CR that follows an NL keeps it there.             *)
Below(x) ==
    IF \/ th[x].at \in {"newline_col", "scroll", "copy"}
       \/ th[x].at \in {"poll", "outb"} /\ th[x].c \in {NL, CR}
    THEN 1 ELSE 0

RowInv ==
    /\ io.pos.row <= HEIGHT - 1 + Below("kernel") + Below("handler")
    /\ th["handler"].at = "set_pos" => io.pos.row < HEIGHT
    /\ \A x \in Threads :
         /\ th[x].at = "newline_col" => th[x].c = NL
         /\ th[x].at \in {"entry", "erase"} => th[x].idx \in Cells
         /\ th[x].at \in SetPos => th[x].pos.row < HEIGHT

-----------------------------------------------------------------------------
(* Where strlen will stop. *)
End(x) == TerminatorAt(Len(th[x].text))
Zero(n) == \A j \in 0 .. BUF_SIZE - 1 : j < n => io.buf[j] = NUL

BufferInv ==
    /\ Resting => Zero(BUF_SIZE)
    /\ th["kernel"].fn = "clear" /\ Idle("handler") => Zero(BUF_SIZE)
    /\ \A x \in Threads :
         /\ th[x].at \in {"get_color", "set_color"} => th[x].i = 0
         /\ th[x].at = "format" => th[x].i <= Len(th[x].text)
         /\ th[x].at = "strlen" => th[x].len <= End(x)
         /\ Runs(x) /\ th[x].at = "strlen" => io.buf[End(x)] = NUL
         /\ Runs(x) /\ th[x].at = "bzero" => Zero(th[x].i)
         /\ Runs(x) /\ th[x].at = "restore" => Zero(BUF_SIZE)

-----------------------------------------------------------------------------
(* The labels from write on, while characters are written. *)
Writing == {"write", "put_char", "newline_col", "entry", "erase", "poll", "outb", "advance",
            "wrap_col", "wrap_row", "scroll", "copy", "set_pos"} \cup SetPos

Holds(x, n) == \A j \in 0 .. BUF_SIZE - 1 : j < n => io.buf[j] = th[x].text[j + 1]

(* A handler's message, and one of kernel_main that nobody interrupted. *)
Undisturbed(x) == (x = "handler" \/ ~hist.disturbed) /\ th[x].fn # "clear"

SaidInv ==
    /\ ~hist.disturbed => Idle("kernel") \/ Idle("handler")
    /\ \A x \in Threads : Undisturbed(x) =>
         /\ th[x].at \in {"get_color", "set_color"} => said[x] = <<>>
         /\ th[x].at = "format" => said[x] = <<>> /\ Holds(x, th[x].i)
         /\ th[x].at = "strlen" => said[x] = <<>> /\ th[x].i = 0 /\ Holds(x, End(x))
         /\ th[x].at \in Writing =>
               th[x].len = End(x) /\ Holds(x, End(x)) /\ th[x].i <= End(x)
         /\ th[x].at = "put_char" =>
               /\ th[x].i >= 1 /\ th[x].c = th[x].text[th[x].i]
               /\ said[x] = SubSeq(th[x].text, 1, th[x].i - 1)
         /\ th[x].at \in Writing \ {"put_char"} => said[x] = SubSeq(th[x].text, 1, th[x].i)
         /\ th[x].at \in {"bzero", "restore", "idle", "spin"} => said[x] = SubSeq(th[x].text, 1, End(x))

IInv == BootInv /\ TypesInv /\ ControlInv /\ ColourInv /\ RowInv /\ BufferInv /\ SaidInv

-----------------------------------------------------------------------------
(* The rounding of the stack pointer loses less than a page and keeps the  *)
(* alignment of a page.                                                    *)
LEMMA Rounding ==
    ASSUME NEW a \in Nat
    PROVE  LET r == (a \div StackPage) * StackPage
           IN r \in Nat /\ r <= a /\ r > a - StackPage /\ r % 16 = 0
  <1> DEFINE m == a \div StackPage
             q == StackPage \div 16
  <1>1. StackPage \in Nat /\ StackPage > 0 /\ StackPage % 16 = 0 BY BootAssumption
  <1>2. q \in Nat /\ StackPage = 16 * q BY <1>1
  <1>3. m \in Nat /\ m * StackPage <= a /\ a < m * StackPage + StackPage
    BY <1>1, SMTT(30)
  <1>4. m * StackPage = 16 * (m * q) /\ m * q \in Nat BY <1>2, <1>3, SMTT(30)
  <1>5. \A z \in Nat : (16 * z) % 16 = 0 OBVIOUS
  <1>6. (m * StackPage) % 16 = 0 BY <1>4, <1>5
  <1>7. m * StackPage \in Nat BY <1>1, <1>3
  <1> HIDE DEF m, q
  <1>8. m * StackPage > a - StackPage BY <1>1, <1>3, <1>7
  <1> QED BY <1>3, <1>6, <1>7, <1>8 DEF m

(* One turn of .fill_pt fills the first entry that is still zero. *)
LEMMA FillsNext ==
    ASSUME NEW n \in 0 .. PtEntries - 1, pt = Filled(n)
    PROVE  LET e == CHOOSE e \in 0 .. PtEntries - 1 :
                        pt[e] = -1 /\ \A m \in 0 .. e - 1 : pt[m] # -1
           IN e = n /\ [pt EXCEPT ![e] = e] = Filled(n + 1)
  <1> DEFINE First(e) == pt[e] = -1 /\ \A m \in 0 .. e - 1 : pt[m] # -1
             e == CHOOSE x \in 0 .. PtEntries - 1 : First(x)
  <1>1. PtEntries \in Nat /\ n \in Nat /\ n < PtEntries BY BootAssumption
  <1>2. \A j \in 0 .. PtEntries - 1 : pt[j] = IF j < n THEN j ELSE -1 BY DEF Filled
  <1>3. First(n)
    <2>1. pt[n] = -1 BY <1>1, <1>2
    <2>2. ASSUME NEW m \in 0 .. n - 1 PROVE pt[m] # -1
      <3>1. m \in 0 .. PtEntries - 1 /\ m < n BY <1>1
      <3> QED BY <1>2, <3>1
    <2> QED BY <2>1, <2>2
  <1>4. e \in 0 .. PtEntries - 1 /\ First(e) BY <1>3
  <1>5. e = n
    <2> HIDE DEF e
    <2>1. ~(e < n) BY <1>1, <1>2, <1>4
    <2>2. ~(n < e)
      <3> SUFFICES ASSUME n < e PROVE FALSE OBVIOUS
      <3>1. n \in 0 .. e - 1 BY <1>1, <1>4
      <3> QED BY <1>3, <1>4, <3>1
    <2> QED BY <1>1, <1>4, <2>1, <2>2
  <1>6. [pt EXCEPT ![n] = n] = Filled(n + 1)
    <2> DEFINE f == [pt EXCEPT ![n] = n]
    <2>1. f = [j \in 0 .. PtEntries - 1 |-> IF j = n THEN n ELSE pt[j]] BY DEF Filled
    <2>2. \A j \in 0 .. PtEntries - 1 :
              (IF j = n THEN n ELSE pt[j]) = (IF j < n + 1 THEN j ELSE -1)
      <3> TAKE j \in 0 .. PtEntries - 1
      <3>1. CASE j < n BY <1>1, <1>2, <3>1
      <3>2. CASE j = n BY <1>1, <3>2
      <3>3. CASE j > n
        <4>1. ~(j < n) /\ j # n /\ ~(j < n + 1) BY <1>1, <3>3
        <4> QED BY <1>2, <4>1
      <3> QED BY <1>1, <3>1, <3>2, <3>3
    <2> QED BY <2>1, <2>2 DEF Filled
  <1> QED BY <1>5, <1>6

LEMMA BootInitially == BootInit => BootInv
  <1> SUFFICES ASSUME BootInit PROVE BootInv OBVIOUS
  <1>1. pt = Filled(0) BY DEF BootInit, Filled
  <1> QED BY <1>1, BootAssumption DEF BootInit, BootInv, InLongMode

LEMMA BootGoesOn == BootInv /\ [BootStep]_boot_vars => BootInv'
  <1> SUFFICES ASSUME BootInv, [BootStep]_boot_vars PROVE BootInv' OBVIOUS
  <1> USE DEF BootInv, InLongMode, Do
  <1>1. CASE EnablePae BY <1>1 DEF EnablePae, Filled
  <1>2. CASE LinkTables
    <2>1. 0 \in 0 .. PtEntries - 1 BY BootAssumption
    <2> QED BY <1>2, <2>1 DEF LinkTables, Filled
  <1>3. CASE FillPt
    <2>1. PICK n \in 0 .. PtEntries - 1 : pt = Filled(n) BY <1>3 DEF FillPt
    <2>2. PtEntries \in Nat \ {0} BY BootAssumption
    <2>3. pt' = Filled(n + 1) /\ boot' = IF n = PtEntries - 1 THEN "cr3" ELSE boot
      BY <1>3, <2>1, FillsNext DEF FillPt
    <2>4. CASE n = PtEntries - 1
      <3>1. n + 1 = PtEntries BY <2>2, <2>4
      <3>2. pt' = Filled(PtEntries) /\ boot' = "cr3" BY <2>3, <2>4, <3>1
      <3> QED BY <1>3, <3>2 DEF FillPt, Filled
    <2>5. CASE n # PtEntries - 1
      <3>1. n + 1 \in 0 .. PtEntries - 1 BY <2>2, <2>5
      <3> QED BY <1>3, <2>3, <2>5, <3>1 DEF FillPt, Filled
    <2> QED BY <2>4, <2>5
  <1>4. CASE LoadCr3 BY <1>4 DEF LoadCr3, Filled
  <1>5. CASE EnableLongMode BY <1>5 DEF EnableLongMode, Filled
  <1>6. CASE EnablePaging BY <1>6 DEF EnablePaging, Filled
  <1>7. CASE LoadGdt BY <1>7 DEF LoadGdt, Filled
  <1>8. CASE FarJump BY <1>8 DEF FarJump, Filled
  <1>9. CASE EnableSse BY <1>9 DEF EnableSse, Filled
  <1>10. CASE SetStack BY <1>10 DEF SetStack, Filled, StackPointer
  <1>11. CASE UNCHANGED boot_vars BY <1>11 DEF boot_vars, Filled, StackPointer
  <1> QED
    BY <1>1, <1>2, <1>3, <1>4, <1>5, <1>6, <1>7, <1>8, <1>9, <1>10, <1>11 DEF BootStep

LEMMA BootInvIsSound == BootInv => SwitchSound
  <1> SUFFICES ASSUME BootInv PROVE SwitchSound OBVIOUS
  <1>1. PtEntries \in Nat /\ StackSize \in Nat /\ StackPage \in Nat BY BootAssumption
  <1>2. "PG" \in cr => \A page \in 0 .. PtEntries - 1 : Translate(page) = page
    BY <1>1 DEF BootInv, InLongMode, Translate, Filled
  <1>3. StackInside
    <2> SUFFICES ASSUME boot = "cpp_init"
                 PROVE  /\ rsp <= stack_top + StackSize
                        /\ rsp > stack_top + StackSize - StackPage
                        /\ rsp % 16 = 0
      BY DEF StackInside
    <2> DEFINE a == stack_top + StackSize
    <2>1. stack_top \in Nat /\ a \in Nat BY <1>1 DEF BootInv
    <2>2. rsp = (a \div StackPage) * StackPage BY DEF BootInv, StackPointer
    <2>3. rsp \in Nat /\ rsp <= a /\ rsp > a - StackPage /\ rsp % 16 = 0 BY <2>1, <2>2, Rounding
    <2> QED BY <1>1, <2>1, <2>3
  <1> QED BY <1>2, <1>3 DEF SwitchSound, BootInv, InLongMode

-----------------------------------------------------------------------------
LEMMA Sizes ==
    /\ WIDTH \in Nat /\ WIDTH > 0 /\ HEIGHT \in Nat /\ HEIGHT > 0
    /\ BUF_SIZE \in Nat /\ BUF_SIZE > 0 /\ VideoCells \in Nat /\ MaxTicks \in Nat
    /\ UINT8 \in Nat /\ UINT8 > WIDTH /\ UINT8 > HEIGHT + 1
    /\ HEIGHT * WIDTH \in Nat /\ HEIGHT * WIDTH + UINT8 <= VideoCells
    /\ HEIGHT * WIDTH + UINT8 <= UINT8 * UINT8
  BY ConsoleAssumption

(* A sum stored in a byte is a byte, and the sum itself when it fits. *)
LEMMA InByte ==
    \A z \in Nat : z % UINT8 \in Byte /\ (z < UINT8 => z % UINT8 = z)
  <1>1. UINT8 \in Nat /\ UINT8 > 0 BY Sizes
  <1> QED BY <1>1 DEF Byte

(* A place at most one row below the screen is inside the video memory.    *)
LEMMA PlaceIndex ==
    ASSUME NEW p \in Places, p.row <= HEIGHT
    PROVE  Index(p) \in Cells /\ (p.col > 0 => Index(p) - 1 \in Cells)
  <1>1. p.row \in Nat /\ p.col \in Nat /\ p.col < UINT8 BY Sizes DEF Places, Byte
  <1>2. p.row * WIDTH \in Nat /\ p.row * WIDTH <= HEIGHT * WIDTH
    <2>1. \A a, b \in Nat : \A w \in Nat : a <= b => a * w \in Nat /\ a * w <= b * w BY SMTT(30)
    <2> QED BY <1>1, <2>1, Sizes
  <1> QED BY <1>1, <1>2, Sizes DEF Index, Cells

(* The two registers of the cursor hold the index of a place on the screen. *)
LEMMA CursorBytes ==
    ASSUME NEW p \in Places, p.row <= HEIGHT
    PROVE  Index(p) \div UINT8 \in Byte /\ Index(p) % UINT8 \in Byte
  <1> DEFINE z == Index(p)
  <1>1. p.row \in Nat /\ p.col \in Nat /\ p.col < UINT8 BY Sizes DEF Places, Byte
  <1>2. p.row * WIDTH \in Nat /\ p.row * WIDTH <= HEIGHT * WIDTH
    <2>1. \A a, b \in Nat : \A w \in Nat : a <= b => a * w \in Nat /\ a * w <= b * w BY SMTT(30)
    <2> QED BY <1>1, <2>1, Sizes
  <1>3. z \in Nat /\ z < UINT8 * UINT8 BY <1>1, <1>2, Sizes DEF Index
  <1>4. \A a \in Nat : \A u \in Nat : u > 0 /\ a < u * u => a \div u \in 0 .. u - 1
    BY SMTT(30)
  <1>5. z \div UINT8 \in Byte BY <1>3, <1>4, Sizes DEF Byte
  <1> QED BY <1>3, <1>5, InByte

(* The stores to memory that the code makes keep its type. *)
LEMMA Stores ==
    ASSUME NEW m \in Memory
    PROVE  /\ \A v \in Byte : [m EXCEPT !.pos.row = v] \in Memory
           /\ \A v \in Byte : [m EXCEPT !.pos.col = v] \in Memory
           /\ \A p \in Places : [m EXCEPT !.pos = p] \in Memory
           /\ \A j, c : c \in AllChars => [m EXCEPT !.buf[j] = c] \in Memory
           /\ \A j : \A cell \in AllChars \X Shades : [m EXCEPT !.screen[j] = cell] \in Memory
           /\ \A r \in {"H", "L"} : \A v \in Byte : [m EXCEPT !.crtc[r] = v] \in Memory
           /\ \A r \in {"H", "L"} : [m EXCEPT !.crtc.index = r] \in Memory
  <1>1. /\ m.pos \in Places /\ m.buf \in [0 .. BUF_SIZE - 1 -> AllChars]
        /\ m.screen \in [Cells -> AllChars \X Shades]
        /\ m.crtc \in [index : {"H", "L"}, H : Byte, L : Byte]
    BY DEF Memory
  <1>2. \A p \in Places : [m EXCEPT !.pos = p] \in Memory BY DEF Memory
  <1>3. \A v \in Byte : [m.pos EXCEPT !.row = v] \in Places BY <1>1 DEF Places
  <1>4. \A v \in Byte : [m.pos EXCEPT !.col = v] \in Places BY <1>1 DEF Places
  <1>5. \A b \in [0 .. BUF_SIZE - 1 -> AllChars] : [m EXCEPT !.buf = b] \in Memory BY DEF Memory
  <1>6. \A j, c : c \in AllChars => [m.buf EXCEPT ![j] = c] \in [0 .. BUF_SIZE - 1 -> AllChars]
    BY <1>1
  <1>7. \A s \in [Cells -> AllChars \X Shades] : [m EXCEPT !.screen = s] \in Memory BY DEF Memory
  <1>8. \A j : \A cell \in AllChars \X Shades : [m.screen EXCEPT ![j] = cell] \in [Cells -> AllChars \X Shades]
    BY <1>1
  <1>9. \A s \in [index : {"H", "L"}, H : Byte, L : Byte] : [m EXCEPT !.crtc = s] \in Memory
    BY DEF Memory
  <1>10. \A r \in {"H", "L"} : \A v \in Byte :
             [m.crtc EXCEPT ![r] = v] \in [index : {"H", "L"}, H : Byte, L : Byte]
    BY <1>1
  <1>11. \A r \in {"H", "L"} :
             [m.crtc EXCEPT !.index = r] \in [index : {"H", "L"}, H : Byte, L : Byte]
    BY <1>1
  <1> QED BY <1>2, <1>3, <1>4, <1>5, <1>6, <1>7, <1>8, <1>9, <1>10, <1>11

(* The assignments to the locals of a thread keep their type. *)
LEMMA Assigns ==
    ASSUME th \in [Threads -> Locals], NEW x \in Threads
    PROVE  /\ \A l \in Labels : [th EXCEPT ![x].at = l] \in [Threads -> Locals]
           /\ \A v \in Nat : [th EXCEPT ![x].i = v] \in [Threads -> Locals]
           /\ \A v \in Nat : [th EXCEPT ![x].n = v] \in [Threads -> Locals]
  <1>1. th[x] \in Locals OBVIOUS
  <1>2. \A t \in Locals : [th EXCEPT ![x] = t] \in [Threads -> Locals] OBVIOUS
  <1>3. \A l \in Labels : [th[x] EXCEPT !.at = l] \in Locals BY <1>1 DEF Locals
  <1>4. \A v \in Nat : [th[x] EXCEPT !.i = v] \in Locals BY <1>1 DEF Locals
  <1>5. \A v \in Nat : [th[x] EXCEPT !.n = v] \in Locals BY <1>1 DEF Locals
  <1> QED BY <1>2, <1>3, <1>4, <1>5

(* The alternatives of the steps that test something. *)
LEMMA Alternatives ==
    ASSUME NEW x \in Threads
    PROVE  LET t == th[x] IN
      /\ strlen(x) => \/ io.buf[t.len] # NUL /\ th' = [th EXCEPT ![x].len = @ + 1]
                      \/ io.buf[t.len] = NUL /\ Go(x, "write")
      /\ backspace(x) =>
           \/ /\ io.pos.col > 0 /\ io' = [io EXCEPT !.pos.col = @ - 1]
              /\ Latch(x, Index(io.pos) - 1, " ", "erase")
           \/ ~(io.pos.col > 0) /\ io' = io /\ Go(x, "scroll")
      /\ scroll_copy(x) =>
           \/ t.n < HEIGHT * WIDTH /\ th' = [th EXCEPT ![x].n = @ + 1]
              /\ \E cell : io' = [io EXCEPT !.screen[t.n] = cell]
           \/ ~(t.n < HEIGHT * WIDTH) /\ io' = [io EXCEPT !.pos.row = HEIGHT - 1] /\ Go(x, "set_pos")
      /\ bzero(x) =>
           \/ /\ t.i < BUF_SIZE /\ th' = [th EXCEPT ![x].i = @ + 1]
              /\ io' = [io EXCEPT !.buf[t.i] = NUL]
           \/ /\ ~(t.i < BUF_SIZE) /\ io' = io
              /\ Go(x, IF t.fn = "printf" THEN "idle" ELSE "restore")
      /\ clear(x) =>
           \/ /\ t.n < HEIGHT * WIDTH /\ th' = [th EXCEPT ![x].n = @ + 1]
              /\ \E cell : io' = [io EXCEPT !.screen[t.n] = cell]
           \/ /\ ~(t.n < HEIGHT * WIDTH) /\ io' = io
              /\ th' = [th EXCEPT ![x].at = "store", ![x].pos = Home]
  BY Zenon DEF strlen, backspace, scroll_copy, bzero, clear, SetIo

(* What a step of a thread does to the colour, to what it saved of it, and *)
(* which steps end a message.                                              *)
LEMMA ColourEffect ==
    ASSUME TypesInv, NEW x \in Threads, Printing(x)
    PROVE  LET t == th[x]
               u == th'[x]
           IN /\ u.fn = t.fn /\ u.text = t.text
              /\ \A y \in Threads : y # x => th'[y] = th[y]
              /\ t.at \notin {"idle", "spin"}
              /\ io'.color = IF t.at = "set_color" THEN ColorOf(t.fn)
                             ELSE IF t.at = "restore" THEN t.saved ELSE io.color
              /\ u.saved = IF t.at = "get_color" THEN io.color ELSE t.saved
              /\ u.at = "entry" => t.at = "put_char" /\ u.color = io.color
              /\ t.at = "get_color" => u.at = "set_color"
              /\ t.at = "set_color" => u.at = "format"
              /\ t.at = "restore" => u.at \in {"idle", "spin"}
              /\ u.at \in Ready => \/ t.at \in {"get_color", "restore"}
                                   \/ t.at = "bzero" /\ t.fn = "printf"
                                   \/ t.at = "data_L" /\ t.fn = "clear"
              /\ u.at = "restore" => t.at = "bzero" /\ t.fn # "printf"
              /\ u.at = "clear" => t.at = "clear"
              /\ t.at \in {"clear"} \cup SetPos /\ t.fn = "clear" => u.at \in {"clear", "idle"} \cup SetPos
  <1>1. io \in Memory /\ th \in [Threads -> Locals] BY DEF TypesInv
  <1> USE DEF At, Go, SetIo, Ready, SetPos
  <1>2. CASE get_color(x) BY <1>1, <1>2 DEF get_color, Memory, Locals
  <1>3. CASE set_color(x) BY <1>1, <1>3 DEF set_color, Memory, Locals
  <1>4. CASE _vsnprintf(x) BY <1>1, <1>4 DEF _vsnprintf, Memory, Locals, _out_buffer
  <1>5. CASE strlen(x)
    <2>1. th[x].at = "strlen" /\ io' = io BY <1>5 DEF strlen
    <2>2. CASE io.buf[th[x].len] # NUL /\ th' = [th EXCEPT ![x].len = @ + 1]
      BY <1>1, <2>1, <2>2 DEF Memory, Locals
    <2>3. CASE io.buf[th[x].len] = NUL /\ Go(x, "write")
      BY <1>1, <2>1, <2>3 DEF Memory, Locals
    <2> QED BY <1>5, <2>2, <2>3, Alternatives
  <1>6. CASE write(x) BY <1>1, <1>6 DEF write, Memory, Locals
  <1>7. CASE newline(x) BY <1>1, <1>7 DEF newline, Memory, Locals
  <1>8. CASE newline_col(x) BY <1>1, <1>8 DEF newline_col, Memory, Locals
  <1>9. CASE tab(x) BY <1>1, <1>9 DEF tab, Memory, Locals
  <1>10. CASE backspace(x)
    <2>1. th[x].at = "put_char" /\ th[x].c = BS BY <1>10 DEF backspace
    <2>2. CASE io.pos.col > 0 /\ io' = [io EXCEPT !.pos.col = @ - 1]
              /\ Latch(x, Index(io.pos) - 1, " ", "erase")
      <3>1. io'.color = io.color /\ io'.buf = io.buf /\ io'.pos.row = io.pos.row
        BY <1>1, <2>2 DEF Memory, Places
      <3>2. PICK idx : /\ idx = Index(io.pos) - 1
                       /\ th' = [th EXCEPT ![x].at = "erase", ![x].idx = idx, ![x].c = " ", ![x].color = io.color]
        BY <2>2 DEF Latch
      <3>3. \A y \in Threads : y # x => th'[y] = th[y] BY <1>1, <3>2
      <3>0. /\ th'[x] = [th[x] EXCEPT !.at = "erase", !.idx = idx, !.c = " ", !.color = io.color]
            /\ th[x] \in Locals
        BY <1>1, <3>2
      <3>i. idx = Index(io.pos) - 1 BY <3>2
      <3>4. /\ th'[x].at = "erase" /\ th'[x].idx = Index(io.pos) - 1 /\ th'[x].c = " "
            /\ th'[x].color = io.color /\ th'[x].pos = th[x].pos
            /\ th'[x].fn = th[x].fn /\ th'[x].text = th[x].text /\ th'[x].saved = th[x].saved
            /\ th'[x].i = th[x].i /\ th'[x].len = th[x].len /\ th'[x].n = th[x].n
        BY <3>0, <3>i DEF Locals
      <3>5. io.pos.col > 0 BY <2>2
      <3> QED BY <2>1, <3>1, <3>3, <3>4, <3>5 DEF BS, NL
    <2>3. CASE io' = io /\ Go(x, "scroll")
      BY <1>1, <2>1, <2>3 DEF Memory, Locals, BS, NL
    <2> QED BY <1>10, <2>2, <2>3, Alternatives
  <1>11. CASE put_char(x) BY <1>1, <1>11 DEF put_char, Memory, Locals, Latch
  <1>12. CASE put_entry_at(x) BY <1>1, <1>12 DEF put_entry_at, Memory, Locals
  <1>13. CASE serial_wait(x) BY <1>1, <1>13 DEF serial_wait, Memory, Locals
  <1>14. CASE serial_putc(x) BY <1>1, <1>14 DEF serial_putc, Memory, Locals, NL, CR
  <1>15. CASE advance(x) BY <1>1, <1>15 DEF advance, Memory, Locals
  <1>16. CASE wrap_col(x) BY <1>1, <1>16 DEF wrap_col, Memory, Locals
  <1>17. CASE wrap_row(x) BY <1>1, <1>17 DEF wrap_row, Memory, Locals
  <1>18. CASE scroll(x) BY <1>1, <1>18 DEF scroll, Memory, Locals
  <1>19. CASE scroll_copy(x)
    <2>1. th[x].at = "copy" BY <1>19 DEF scroll_copy
    <2>2. CASE th' = [th EXCEPT ![x].n = @ + 1] /\ \E cell : io' = [io EXCEPT !.screen[th[x].n] = cell]
      BY <1>1, <2>1, <2>2 DEF Memory, Locals
    <2>3. CASE io' = [io EXCEPT !.pos.row = HEIGHT - 1] /\ Go(x, "set_pos")
      BY <1>1, <2>1, <2>3 DEF Memory, Locals
    <2> QED BY <1>19, <2>2, <2>3, Alternatives
  <1>20. CASE set_pos(x) BY <1>1, <1>20 DEF set_pos, Memory, Locals
  <1>21. CASE store(x) BY <1>1, <1>21 DEF store, Memory, Locals
  <1>22. CASE Select(x) BY <1>1, <1>22 DEF Select, Memory, Locals
  <1>23. CASE CursorData(x) BY <1>1, <1>23 DEF CursorData, Memory, Locals, AfterSetPos
  <1>24. CASE bzero(x)
    <2>1. th[x].at = "bzero" BY <1>24 DEF bzero
    <2>2. CASE th[x].i < BUF_SIZE /\ th' = [th EXCEPT ![x].i = @ + 1]
              /\ io' = [io EXCEPT !.buf[th[x].i] = NUL]
      BY <1>1, <2>1, <2>2 DEF Memory, Locals
    <2>3. CASE ~(th[x].i < BUF_SIZE) /\ io' = io
              /\ Go(x, IF th[x].fn = "printf" THEN "idle" ELSE "restore")
      BY <1>1, <2>1, <2>3 DEF Memory, Locals
    <2> QED BY <1>24, <2>2, <2>3, Alternatives
  <1>25. CASE restore_color(x) BY <1>1, <1>25 DEF restore_color, Memory, Locals, Ended
  <1>26. CASE clear(x)
    <2>1. th[x].at = "clear" BY <1>26 DEF clear
    <2>2. CASE th' = [th EXCEPT ![x].n = @ + 1] /\ \E cell : io' = [io EXCEPT !.screen[th[x].n] = cell]
      BY <1>1, <2>1, <2>2 DEF Memory, Locals
    <2>3. CASE io' = io /\ th' = [th EXCEPT ![x].at = "store", ![x].pos = Home]
      BY <1>1, <2>1, <2>3 DEF Memory, Locals
    <2> QED BY <1>26, <2>2, <2>3, Alternatives
  <1> QED
    BY <1>2, <1>3, <1>4, <1>5, <1>6, <1>7, <1>8, <1>9, <1>10, <1>11, <1>12, <1>13, <1>14,
       <1>15, <1>16, <1>17, <1>18, <1>19, <1>20, <1>21, <1>22, <1>23, <1>24, <1>25, <1>26
    DEF Printing, escapeconv

(* What a step of a thread does to the row, and where it goes from there.  *)
LEMMA RowEffect ==
    ASSUME TypesInv, NEW x \in Threads, Printing(x)
    PROVE  LET t == th[x]
               u == th'[x]
           IN /\ io'.pos.row = IF t.at = "wrap_row" \/ (t.at = "put_char" /\ t.c = NL)
                               THEN (io.pos.row + 1) % UINT8
                               ELSE IF t.at = "copy" /\ u.at = "set_pos" THEN HEIGHT - 1
                               ELSE IF t.at = "store" THEN t.pos.row ELSE io.pos.row
              /\ t.at = "put_char" /\ t.c = NL => u.at = "newline_col"
              /\ u.at = "newline_col" => t.at = "put_char" /\ t.c = NL /\ u.c = NL
              /\ t.at = "newline_col" => u.at = "poll" /\ u.c = t.c
              /\ t.at = "wrap_row" => u.at = "scroll"
              /\ t.at = "poll" => u.at = "outb" /\ u.c = t.c
              /\ t.at = "outb" => \/ t.c \in {NL, CR} /\ u.at = "poll" /\ u.c = CR
                                  \/ t.c \in {NL, CR} /\ u.at = "scroll"
                                  \/ t.c \notin {NL, CR}
              /\ t.at = "scroll" => \/ io.pos.row >= HEIGHT /\ u.at = "copy"
                                    \/ ~(io.pos.row >= HEIGHT) /\ u.at = "set_pos"
              /\ t.at = "copy" => u.at \in {"copy", "set_pos"}
              /\ u.at = "set_pos" => t.at \in {"scroll", "copy"}
              /\ u.at \in {"entry", "erase"} =>
                   /\ t.at = "put_char"
                   /\ \/ u.idx = Index(io.pos)
                      \/ io.pos.col > 0 /\ u.idx = Index(io.pos) - 1
              /\ u.at \in SetPos => \/ t.at = "set_pos" /\ u.pos = io.pos
                                    \/ t.at = "clear" /\ u.pos = Home
                                    \/ t.at \in SetPos /\ u.pos = t.pos
  <1>1. io \in Memory /\ th \in [Threads -> Locals] BY DEF TypesInv
  <1> USE DEF At, Go, SetIo, SetPos, Places
  <1>2. CASE get_color(x) BY <1>1, <1>2 DEF get_color, Memory, Locals
  <1>3. CASE set_color(x) BY <1>1, <1>3 DEF set_color, Memory, Locals
  <1>4. CASE _vsnprintf(x)
    <2>1. io'.pos = io.pos BY <1>1, <1>4 DEF _vsnprintf, _out_buffer, Memory
    <2>2. th[x].at = "format" /\ th'[x].at \in {"format", "strlen"} BY <1>1, <1>4 DEF _vsnprintf, Locals
    <2> QED BY <2>1, <2>2
  <1>5. CASE strlen(x)
    <2>1. th[x].at = "strlen" /\ io' = io BY <1>5 DEF strlen
    <2>2. CASE io.buf[th[x].len] # NUL /\ th' = [th EXCEPT ![x].len = @ + 1]
      BY <1>1, <2>1, <2>2 DEF Memory, Locals
    <2>3. CASE io.buf[th[x].len] = NUL /\ Go(x, "write")
      BY <1>1, <2>1, <2>3 DEF Memory, Locals
    <2> QED BY <1>5, <2>2, <2>3, Alternatives
  <1>6. CASE write(x) BY <1>1, <1>6 DEF write, Memory, Locals
  <1>7. CASE newline(x) BY <1>1, <1>7 DEF newline, Memory, Locals, NL
  <1>8. CASE newline_col(x) BY <1>1, <1>8 DEF newline_col, Memory, Locals
  <1>9. CASE tab(x) BY <1>1, <1>9 DEF tab, Memory, Locals, NL, TAB
  <1>10. CASE backspace(x)
    <2>1. th[x].at = "put_char" /\ th[x].c = BS BY <1>10 DEF backspace
    <2>2. CASE io.pos.col > 0 /\ io' = [io EXCEPT !.pos.col = @ - 1]
              /\ Latch(x, Index(io.pos) - 1, " ", "erase")
      <3>1. io'.color = io.color /\ io'.buf = io.buf /\ io'.pos.row = io.pos.row
        BY <1>1, <2>2 DEF Memory, Places
      <3>2. PICK idx : /\ idx = Index(io.pos) - 1
                       /\ th' = [th EXCEPT ![x].at = "erase", ![x].idx = idx, ![x].c = " ", ![x].color = io.color]
        BY <2>2 DEF Latch
      <3>3. \A y \in Threads : y # x => th'[y] = th[y] BY <1>1, <3>2
      <3>0. /\ th'[x] = [th[x] EXCEPT !.at = "erase", !.idx = idx, !.c = " ", !.color = io.color]
            /\ th[x] \in Locals
        BY <1>1, <3>2
      <3>i. idx = Index(io.pos) - 1 BY <3>2
      <3>4. /\ th'[x].at = "erase" /\ th'[x].idx = Index(io.pos) - 1 /\ th'[x].c = " "
            /\ th'[x].color = io.color /\ th'[x].pos = th[x].pos
            /\ th'[x].fn = th[x].fn /\ th'[x].text = th[x].text /\ th'[x].saved = th[x].saved
            /\ th'[x].i = th[x].i /\ th'[x].len = th[x].len /\ th'[x].n = th[x].n
        BY <3>0, <3>i DEF Locals
      <3>5. io.pos.col > 0 BY <2>2
      <3> QED BY <2>1, <3>1, <3>3, <3>4, <3>5 DEF BS, NL
    <2>3. CASE io' = io /\ Go(x, "scroll")
      BY <1>1, <2>1, <2>3 DEF Memory, Locals, BS, NL
    <2> QED BY <1>10, <2>2, <2>3, Alternatives
  <1>11. CASE put_char(x)
    <2>1. io' = io /\ th[x].at = "put_char" /\ th[x].c # NL BY <1>11 DEF put_char, Escapes
    <2>2. PICK idx : /\ idx = Index(io.pos)
                     /\ th' = [th EXCEPT ![x].at = "entry", ![x].idx = idx, ![x].c = th[x].c, ![x].color = io.color]
      BY <1>11 DEF put_char, Latch
    <2>3. th'[x].at = "entry" /\ th'[x].idx = idx BY <1>1, <2>2 DEF Locals
    <2>4. th'[x].idx = Index(io.pos) BY <2>2, <2>3
    <2> QED BY <2>1, <2>3, <2>4
  <1>12. CASE put_entry_at(x) BY <1>1, <1>12 DEF put_entry_at, Memory, Locals
  <1>13. CASE serial_wait(x) BY <1>1, <1>13 DEF serial_wait, Memory, Locals
  <1>14. CASE serial_putc(x) BY <1>1, <1>14 DEF serial_putc, Memory, Locals, NL, CR
  <1>15. CASE advance(x) BY <1>1, <1>15 DEF advance, Memory, Locals
  <1>16. CASE wrap_col(x) BY <1>1, <1>16 DEF wrap_col, Memory, Locals
  <1>17. CASE wrap_row(x) BY <1>1, <1>17 DEF wrap_row, Memory, Locals
  <1>18. CASE scroll(x) BY <1>1, <1>18 DEF scroll, Memory, Locals
  <1>19. CASE scroll_copy(x)
    <2>1. th[x].at = "copy" BY <1>19 DEF scroll_copy
    <2>2. CASE th' = [th EXCEPT ![x].n = @ + 1] /\ \E cell : io' = [io EXCEPT !.screen[th[x].n] = cell]
      BY <1>1, <2>1, <2>2 DEF Memory, Locals
    <2>3. CASE io' = [io EXCEPT !.pos.row = HEIGHT - 1] /\ Go(x, "set_pos")
      BY <1>1, <2>1, <2>3 DEF Memory, Locals
    <2> QED BY <1>19, <2>2, <2>3, Alternatives
  <1>20. CASE set_pos(x) BY <1>1, <1>20 DEF set_pos, Memory, Locals
  <1>21. CASE store(x) BY <1>1, <1>21 DEF store, Memory, Locals
  <1>22. CASE Select(x)
    <2>1. io'.pos = io.pos BY <1>1, <1>22 DEF Select, Memory
    <2>2. th[x].at \in {"select_H", "select_L"} /\ th'[x].at \in {"data_H", "data_L"} /\ th'[x].pos = th[x].pos
      BY <1>1, <1>22 DEF Select, Locals
    <2> QED BY <2>1, <2>2
  <1>23. CASE CursorData(x)
    <2>1. io'.pos = io.pos BY <1>1, <1>23 DEF CursorData, Memory
    <2>2. /\ th[x].at \in {"data_H", "data_L"} /\ th'[x].at \in {"select_L", "idle", "write"}
          /\ th'[x].pos = th[x].pos
      BY <1>1, <1>23 DEF CursorData, AfterSetPos, Locals
    <2> QED BY <2>1, <2>2
  <1>24. CASE bzero(x)
    <2>1. th[x].at = "bzero" BY <1>24 DEF bzero
    <2>2. CASE th[x].i < BUF_SIZE /\ th' = [th EXCEPT ![x].i = @ + 1]
              /\ io' = [io EXCEPT !.buf[th[x].i] = NUL]
      BY <1>1, <2>1, <2>2 DEF Memory, Locals
    <2>3. CASE ~(th[x].i < BUF_SIZE) /\ io' = io
              /\ Go(x, IF th[x].fn = "printf" THEN "idle" ELSE "restore")
      BY <1>1, <2>1, <2>3 DEF Memory, Locals
    <2> QED BY <1>24, <2>2, <2>3, Alternatives
  <1>25. CASE restore_color(x) BY <1>1, <1>25 DEF restore_color, Memory, Locals, Ended
  <1>26. CASE clear(x)
    <2>1. th[x].at = "clear" BY <1>26 DEF clear
    <2>2. CASE th' = [th EXCEPT ![x].n = @ + 1] /\ \E cell : io' = [io EXCEPT !.screen[th[x].n] = cell]
      BY <1>1, <2>1, <2>2 DEF Memory, Locals
    <2>3. CASE io' = io /\ th' = [th EXCEPT ![x].at = "store", ![x].pos = Home]
      BY <1>1, <2>1, <2>3 DEF Memory, Locals
    <2> QED BY <1>26, <2>2, <2>3, Alternatives
  <1> QED
    BY <1>2, <1>3, <1>4, <1>5, <1>6, <1>7, <1>8, <1>9, <1>10, <1>11, <1>12, <1>13, <1>14,
       <1>15, <1>16, <1>17, <1>18, <1>19, <1>20, <1>21, <1>22, <1>23, <1>24, <1>25, <1>26
    DEF Printing, escapeconv

(* What a step of a thread does to the shared buffer, and how far it is in *)
(* its text.                                                               *)
LEMMA BufferEffect ==
    ASSUME TypesInv, NEW x \in Threads, Printing(x)
    PROVE  LET t == th[x]
               u == th'[x]
           IN /\ t.at \in {"get_color", "set_color"} => u.i = t.i
              /\ u.at # "get_color"
              /\ u.at = "set_color" => t.at = "get_color"
              /\ u.at = "format" => t.at \in {"set_color", "format"}
              /\ u.at = "strlen" => t.at \in {"format", "strlen"}
              /\ u.at = "put_char" => t.at = "write"
              /\ u.at = "bzero" => t.at \in {"write", "bzero"}
              /\ u.at \in {"idle", "spin"} => t.at \in {"bzero", "restore", "data_L"}
              /\ t.at = "format" /\ t.i < Len(t.text) =>
                   u.at = "format" /\ u.i = t.i + 1 /\ io' = _out_buffer(t.text[t.i + 1], t.i)
              /\ t.at = "format" /\ ~(t.i < Len(t.text)) =>
                   /\ u.at = "strlen" /\ u.i = 0 /\ u.len = 0
                   /\ io' = _out_buffer(NUL, TerminatorAt(t.i))
              /\ t.at = "strlen" =>
                   /\ u.i = t.i
                   /\ \/ io.buf[t.len] # NUL /\ u.at = "strlen" /\ u.len = t.len + 1
                      \/ io.buf[t.len] = NUL /\ u.at = "write" /\ u.len = t.len
              /\ t.at = "write" =>
                   \/ /\ t.i < t.len /\ u.at = "put_char" /\ u.c = io.buf[t.i] /\ u.i = t.i + 1
                      /\ u.len = t.len
                   \/ ~(t.i < t.len) /\ u.at = "bzero" /\ u.i = 0
              /\ t.at = "bzero" =>
                   \/ t.i < BUF_SIZE /\ u.at = "bzero" /\ u.i = t.i + 1 /\ io'.buf = [io.buf EXCEPT ![t.i] = NUL]
                   \/ ~(t.i < BUF_SIZE) /\ u.at \in {"idle", "restore"} /\ io'.buf = io.buf
              /\ t.at \notin {"format", "bzero"} => io'.buf = io.buf
              /\ t.at \in Writing \ {"write"} =>
                   /\ u.i = t.i /\ u.len = t.len
                   /\ u.at \in Writing \ {"put_char"} \/ (t.fn = "clear" /\ t.at = "data_L")
              /\ u.at \in Writing => t.at \in Writing \cup {"strlen", "clear"}
  <1>1. io \in Memory /\ th \in [Threads -> Locals] BY DEF TypesInv
  <1> USE DEF At, Go, SetIo, SetPos, Writing
  <1>2. CASE get_color(x) BY <1>1, <1>2 DEF get_color, Memory, Locals
  <1>3. CASE set_color(x) BY <1>1, <1>3 DEF set_color, Memory, Locals
  <1>4. CASE _vsnprintf(x) BY <1>1, <1>4 DEF _vsnprintf, Memory, Locals, _out_buffer
  <1>5. CASE strlen(x)
    <2>1. th[x].at = "strlen" /\ io' = io BY <1>5 DEF strlen
    <2>2. CASE io.buf[th[x].len] # NUL /\ th' = [th EXCEPT ![x].len = @ + 1]
      BY <1>1, <2>1, <2>2 DEF Memory, Locals
    <2>3. CASE io.buf[th[x].len] = NUL /\ Go(x, "write")
      BY <1>1, <2>1, <2>3 DEF Memory, Locals
    <2> QED BY <1>5, <2>2, <2>3, Alternatives
  <1>6. CASE write(x) BY <1>1, <1>6 DEF write, Memory, Locals
  <1>7. CASE newline(x) BY <1>1, <1>7 DEF newline, Memory, Locals
  <1>8. CASE newline_col(x) BY <1>1, <1>8 DEF newline_col, Memory, Locals
  <1>9. CASE tab(x) BY <1>1, <1>9 DEF tab, Memory, Locals
  <1>10. CASE backspace(x)
    <2>1. th[x].at = "put_char" /\ th[x].c = BS BY <1>10 DEF backspace
    <2>2. CASE io.pos.col > 0 /\ io' = [io EXCEPT !.pos.col = @ - 1]
              /\ Latch(x, Index(io.pos) - 1, " ", "erase")
      <3>1. io'.color = io.color /\ io'.buf = io.buf /\ io'.pos.row = io.pos.row
        BY <1>1, <2>2 DEF Memory, Places
      <3>2. PICK idx : /\ idx = Index(io.pos) - 1
                       /\ th' = [th EXCEPT ![x].at = "erase", ![x].idx = idx, ![x].c = " ", ![x].color = io.color]
        BY <2>2 DEF Latch
      <3>3. \A y \in Threads : y # x => th'[y] = th[y] BY <1>1, <3>2
      <3>0. /\ th'[x] = [th[x] EXCEPT !.at = "erase", !.idx = idx, !.c = " ", !.color = io.color]
            /\ th[x] \in Locals
        BY <1>1, <3>2
      <3>i. idx = Index(io.pos) - 1 BY <3>2
      <3>4. /\ th'[x].at = "erase" /\ th'[x].idx = Index(io.pos) - 1 /\ th'[x].c = " "
            /\ th'[x].color = io.color /\ th'[x].pos = th[x].pos
            /\ th'[x].fn = th[x].fn /\ th'[x].text = th[x].text /\ th'[x].saved = th[x].saved
            /\ th'[x].i = th[x].i /\ th'[x].len = th[x].len /\ th'[x].n = th[x].n
        BY <3>0, <3>i DEF Locals
      <3>5. io.pos.col > 0 BY <2>2
      <3> QED BY <2>1, <3>1, <3>3, <3>4, <3>5 DEF BS, NL
    <2>3. CASE io' = io /\ Go(x, "scroll")
      BY <1>1, <2>1, <2>3 DEF Memory, Locals, BS, NL
    <2> QED BY <1>10, <2>2, <2>3, Alternatives
  <1>11. CASE put_char(x) BY <1>1, <1>11 DEF put_char, Memory, Locals, Latch
  <1>12. CASE put_entry_at(x) BY <1>1, <1>12 DEF put_entry_at, Memory, Locals
  <1>13. CASE serial_wait(x) BY <1>1, <1>13 DEF serial_wait, Memory, Locals
  <1>14. CASE serial_putc(x) BY <1>1, <1>14 DEF serial_putc, Memory, Locals, NL, CR
  <1>15. CASE advance(x) BY <1>1, <1>15 DEF advance, Memory, Locals
  <1>16. CASE wrap_col(x) BY <1>1, <1>16 DEF wrap_col, Memory, Locals
  <1>17. CASE wrap_row(x) BY <1>1, <1>17 DEF wrap_row, Memory, Locals
  <1>18. CASE scroll(x) BY <1>1, <1>18 DEF scroll, Memory, Locals
  <1>19. CASE scroll_copy(x)
    <2>1. th[x].at = "copy" BY <1>19 DEF scroll_copy
    <2>2. CASE th' = [th EXCEPT ![x].n = @ + 1] /\ \E cell : io' = [io EXCEPT !.screen[th[x].n] = cell]
      BY <1>1, <2>1, <2>2 DEF Memory, Locals
    <2>3. CASE io' = [io EXCEPT !.pos.row = HEIGHT - 1] /\ Go(x, "set_pos")
      BY <1>1, <2>1, <2>3 DEF Memory, Locals
    <2> QED BY <1>19, <2>2, <2>3, Alternatives
  <1>20. CASE set_pos(x) BY <1>1, <1>20 DEF set_pos, Memory, Locals
  <1>21. CASE store(x) BY <1>1, <1>21 DEF store, Memory, Locals
  <1>22. CASE Select(x) BY <1>1, <1>22 DEF Select, Memory, Locals
  <1>23. CASE CursorData(x) BY <1>1, <1>23 DEF CursorData, Memory, Locals, AfterSetPos
  <1>24. CASE bzero(x)
    <2>1. th[x].at = "bzero" BY <1>24 DEF bzero
    <2>2. CASE th[x].i < BUF_SIZE /\ th' = [th EXCEPT ![x].i = @ + 1]
              /\ io' = [io EXCEPT !.buf[th[x].i] = NUL]
      BY <1>1, <2>1, <2>2 DEF Memory, Locals
    <2>3. CASE ~(th[x].i < BUF_SIZE) /\ io' = io
              /\ Go(x, IF th[x].fn = "printf" THEN "idle" ELSE "restore")
      BY <1>1, <2>1, <2>3 DEF Memory, Locals
    <2> QED BY <1>24, <2>2, <2>3, Alternatives
  <1>25. CASE restore_color(x) BY <1>1, <1>25 DEF restore_color, Memory, Locals, Ended
  <1>26. CASE clear(x)
    <2>1. th[x].at = "clear" BY <1>26 DEF clear
    <2>2. CASE th' = [th EXCEPT ![x].n = @ + 1] /\ \E cell : io' = [io EXCEPT !.screen[th[x].n] = cell]
      BY <1>1, <2>1, <2>2 DEF Memory, Locals
    <2>3. CASE io' = io /\ th' = [th EXCEPT ![x].at = "store", ![x].pos = Home]
      BY <1>1, <2>1, <2>3 DEF Memory, Locals
    <2> QED BY <1>26, <2>2, <2>3, Alternatives
  <1> QED
    BY <1>2, <1>3, <1>4, <1>5, <1>6, <1>7, <1>8, <1>9, <1>10, <1>11, <1>12, <1>13, <1>14,
       <1>15, <1>16, <1>17, <1>18, <1>19, <1>20, <1>21, <1>22, <1>23, <1>24, <1>25, <1>26
    DEF Printing, escapeconv

-----------------------------------------------------------------------------
(* A step of a thread keeps the types. *)
LEMMA StepTypes ==
    ASSUME IInv, NEW x \in Threads, Step(x)
    PROVE  TypesInv'
  <1> DEFINE t == th[x]
  <1>1. /\ io \in Memory /\ th \in [Threads -> Locals] /\ t \in Locals
        /\ said \in [Threads -> Seq(AllChars)]
    BY DEF IInv, TypesInv
  <1>2. UNCHANGED <<vga, k, intr>> BY DEF Step
  <1>3. Runs(x) /\ Printing(x) BY DEF Step
  <1>4. said' \in [Threads -> Seq(AllChars)]
    <2>1. t.c \in AllChars /\ said[x] \in Seq(AllChars) BY <1>1 DEF Locals
    <2>2. Append(said[x], t.c) \in Seq(AllChars) BY <2>1
    <2>3. said' = IF At(x, "put_char") THEN [said EXCEPT ![x] = Append(said[x], t.c)] ELSE said
      BY DEF Step
    <2> QED BY <1>1, <2>2, <2>3
  <1>5. DOMAIN hist' = {"text", "clean", "disturbed", "overrun"}
    BY DEF IInv, TypesInv, Step
  <1>6. io' \in Memory /\ th' \in [Threads -> Locals]
    <2> USE DEF At, Go, SetIo
    <2>0. /\ io.pos \in Places /\ io.pos.row \in Byte /\ io.pos.col \in Byte /\ io.color \in Colors
          /\ io.color \in Shades /\ io.crtc.index \in {"H", "L"} /\ t.pos \in Places
          /\ t.i \in Nat /\ t.n \in Nat /\ t.text \in Seq(Chars) /\ t.c \in AllChars
          /\ t.color \in Shades
      BY <1>1 DEF Memory, Locals, Places, Shades
    <2>a. \A b \in Byte : b \in Nat BY Sizes DEF Byte
    <2>b. io.pos.row + 1 \in Nat /\ io.pos.col + 1 \in Nat
      <3>1. \A b \in Byte : b + 1 \in Nat BY Sizes DEF Byte
      <3> QED BY <2>0, <3>1, Zenon
    <2>1. CASE get_color(x)
      <3>1. io' = io /\ th' = [th EXCEPT ![x] = [th[x] EXCEPT !.at = "set_color", !.saved = io.color]]
        BY <1>1, <2>1 DEF get_color
      <3>2. th[x] \in Locals /\ io.color \in Colors BY <1>1 DEF Memory
      <3>3. [th[x] EXCEPT !.at = "set_color", !.saved = io.color] \in Locals
        BY <3>2 DEF Locals, Labels
      <3> QED BY <1>1, <3>1, <3>3
    <2>2. CASE set_color(x) BY <1>1, <2>2 DEF set_color, Memory, Locals, Labels, ColorOf, Colors
    <2>3. CASE _vsnprintf(x)
      <3>1. CASE t.i < Len(t.text)
        <4>1. t.text[t.i + 1] \in AllChars
          <5>1. t.i + 1 \in 1 .. Len(t.text) BY <2>0, <3>1
          <5>2. t.text[t.i + 1] \in Chars BY <2>0, <5>1
          <5> QED BY <5>2 DEF AllChars
        <4>2. _out_buffer(t.text[t.i + 1], t.i) \in Memory BY <1>1, <4>1, Stores DEF _out_buffer
        <4>3. t.i + 1 \in Nat BY <2>0
        <4>4. io' = _out_buffer(t.text[t.i + 1], t.i) /\ th' = [th EXCEPT ![x].i = @ + 1]
          BY <2>3, <3>1 DEF _vsnprintf
        <4> QED BY <1>1, <4>2, <4>3, <4>4, Assigns
      <3>2. CASE ~(t.i < Len(t.text))
        <4>1. NUL \in AllChars BY DEF AllChars
        <4>2. _out_buffer(NUL, TerminatorAt(t.i)) \in Memory BY <1>1, <4>1, Stores DEF _out_buffer
        <4>3. 0 \in 0 .. BUF_SIZE - 1 BY Sizes
        <4>4. th' = [th EXCEPT ![x].at = "strlen", ![x].i = 0, ![x].len = 0]
          BY <2>3, <3>2 DEF _vsnprintf
        <4> QED BY <1>1, <2>3, <3>2, <4>2, <4>3, <4>4 DEF _vsnprintf, Locals, Labels
      <3> QED BY <3>1, <3>2
    <2>4. CASE strlen(x)
      <3>0. io' = io BY <2>4 DEF strlen
      <3>1. CASE io.buf[t.len] # NUL
        <4>1. t.len < BUF_SIZE - 1
          <5>1. t.len <= End(x) /\ io.buf[End(x)] = NUL BY <1>3, <2>4 DEF strlen, IInv, BufferInv
          <5>2. t.len \in Nat /\ End(x) \in 0 .. BUF_SIZE - 1
            BY <1>1, <2>0, Sizes DEF End, TerminatorAt, Locals
          <5>3. t.len # End(x) BY <3>1, <5>1
          <5> QED BY <5>1, <5>2, <5>3, Sizes
        <4>2. t.len + 1 \in 0 .. BUF_SIZE - 1 BY <1>1, <4>1, Sizes DEF Locals
        <4>3. th' = [th EXCEPT ![x].len = @ + 1] BY <2>4, <3>1, Alternatives
        <4> QED BY <1>1, <3>0, <4>2, <4>3 DEF Locals
      <3>2. CASE io.buf[t.len] = NUL
        <4>1. th' = [th EXCEPT ![x].at = "write"] BY <2>4, <3>2, Alternatives
        <4> QED BY <1>1, <3>0, <4>1, Assigns DEF Labels
      <3> QED BY <3>1, <3>2
    <2>5. CASE write(x)
      <3>1. CASE t.i < t.len
        <4>1. t.i \in 0 .. BUF_SIZE - 1 BY <1>1, <2>0, <3>1, Sizes DEF Locals
        <4>2. io.buf[t.i] \in AllChars BY <1>1, <4>1 DEF Memory
        <4>3. t.i + 1 \in Nat BY <2>0
        <4>4. /\ th' = [th EXCEPT ![x].at = "put_char", ![x].c = io.buf[t.i], ![x].i = t.i + 1]
              /\ io' = io
          BY <2>5, <3>1 DEF write
        <4> QED BY <1>1, <4>2, <4>3, <4>4 DEF Locals, Labels
      <3>2. CASE ~(t.i < t.len)
        <4>1. th' = [th EXCEPT ![x].at = "bzero", ![x].i = 0] /\ io' = io BY <2>5, <3>2 DEF write
        <4> QED BY <1>1, <4>1 DEF Locals, Labels
      <3> QED BY <3>1, <3>2
    <2>6. CASE newline(x)
      <3>1. (io.pos.row + 1) % UINT8 \in Byte BY <2>b, InByte, Zenon
      <3> QED BY <1>1, <2>6, <3>1, Stores, Assigns DEF newline, Labels
    <2>7. CASE newline_col(x)
      <3>1. 0 \in Byte BY Sizes DEF Byte
      <3> QED BY <1>1, <2>7, <3>1, Stores, Assigns DEF newline_col, Labels
    <2>8. CASE tab(x)
      <3>1. TabStop(io.pos.col) \in Byte
        <4>1. io.pos.col + 4 - (io.pos.col % 4) \in Nat BY <2>0, <2>a
        <4> QED BY <4>1, InByte DEF TabStop
      <3> QED BY <1>1, <2>8, <3>1, Stores, Assigns DEF tab, Labels
    <2>9. CASE backspace(x)
      <3>1. CASE io.pos.col > 0
        <4>1. io.pos.col - 1 \in Byte BY <2>0, <3>1, Sizes DEF Byte
        <4>2. io' \in Memory BY <1>1, <2>9, <3>1, <4>1, Stores DEF backspace
        <4>3. Index(io.pos) - 1 \in Int BY <2>0, <2>a, Sizes DEF Index
        <4>4. " " \in AllChars BY DEF AllChars
        <4>5. PICK idx \in Int :
                th' = [th EXCEPT ![x].at = "erase", ![x].idx = idx, ![x].c = " ", ![x].color = io.color]
          BY <2>9, <3>1, <4>3 DEF backspace, Latch
        <4> QED BY <1>1, <2>0, <4>2, <4>4, <4>5 DEF Locals, Labels
      <3>2. CASE ~(io.pos.col > 0)
        <4>1. io' = io /\ th' = [th EXCEPT ![x].at = "scroll"] BY <2>9, <3>2 DEF backspace
        <4> QED BY <1>1, <4>1, Assigns DEF Labels
      <3> QED BY <3>1, <3>2
    <2>10. CASE put_char(x)
      <3>1. Index(io.pos) \in Int BY <2>0, <2>a, Sizes DEF Index
      <3>2. PICK idx \in Int : /\ io' = io
                               /\ th' = [th EXCEPT ![x].at = "entry", ![x].idx = idx, ![x].c = t.c, ![x].color = io.color]
        BY <2>10, <3>1 DEF put_char, Latch
      <3> QED BY <1>1, <2>0, <3>2 DEF Locals, Labels
    <2>11. CASE put_entry_at(x)
      <3>1. <<t.c, t.color>> \in AllChars \X Shades BY <2>0
      <3> QED BY <1>1, <2>11, <3>1, Stores, Assigns DEF put_entry_at, Labels
    <2>12. CASE serial_wait(x) BY <1>1, <2>12, Assigns DEF serial_wait, Labels
    <2>13. CASE serial_putc(x)
      <3>1. io' \in Memory BY <1>1, <2>13 DEF serial_putc, Memory
      <3>2. CR \in AllChars BY DEF AllChars
      <3>3. CASE t.c = NL
        <4>1. th' = [th EXCEPT ![x].at = "poll", ![x].c = CR] BY <2>13, <3>3 DEF serial_putc, NL, CR
        <4> QED BY <1>1, <3>1, <3>2, <4>1 DEF Locals, Labels
      <3>4. CASE t.c # NL
        <4>1. th' = [th EXCEPT ![x].at = "scroll"] \/ th' = [th EXCEPT ![x].at = "advance"]
          BY <2>13, <3>4 DEF serial_putc, NL, CR
        <4>2. "scroll" \in Labels /\ "advance" \in Labels BY DEF Labels
        <4> QED BY <1>1, <3>1, <4>1, <4>2, Assigns
      <3> QED BY <3>3, <3>4
    <2>14. CASE advance(x)
      <3>1. (io.pos.col + 1) % UINT8 \in Byte BY <2>b, InByte, Zenon
      <3> QED BY <1>1, <2>14, <3>1, Stores, Assigns DEF advance, Labels
    <2>15. CASE wrap_col(x)
      <3>1. 0 \in Byte BY Sizes DEF Byte
      <3> QED BY <1>1, <2>15, <3>1, Stores, Assigns DEF wrap_col, Labels
    <2>16. CASE wrap_row(x)
      <3>1. (io.pos.row + 1) % UINT8 \in Byte BY <2>b, InByte, Zenon
      <3> QED BY <1>1, <2>16, <3>1, Stores, Assigns DEF wrap_row, Labels
    <2>17. CASE scroll(x) BY <1>1, <2>17 DEF scroll, Locals, Labels
    <2>18. CASE scroll_copy(x)
      <3>1. CASE t.n < HEIGHT * WIDTH
        <4> DEFINE cell == IF t.n < (HEIGHT - 1) * WIDTH
                           THEN io.screen[t.n + WIDTH] ELSE <<" ", io.color>>
        <4>1. cell \in AllChars \X Shades
          <5>1. CASE t.n < (HEIGHT - 1) * WIDTH
            <6>1. (HEIGHT - 1) * WIDTH = HEIGHT * WIDTH - WIDTH BY Sizes
            <6>2. t.n + WIDTH \in Cells BY <2>0, <5>1, <6>1, Sizes DEF Cells
            <6> QED BY <1>1, <5>1, <6>2 DEF Memory
          <5>2. CASE ~(t.n < (HEIGHT - 1) * WIDTH)
            <6>1. " " \in AllChars BY DEF AllChars
            <6> QED BY <2>0, <5>2, <6>1
          <5> QED BY <5>1, <5>2
        <4>2. io' = [io EXCEPT !.screen[t.n] = cell] /\ th' = [th EXCEPT ![x].n = @ + 1]
          BY <2>18, <3>1 DEF scroll_copy
        <4>3. t.n + 1 \in Nat BY <2>0
        <4> HIDE DEF cell
        <4>4. io' \in Memory BY <1>1, <4>1, <4>2, Stores
        <4> QED BY <1>1, <4>2, <4>3, <4>4, Assigns
      <3>2. CASE ~(t.n < HEIGHT * WIDTH)
        <4>1. HEIGHT - 1 \in Byte BY Sizes DEF Byte
        <4>2. io' = [io EXCEPT !.pos.row = HEIGHT - 1] /\ th' = [th EXCEPT ![x].at = "set_pos"]
          BY <2>18, <3>2 DEF scroll_copy
        <4>3. io' \in Memory BY <1>1, <4>1, <4>2, Stores
        <4> QED BY <1>1, <4>2, <4>3, Assigns DEF Labels
      <3> QED BY <3>1, <3>2
    <2>19. CASE set_pos(x) BY <1>1, <2>0, <2>19 DEF set_pos, Locals, Labels
    <2>20. CASE store(x) BY <1>1, <2>0, <2>20, Stores, Assigns DEF store, Labels
    <2>21. CASE Select(x)
      <3>1. io' = [io EXCEPT !.crtc.index = "H"] \/ io' = [io EXCEPT !.crtc.index = "L"]
        BY <2>21 DEF Select
      <3>2. io' \in Memory BY <1>1, <3>1, Stores
      <3>3. \E l \in {"data_H", "data_L"} : th' = [th EXCEPT ![x].at = l] BY <2>21 DEF Select
      <3>4. {"data_H", "data_L"} \subseteq Labels BY DEF Labels
      <3> QED BY <1>1, <3>2, <3>3, <3>4, Assigns
    <2>22. CASE CursorData(x)
      <3>1. t.pos.row <= HEIGHT
        <4>1. t.pos.row < HEIGHT BY <2>22 DEF CursorData, IInv, RowInv, SetPos
        <4>2. t.pos.row \in Nat BY <2>0, <2>a DEF Places
        <4> QED BY <4>1, <4>2, Sizes
      <3>2. Index(t.pos) \div UINT8 \in Byte /\ Index(t.pos) % UINT8 \in Byte BY <2>0, <3>1, CursorBytes
      <3>3. io' \in Memory
        <4>1. PICK v \in Byte : io' = [io EXCEPT !.crtc[io.crtc.index] = v] BY <2>22, <3>2 DEF CursorData
        <4>2. PICK r \in {"H", "L"} : r = io.crtc.index BY <2>0
        <4>3. [io EXCEPT !.crtc[r] = v] \in Memory BY <1>1, Stores
        <4> QED BY <4>1, <4>2, <4>3
      <3>4. AfterSetPos(x) \in Labels BY DEF AfterSetPos, Labels
      <3>5. "select_L" \in Labels BY DEF Labels
      <3>6. \E l \in Labels : th' = [th EXCEPT ![x].at = l] BY <2>22, <3>4, <3>5 DEF CursorData
      <3> QED BY <1>1, <3>3, <3>6, Assigns
    <2>23. CASE bzero(x)
      <3>1. CASE t.i < BUF_SIZE
        <4>1. NUL \in AllChars BY DEF AllChars
        <4>2. t.i + 1 \in Nat BY <2>0
        <4>3. io' = [io EXCEPT !.buf[t.i] = NUL] /\ th' = [th EXCEPT ![x].i = @ + 1]
          BY <2>23, <3>1 DEF bzero
        <4>4. io' \in Memory BY <1>1, <4>1, <4>3, Stores
        <4> QED BY <1>1, <4>2, <4>3, <4>4, Assigns
      <3>2. CASE ~(t.i < BUF_SIZE)
        <4>1. io' = io /\ \E l \in {"idle", "restore"} : th' = [th EXCEPT ![x].at = l]
          BY <2>23, <3>2 DEF bzero
        <4>2. {"idle", "restore"} \subseteq Labels BY DEF Labels
        <4> QED BY <1>1, <4>1, <4>2, Assigns
      <3> QED BY <3>1, <3>2
    <2>24. CASE restore_color(x)
      <3>1. io' \in Memory BY <1>1, <2>24 DEF restore_color, Memory, Locals
      <3>2. Ended(x) \in Labels BY DEF Ended, Labels
      <3> QED BY <1>1, <2>24, <3>1, <3>2, Assigns DEF restore_color
    <2>25. CASE clear(x)
      <3>1. CASE t.n < HEIGHT * WIDTH
        <4>1. <<" ", io.color>> \in AllChars \X Shades BY <2>0 DEF AllChars
        <4>2. t.n + 1 \in Nat BY <2>0
        <4>3. io' = [io EXCEPT !.screen[t.n] = <<" ", io.color>>] /\ th' = [th EXCEPT ![x].n = @ + 1]
          BY <2>25, <3>1 DEF clear
        <4>4. io' \in Memory BY <1>1, <4>1, <4>3, Stores
        <4> QED BY <1>1, <4>2, <4>3, <4>4, Assigns
      <3>2. CASE ~(t.n < HEIGHT * WIDTH)
        <4>1. Home \in Places BY Sizes DEF Home, Places, Byte
        <4>2. io' = io /\ th' = [th EXCEPT ![x].at = "store", ![x].pos = Home] BY <2>25, <3>2 DEF clear
        <4> QED BY <1>1, <4>1, <4>2 DEF Locals, Labels
      <3> QED BY <3>1, <3>2
    <2> QED
      BY <1>3, <2>1, <2>2, <2>3, <2>4, <2>5, <2>6, <2>7, <2>8, <2>9, <2>10, <2>11, <2>12, <2>13,
         <2>14, <2>15, <2>16, <2>17, <2>18, <2>19, <2>20, <2>21, <2>22, <2>23, <2>24, <2>25
      DEF Printing, escapeconv
  <1> QED BY <1>2, <1>4, <1>5, <1>6 DEF IInv, TypesInv

LEMMA StepControl ==
    ASSUME IInv, NEW x \in Threads, Step(x)
    PROVE  ControlInv'
  <1>1. TypesInv /\ ControlInv BY DEF IInv
  <1>2. Printing(x) /\ UNCHANGED <<k, intr>> BY DEF Step
  <1>3. k.pc \in {"main", "hlt"} BY <1>1, <1>2, ColourEffect DEF ControlInv, Resting, Idle, Threads
  <1>4. CASE x = "kernel"
    <2>1. th'["handler"] = th["handler"] BY <1>1, <1>2, <1>4, ColourEffect DEF Threads
    <2>2. /\ th'["kernel"].fn = th["kernel"].fn
          /\ th'["kernel"].at = "restore" => th["kernel"].fn # "printf"
          /\ th'["kernel"].at = "clear" => th["kernel"].at = "clear"
          /\ th["kernel"].at # "idle"
          /\ th["kernel"].at \in {"clear"} \cup SetPos /\ th["kernel"].fn = "clear"
                => th'["kernel"].at \in {"clear", "idle"} \cup SetPos
      BY <1>1, <1>2, <1>4, ColourEffect
    <2> QED BY <1>1, <1>2, <1>3, <2>1, <2>2 DEF ControlInv, Idle, Threads
  <1>5. CASE x = "handler"
    <2>1. th'["kernel"] = th["kernel"] BY <1>1, <1>2, <1>5, ColourEffect DEF Threads
    <2>2. /\ th'["handler"].fn = th["handler"].fn
          /\ th'["handler"].at = "clear" => th["handler"].at = "clear"
          /\ th["handler"].at # "idle"
      BY <1>1, <1>2, <1>5, ColourEffect
    <2> QED BY <1>1, <1>2, <1>3, <2>1, <2>2 DEF ControlInv, Idle, Threads
  <1> QED BY <1>4, <1>5 DEF Threads

LEMMA StepColour ==
    ASSUME IInv, NEW x \in Threads, Step(x)
    PROVE  ColourInv'
  <1> DEFINE t == th[x]
             u == th'[x]
  <1>1. TypesInv /\ ControlInv /\ ColourInv BY DEF IInv
  <1>2. Printing(x) /\ Runs(x) /\ UNCHANGED k BY DEF Step
  <1>3. k.pc # "cpp_init" BY <1>1, <1>2, ColourEffect DEF ControlInv, Resting, Idle, Threads
  <1>4. /\ u.fn = t.fn /\ u.text = t.text
        /\ \A y \in Threads : y # x => th'[y] = th[y]
        /\ t.at \notin {"idle", "spin"}
        /\ io'.color = IF t.at = "set_color" THEN ColorOf(t.fn)
                       ELSE IF t.at = "restore" THEN t.saved ELSE io.color
        /\ u.saved = IF t.at = "get_color" THEN io.color ELSE t.saved
        /\ u.at = "entry" => t.at = "put_char" /\ u.color = io.color
        /\ t.at = "get_color" => u.at = "set_color"
        /\ t.at = "set_color" => u.at = "format"
        /\ t.at = "restore" => u.at \in {"idle", "spin"}
        /\ u.at \in Ready => \/ t.at \in {"get_color", "restore"}
                             \/ t.at = "bzero" /\ t.fn = "printf"
                             \/ t.at = "data_L" /\ t.fn = "clear"
        /\ u.at = "restore" => t.at = "bzero" /\ t.fn # "printf"
    BY <1>1, <1>2, ColourEffect
  <1>5. ColorOf("printf") = WHITE /\ ColorOf("clear") = WHITE BY DEF ColorOf
  <1>6. CASE x = "kernel"
    <2>1. th'["handler"] = th["handler"] /\ th["handler"].at = "idle"
      BY <1>2, <1>4, <1>6 DEF Threads, Runs, Idle
    <2>2. io.color = KernelColor BY <1>1, <1>3, <2>1 DEF ColourInv, Ready
    <2>3. t.at = "restore" => t.saved = WHITE BY <1>1, <1>6 DEF ColourInv, ControlInv, SetPos
    <2>4. io'.color = KernelColor'
      BY <1>4, <1>5, <1>6, <2>2, <2>3 DEF KernelColor, Ready
    <2>5. u.at \notin {"idle", "spin", "get_color"} /\ u.fn \notin {"printf", "clear"} => u.saved = WHITE
      BY <1>1, <1>4, <1>6, <2>2 DEF ColourInv, KernelColor, Ready
    <2>6. u.at = "entry" => u.color = ColorOf(u.fn)
      BY <1>4, <1>6, <2>2 DEF KernelColor, Ready
    <2> QED BY <1>1, <1>6, <2>1, <2>4, <2>5, <2>6 DEF ColourInv, Threads, Ready
  <1>7. CASE x = "handler"
    <2>1. th'["kernel"] = th["kernel"] /\ KernelColor' = KernelColor
      BY <1>4, <1>7 DEF Threads, KernelColor
    <2>2. t.fn = "info" BY <1>1, <1>4, <1>7 DEF ControlInv, Idle
    <2>3. io.color = IF t.at \in Ready THEN KernelColor ELSE ColorOf(t.fn)
      BY <1>1, <1>3, <1>7 DEF ColourInv
    <2>4. t.at \notin {"idle", "spin", "get_color"} => t.saved = KernelColor
      BY <1>1, <1>7 DEF ColourInv
    <2>5. io'.color = IF u.at \in Ready THEN KernelColor ELSE ColorOf(u.fn)
      BY <1>4, <2>2, <2>3, <2>4 DEF Ready
    <2>6. u.at \notin {"idle", "spin", "get_color"} => u.saved = KernelColor
      BY <1>4, <2>3, <2>4 DEF Ready
    <2>7. u.at = "entry" => u.color = ColorOf(u.fn) BY <1>4, <2>3 DEF Ready
    <2> QED BY <1>1, <1>7, <2>1, <2>5, <2>6, <2>7 DEF ColourInv, Threads
  <1> QED BY <1>6, <1>7 DEF Threads

LEMMA StepRow ==
    ASSUME IInv, NEW x \in Threads, Step(x)
    PROVE  RowInv'
  <1> DEFINE t == th[x]
             u == th'[x]
             row == io.pos.row
             Was  == IF t.at \in {"newline_col", "scroll", "copy"}
                         \/ (t.at \in {"poll", "outb"} /\ t.c \in {NL, CR}) THEN 1 ELSE 0
             Will == IF u.at \in {"newline_col", "scroll", "copy"}
                         \/ (u.at \in {"poll", "outb"} /\ u.c \in {NL, CR}) THEN 1 ELSE 0
  <1>1. TypesInv /\ RowInv BY DEF IInv
  <1>2. Printing(x) /\ Runs(x) BY DEF Step
  <1>3. io.pos \in Places /\ row \in Nat /\ row < UINT8 /\ t.pos.row \in Nat
    <2>1. io.pos \in Places /\ t.pos \in Places BY <1>1 DEF TypesInv, Memory, Locals
    <2>2. row \in Byte /\ t.pos.row \in Byte BY <2>1 DEF Places
    <2>3. \A b \in Byte : b \in Nat /\ b < UINT8 BY Sizes DEF Byte
    <2> QED BY <2>1, <2>2, <2>3, Zenon
  <1>4. \A y \in Threads : y # x => th'[y] = th[y] BY <1>1, <1>2, ColourEffect
  (* b: how far the other thread has moved the row below the screen. *)
  <1>5. PICK b \in {0, 1} :
          /\ row <= HEIGHT - 1 + Was + b
          /\ io'.pos.row <= HEIGHT - 1 + Will + b => io'.pos.row <= HEIGHT - 1 + Below("kernel")' + Below("handler")'
          /\ x = "kernel" => b = 0
    <2>1. CASE x = "kernel"
      <3>1. th["handler"].at = "idle" /\ th'["handler"] = th["handler"]
        BY <1>2, <1>4, <2>1 DEF Runs, Idle, Threads
      <3>2. Below("handler") = 0 /\ Below("handler")' = 0 BY <3>1 DEF Below
      <3>3. Below("kernel") = Was /\ Below("kernel")' = Will BY <2>1 DEF Below
      <3>4. row <= HEIGHT - 1 + Was + 0 BY <1>1, <3>2, <3>3 DEF RowInv
      <3> QED BY <3>2, <3>3, <3>4
    <2>2. CASE x = "handler"
      <3>1. th'["kernel"] = th["kernel"] BY <1>4, <2>2 DEF Threads
      <3>2. Below("kernel")' = Below("kernel") /\ Below("kernel") \in {0, 1} BY <3>1 DEF Below
      <3>3. Below("handler") = Was /\ Below("handler")' = Will BY <2>2 DEF Below
      <3>4. Was \in {0, 1} /\ Will \in {0, 1} OBVIOUS
      <3> HIDE DEF Was, Will
      <3>5. row <= HEIGHT - 1 + Below("kernel") + Was BY <1>1, <3>3 DEF RowInv
      <3>6. HEIGHT - 1 + Below("kernel") + Was = HEIGHT - 1 + Was + Below("kernel")
        BY <3>2, <3>4, Sizes
      <3>7. HEIGHT - 1 + Below("kernel") + Will = HEIGHT - 1 + Will + Below("kernel")
        BY <3>2, <3>4, Sizes
      <3> QED BY <2>2, <3>2, <3>3, <3>5, <3>6, <3>7
    <2> QED BY <2>1, <2>2 DEF Threads
  <1>6. row + 1 < UINT8 \/ Was = 1 BY <1>3, <1>5, Sizes
  <1>7. row + 1 < UINT8 => (row + 1) % UINT8 = row + 1 BY <1>3, InByte
  <1>8. NL # CR BY DEF NL, CR
  <1>9. t.at = "set_pos" => row < HEIGHT
    <2>1. CASE x = "handler" BY <1>1, <2>1 DEF RowInv
    <2>2. CASE x = "kernel"
      <3> SUFFICES ASSUME t.at = "set_pos" PROVE row < HEIGHT OBVIOUS
      <3>1. Was = 0 OBVIOUS
      <3> HIDE DEF Was
      <3> QED BY <1>3, <1>5, <2>2, <3>1, Sizes
    <2> QED BY <2>1, <2>2 DEF Threads
  <1>10. t.at \in SetPos => t.pos.row < HEIGHT BY <1>1 DEF RowInv
  <1>11. io'.pos.row <= HEIGHT - 1 + Will + b
    <2> USE <1>3, <1>5, Sizes
    <2>1. CASE t.at = "put_char" /\ t.c = NL
      <3>1. io'.pos.row = (row + 1) % UINT8 /\ u.at = "newline_col" BY <1>1, <1>2, <2>1, RowEffect
      <3>2. Was = 0 /\ Will = 1 BY <2>1, <3>1
      <3> HIDE DEF Was, Will
      <3> QED BY <1>6, <1>7, <3>1, <3>2
    <2>2. CASE t.at = "wrap_row"
      <3>1. io'.pos.row = (row + 1) % UINT8 /\ u.at = "scroll" BY <1>1, <1>2, <2>2, RowEffect
      <3>2. Was = 0 /\ Will = 1 BY <2>2, <3>1
      <3> HIDE DEF Was, Will
      <3> QED BY <1>6, <1>7, <3>1, <3>2
    <2>3. CASE t.at = "store"
      <3>1. io'.pos.row = t.pos.row BY <1>1, <1>2, <2>3, RowEffect
      <3>2. Will \in {0, 1} OBVIOUS
      <3> HIDE DEF Was, Will
      <3> QED BY <1>10, <2>3, <3>1, <3>2 DEF SetPos
    <2>4. CASE t.at = "copy" /\ u.at = "set_pos"
      <3>1. io'.pos.row = HEIGHT - 1 BY <1>1, <1>2, <2>4, RowEffect
      <3>2. Will \in {0, 1} OBVIOUS
      <3> HIDE DEF Was, Will
      <3> QED BY <3>1, <3>2
    <2>5. CASE t.at = "scroll" /\ u.at = "set_pos"
      <3>1. io'.pos.row = row /\ ~(row >= HEIGHT) BY <1>1, <1>2, <2>5, RowEffect
      <3>2. Will \in {0, 1} OBVIOUS
      <3> HIDE DEF Was, Will
      <3> QED BY <3>1, <3>2
    <2>6. CASE /\ ~(t.at = "put_char" /\ t.c = NL) /\ t.at \notin {"wrap_row", "store"}
               /\ ~(t.at \in {"copy", "scroll"} /\ u.at = "set_pos")
      <3>1. io'.pos.row = row BY <1>1, <1>2, <2>6, RowEffect
      <3>2. Was = 1 => Will = 1
        BY <1>1, <1>2, <2>6, RowEffect DEF RowInv
      <3>3. Was \in {0, 1} /\ Will \in {0, 1} OBVIOUS
      <3> HIDE DEF Was, Will
      <3> QED BY <3>1, <3>2, <3>3
    <2> QED BY <2>1, <2>2, <2>3, <2>4, <2>5, <2>6
  <1>12. x = "handler" /\ u.at = "set_pos" => io'.pos.row < HEIGHT
    BY <1>1, <1>2, <1>3, Sizes, RowEffect
  <1>13. u.at = "newline_col" => u.c = NL BY <1>1, <1>2, RowEffect
  <1>14. u.at \in {"entry", "erase"} => u.idx \in Cells
    <2> SUFFICES ASSUME u.at \in {"entry", "erase"} PROVE u.idx \in Cells OBVIOUS
    <2>1. /\ t.at = "put_char"
          /\ u.idx = Index(io.pos) \/ (io.pos.col > 0 /\ u.idx = Index(io.pos) - 1)
      BY <1>1, <1>2, RowEffect
    <2>2. Was = 0 BY <2>1
    <2> HIDE DEF Was
    <2>3. row <= HEIGHT BY <1>3, <1>5, <2>2, Sizes
    <2> QED BY <1>3, <2>1, <2>3, PlaceIndex
  <1>15. u.at \in SetPos => u.pos.row < HEIGHT
    BY <1>1, <1>2, <1>9, <1>10, RowEffect, Sizes DEF Home
  <1>16. th'["handler"].at = "set_pos" => io'.pos.row < HEIGHT
    <2>1. CASE x = "handler" BY <1>12, <2>1
    <2>2. CASE x = "kernel" BY <1>2, <1>4, <2>2 DEF Runs, Idle, Threads
    <2> QED BY <2>1, <2>2 DEF Threads
  <1>17. ASSUME NEW y \in Threads
         PROVE  /\ th'[y].at = "newline_col" => th'[y].c = NL
                /\ th'[y].at \in {"entry", "erase"} => th'[y].idx \in Cells
                /\ th'[y].at \in SetPos => th'[y].pos.row < HEIGHT
    <2>1. CASE y = x BY <1>13, <1>14, <1>15, <2>1
    <2>2. CASE y # x BY <1>1, <1>4, <2>2 DEF RowInv
    <2> QED BY <2>1, <2>2
  <1>18. io'.pos.row <= HEIGHT - 1 + Below("kernel")' + Below("handler")' BY <1>5, <1>11
  <1> QED BY <1>16, <1>17, <1>18 DEF RowInv

LEMMA EndInBuffer ==
    ASSUME TypesInv, NEW y \in Threads
    PROVE  End(y) \in 0 .. BUF_SIZE - 1 /\ Len(th[y].text) \in Nat /\ End(y) <= Len(th[y].text)
  <1>1. th[y].text \in Seq(Chars) BY DEF TypesInv, Locals
  <1>2. Len(th[y].text) \in Nat BY <1>1
  <1> QED BY <1>2, Sizes DEF End, TerminatorAt

LEMMA StepBuffer ==
    ASSUME IInv, NEW x \in Threads, Step(x)
    PROVE  BufferInv'
  <1> DEFINE t == th[x]
             u == th'[x]
             Zeroed(n) == \A j \in 0 .. BUF_SIZE - 1 : j < n => io'.buf[j] = NUL
  <1>1. TypesInv /\ ControlInv /\ BufferInv BY DEF IInv
  <1>2. Printing(x) /\ Runs(x) BY DEF Step
  <1>3. /\ \A y \in Threads : y # x => th'[y] = th[y]
        /\ u.fn = t.fn /\ u.text = t.text /\ t.at \notin {"idle", "spin"}
        /\ u.at = "restore" => t.at = "bzero"
        /\ u.at \in Ready => \/ t.at \in {"get_color", "restore"}
                             \/ t.at = "bzero" /\ t.fn = "printf"
                             \/ t.at = "data_L" /\ t.fn = "clear"
    BY <1>1, <1>2, ColourEffect
  <1>4. /\ io.buf \in [0 .. BUF_SIZE - 1 -> AllChars] /\ t.i \in Nat /\ t.len \in Nat
        /\ End(x) \in 0 .. BUF_SIZE - 1 /\ Len(t.text) \in Nat
    <2>1. io.buf \in [0 .. BUF_SIZE - 1 -> AllChars] BY <1>1 DEF TypesInv, Memory
    <2>2. t.i \in Nat /\ t.len \in Nat BY <1>1, Sizes DEF TypesInv, Locals
    <2> QED BY <1>1, <2>1, <2>2, EndInBuffer
  <1>5. End(x)' = End(x) BY <1>3 DEF End
  <1>6. t.at \notin {"format", "bzero"} => io'.buf = io.buf BY <1>1, <1>2, BufferEffect
  <1>7. t.at = "bzero" => \/ /\ t.i < BUF_SIZE /\ u.at = "bzero" /\ u.i = t.i + 1
                             /\ io'.buf = [io.buf EXCEPT ![t.i] = NUL]
                          \/ ~(t.i < BUF_SIZE) /\ u.at \in {"idle", "restore"} /\ io'.buf = io.buf
    BY <1>1, <1>2, BufferEffect
  <1>8. t.at = "bzero" => Zero(t.i) BY <1>1, <1>2 DEF BufferInv
  <1>9. t.at = "restore" => Zero(BUF_SIZE) BY <1>1, <1>2 DEF BufferInv
  <1>10. u.at = "idle" \/ u.at = "restore" => Zeroed(BUF_SIZE)
    <2>1. CASE u.at = "idle" /\ t.at = "restore" BY <1>6, <1>9, <2>1 DEF Zero
    <2>2. CASE t.at = "bzero" /\ u.at \in {"idle", "restore"}
      <3>1. ~(t.i < BUF_SIZE) /\ io'.buf = io.buf BY <1>7, <2>2
      <3>2. \A j \in 0 .. BUF_SIZE - 1 : j < t.i BY <1>4, <3>1, Sizes
      <3> QED BY <1>8, <2>2, <3>1, <3>2 DEF Zero
    <2>3. CASE t.at = "data_L" /\ t.fn = "clear"
      <3>1. x = "kernel" BY <1>1, <1>3, <2>3 DEF ControlInv, Idle, Threads
      <3>2. Zero(BUF_SIZE) BY <1>1, <1>2, <2>3, <3>1 DEF BufferInv, Runs
      <3> QED BY <1>6, <2>3, <3>2 DEF Zero
    <2>4. u.at = "idle" => t.at # "get_color" BY <1>1, <1>2, ColourEffect
    <2> QED BY <1>3, <2>1, <2>2, <2>3, <2>4 DEF Ready
  <1>11. u.at \in {"get_color", "set_color"} => u.i = 0
    BY <1>1, <1>2, BufferEffect DEF BufferInv
  <1>12. u.at = "format" => u.i <= Len(u.text)
    <2> SUFFICES ASSUME u.at = "format" PROVE u.i <= Len(t.text) BY <1>3
    <2>1. CASE t.at = "set_color"
      <3>1. u.i = 0 BY <1>1, <1>2, <2>1, BufferEffect DEF BufferInv
      <3> QED BY <1>4, <3>1
    <2>2. CASE t.at = "format"
      <3>1. t.i < Len(t.text) /\ u.i = t.i + 1 BY <1>1, <1>2, <2>2, BufferEffect
      <3> QED BY <1>4, <3>1
    <2> QED BY <1>1, <1>2, <2>1, <2>2, BufferEffect
  <1>13. u.at = "strlen" => u.len <= End(x) /\ io'.buf[End(x)] = NUL
    <2> SUFFICES ASSUME u.at = "strlen" PROVE u.len <= End(x) /\ io'.buf[End(x)] = NUL OBVIOUS
    <2>1. CASE t.at = "format"
      <3>1. ~(t.i < Len(t.text)) /\ u.len = 0 /\ io' = _out_buffer(NUL, TerminatorAt(t.i))
        BY <1>1, <1>2, <2>1, BufferEffect
      <3>2. t.i = Len(t.text)
        <4>1. t.i <= Len(t.text) BY <1>1, <2>1 DEF BufferInv
        <4> QED BY <1>4, <3>1, <4>1
      <3>3. io' = [io EXCEPT !.buf[End(x)] = NUL]
        <4>1. TerminatorAt(t.i) = End(x) BY <3>2 DEF End
        <4>2. End(x) < BUF_SIZE BY <1>4, Sizes
        <4> QED BY <3>1, <4>1, <4>2 DEF _out_buffer
      <3>4. io'.buf = [io.buf EXCEPT ![End(x)] = NUL] BY <1>1, <3>3 DEF TypesInv, Memory
      <3>5. io'.buf[End(x)] = NUL BY <1>4, <3>4
      <3>6. 0 <= End(x) BY <1>4, Sizes
      <3> QED BY <3>1, <3>5, <3>6
    <2>2. CASE t.at = "strlen"
      <3>1. io.buf[t.len] # NUL /\ u.len = t.len + 1 BY <1>1, <1>2, <2>2, BufferEffect
      <3>2. t.len <= End(x) /\ io.buf[End(x)] = NUL BY <1>1, <1>2, <2>2 DEF BufferInv
      <3>3. t.len # End(x) BY <3>1, <3>2
      <3> QED BY <1>4, <1>6, <2>2, <3>1, <3>2, <3>3
    <2> QED BY <1>1, <1>2, <2>1, <2>2, BufferEffect
  <1>14. u.at = "bzero" => Zeroed(u.i)
    <2>1. CASE t.at = "bzero" /\ u.at = "bzero"
      <3>1. /\ t.i < BUF_SIZE /\ u.i = t.i + 1
            /\ io'.buf = [io.buf EXCEPT ![t.i] = NUL]
        BY <1>7, <2>1
      <3>2. \A j \in 0 .. BUF_SIZE - 1 : j < u.i => j < t.i \/ j = t.i BY <1>4, <3>1
      <3>3. \A j \in 0 .. BUF_SIZE - 1 : io'.buf[j] = IF j = t.i THEN NUL ELSE io.buf[j] BY <1>4, <3>1
      <3> QED BY <1>8, <2>1, <3>2, <3>3 DEF Zero
    <2>2. CASE t.at = "write" /\ u.at = "bzero"
      <3>1. u.i = 0 BY <1>1, <1>2, <2>2, BufferEffect
      <3> QED BY <3>1
    <2> QED BY <1>1, <1>2, <2>1, <2>2, BufferEffect
  (* When a handler has ended, the buffer is empty for whom it interrupted. *)
  <1>15. ASSUME NEW y \in Threads, y # x, Runs(y)', th'[y].at # "idle"
         PROVE  Zeroed(BUF_SIZE)
    <2>1. x = "handler" BY <1>2, <1>3, <1>15 DEF Runs, Idle, Threads
    <2>2. u.at = "idle" BY <1>15, <2>1 DEF Runs, Idle, Threads
    <2> QED BY <1>10, <2>2
  <1>16. Resting' => Zeroed(BUF_SIZE) BY <1>10 DEF Resting, Idle, Threads
  <1>17. th'["kernel"].fn = "clear" /\ Idle("handler")' => Zeroed(BUF_SIZE)
    <2> SUFFICES ASSUME th'["kernel"].fn = "clear", Idle("handler")' PROVE Zeroed(BUF_SIZE) OBVIOUS
    <2>1. CASE x = "handler" BY <1>10, <2>1 DEF Idle
    <2>2. CASE x = "kernel"
      <3>1. Zero(BUF_SIZE) BY <1>1, <1>2, <1>3, <2>2 DEF BufferInv, Runs
      <3>2. t.at \notin {"format", "bzero"} BY <1>1, <1>3, <2>2 DEF ControlInv, SetPos
      <3> QED BY <1>6, <3>1, <3>2 DEF Zero
    <2> QED BY <2>1, <2>2 DEF Threads
  <1>18. ASSUME NEW y \in Threads
         PROVE  /\ th'[y].at \in {"get_color", "set_color"} => th'[y].i = 0
                /\ th'[y].at = "format" => th'[y].i <= Len(th'[y].text)
                /\ th'[y].at = "strlen" => th'[y].len <= End(y)'
                /\ Runs(y)' /\ th'[y].at = "strlen" => io'.buf[End(y)'] = NUL
                /\ Runs(y)' /\ th'[y].at = "bzero" => Zeroed(th'[y].i)
                /\ Runs(y)' /\ th'[y].at = "restore" => Zeroed(BUF_SIZE)
    <2>1. CASE y = x BY <1>5, <1>10, <1>11, <1>12, <1>13, <1>14, <2>1
    <2>2. CASE y # x
      <3>1. th'[y] = th[y] /\ End(y)' = End(y) BY <1>3, <2>2 DEF End
      <3>2. End(y) \in 0 .. BUF_SIZE - 1 /\ End(y) < BUF_SIZE BY <1>1, EndInBuffer, Sizes
      <3>3. Runs(y)' /\ th'[y].at = "strlen" => io'.buf[End(y)'] = NUL
        BY <1>15, <2>2, <3>1, <3>2
      <3>4. \A n : \A j \in 0 .. BUF_SIZE - 1 : j < n /\ Zeroed(BUF_SIZE) => io'.buf[j] = NUL
        BY Sizes
      <3>5. Runs(y)' /\ th'[y].at = "bzero" => Zeroed(th'[y].i) BY <1>15, <2>2, <3>4
      <3> HIDE DEF Zeroed
      <3> QED BY <1>1, <1>15, <2>2, <3>1, <3>3, <3>5 DEF BufferInv
    <2> QED BY <2>1, <2>2
  <1> QED BY <1>16, <1>17, <1>18 DEF BufferInv, Zero

(* A text up to some character, and that character. *)
LEMMA OneMore ==
    ASSUME NEW s \in Seq(Chars), NEW i \in 1 .. Len(s)
    PROVE  Append(SubSeq(s, 1, i - 1), s[i]) = SubSeq(s, 1, i)
  <1>1. Len(s) \in Nat /\ i \in Nat /\ i >= 1 OBVIOUS
  <1>2. SubSeq(s, 1, i - 1) = [j \in 1 .. i - 1 |-> s[j]] BY <1>1
  <1>3. SubSeq(s, 1, i) = [j \in 1 .. i |-> s[j]] BY <1>1
  <1>4. SubSeq(s, 1, i - 1) \in Seq(Chars) /\ Len(SubSeq(s, 1, i - 1)) = i - 1 BY <1>1
  <1> DEFINE a == Append(SubSeq(s, 1, i - 1), s[i])
  <1>5. s[i] \in Chars OBVIOUS
  <1>6. a \in Seq(Chars) /\ Len(a) = i BY <1>1, <1>4, <1>5
  <1>7. \A j \in 1 .. i : a[j] = s[j] BY <1>1, <1>2, <1>4
  <1>8. SubSeq(s, 1, i) \in Seq(Chars) /\ Len(SubSeq(s, 1, i)) = i BY <1>1
  <1>9. \A j \in 1 .. i : SubSeq(s, 1, i)[j] = s[j] BY <1>3
  <1> HIDE DEF a
  <1> QED BY <1>6, <1>7, <1>8, <1>9 DEF a

LEMMA NothingYet == ASSUME NEW s \in Seq(Chars) PROVE SubSeq(s, 1, 0) = <<>>
  OBVIOUS

LEMMA StepSaid ==
    ASSUME IInv, NEW x \in Threads, Step(x)
    PROVE  SaidInv'
  <1> DEFINE t == th[x]
             u == th'[x]
             text == th[x].text
             Held(n) == \A j \in 0 .. BUF_SIZE - 1 : j < n => io'.buf[j] = text[j + 1]
  <1>1. TypesInv /\ ControlInv /\ BufferInv /\ SaidInv BY DEF IInv
  <1>2. Printing(x) /\ Runs(x) BY DEF Step
  <1>3. hist'.disturbed = hist.disturbed BY <1>1 DEF Step, TypesInv
  <1>4. /\ \A y \in Threads : y # x => th'[y] = th[y]
        /\ u.fn = t.fn /\ u.text = text /\ t.at \notin {"idle", "spin"}
        /\ u.at \in Ready => \/ t.at \in {"get_color", "restore"}
                             \/ t.at = "bzero" /\ t.fn = "printf"
                             \/ t.at = "data_L" /\ t.fn = "clear"
        /\ u.at = "restore" => t.at = "bzero"
    BY <1>1, <1>2, ColourEffect
  <1>5. /\ io.buf \in [0 .. BUF_SIZE - 1 -> AllChars] /\ text \in Seq(Chars)
        /\ t.i \in Nat /\ t.len \in Nat
    <2>1. io.buf \in [0 .. BUF_SIZE - 1 -> AllChars] BY <1>1 DEF TypesInv, Memory
    <2>2. text \in Seq(Chars) BY <1>1 DEF TypesInv, Locals
    <2>3. t.i \in Nat /\ t.len \in Nat BY <1>1, Sizes DEF TypesInv, Locals
    <2> QED BY <2>1, <2>2, <2>3
  <1>6. /\ End(x) \in 0 .. BUF_SIZE - 1 /\ Len(text) \in Nat /\ End(x) <= Len(text)
        /\ End(x)' = End(x)
    BY <1>1, <1>4, EndInBuffer DEF End
  <1>7. /\ said'[x] = IF t.at = "put_char" THEN Append(said[x], t.c) ELSE said[x]
        /\ \A y \in Threads : y # x => said'[y] = said[y]
    <2>1. said \in [Threads -> Seq(AllChars)] BY <1>1 DEF TypesInv
    <2> QED BY <2>1 DEF Step, At
  <1>8. ~hist'.disturbed => Idle("kernel")' \/ Idle("handler")'
    <2> SUFFICES ASSUME ~hist'.disturbed PROVE Idle("kernel")' \/ Idle("handler")' OBVIOUS
    <2>1. Idle("kernel") \/ Idle("handler") BY <1>1, <1>3 DEF SaidInv
    <2> QED BY <1>4, <2>1 DEF Idle, Threads
  (* The other thread has nothing more to say, or is interrupted. *)
  <1>9. ASSUME NEW y \in Threads, y # x, Undisturbed(y)'
        PROVE  th'[y].at = "idle" /\ said'[y] = SubSeq(th'[y].text, 1, End(y)')
    <2>1. th'[y] = th[y] /\ End(y)' = End(y) /\ said'[y] = said[y] BY <1>4, <1>7, <1>9 DEF End
    <2>2. Undisturbed(y) BY <1>3, <1>9, <2>1 DEF Undisturbed
    <2>3. th[y].at = "idle"
      <3>1. CASE y = "handler" BY <1>2, <1>9, <3>1 DEF Runs, Idle
      <3>2. CASE y = "kernel"
        <4>1. ~hist.disturbed /\ x = "handler" BY <1>9, <2>2, <3>2 DEF Undisturbed, Threads
        <4>2. Idle("kernel") \/ Idle("handler") BY <1>1, <4>1 DEF SaidInv
        <4> QED BY <1>4, <3>2, <4>1, <4>2 DEF Idle
      <3> QED BY <3>1, <3>2 DEF Threads
    <2>4. said[y] = SubSeq(th[y].text, 1, End(y)) BY <1>1, <2>2, <2>3 DEF SaidInv
    <2> QED BY <2>1, <2>3, <2>4
  <1>10. ASSUME Undisturbed(x)'
         PROVE  /\ u.at \in {"get_color", "set_color"} => said'[x] = <<>>
                /\ u.at = "format" => said'[x] = <<>> /\ Held(u.i)
                /\ u.at = "strlen" => said'[x] = <<>> /\ u.i = 0 /\ Held(End(x))
                /\ u.at \in Writing => u.len = End(x) /\ Held(End(x)) /\ u.i <= End(x)
                /\ u.at = "put_char" =>
                      u.i >= 1 /\ u.c = text[u.i] /\ said'[x] = SubSeq(text, 1, u.i - 1)
                /\ u.at \in Writing \ {"put_char"} => said'[x] = SubSeq(text, 1, u.i)
                /\ u.at \in {"bzero", "restore", "idle", "spin"} => said'[x] = SubSeq(text, 1, End(x))
    <2>1. Undisturbed(x) /\ t.fn # "clear" BY <1>3, <1>4, <1>10 DEF Undisturbed
    <2>2. /\ t.at \in {"get_color", "set_color"} => said[x] = <<>>
          /\ t.at = "format" => said[x] = <<>> /\ Holds(x, t.i)
          /\ t.at = "strlen" => said[x] = <<>> /\ t.i = 0 /\ Holds(x, End(x))
          /\ t.at \in Writing => t.len = End(x) /\ Holds(x, End(x)) /\ t.i <= End(x)
          /\ t.at = "put_char" =>
                t.i >= 1 /\ t.c = text[t.i] /\ said[x] = SubSeq(text, 1, t.i - 1)
          /\ t.at \in Writing \ {"put_char"} => said[x] = SubSeq(text, 1, t.i)
          /\ t.at \in {"bzero", "restore"} => said[x] = SubSeq(text, 1, End(x))
      BY <1>1, <2>1 DEF SaidInv
    <2>3. t.at \notin {"format", "bzero"} => io'.buf = io.buf BY <1>1, <1>2, BufferEffect
    <2>4. \A n : t.at \notin {"format", "bzero"} /\ Holds(x, n) => Held(n) BY <2>3 DEF Holds
    <2>5. CASE t.at \in {"get_color", "set_color"}
      <3>1. u.at \in {"set_color", "format"} /\ u.i = t.i /\ said'[x] = <<>> /\ t.i = 0
        BY <1>1, <1>2, <1>7, <2>2, <2>5, ColourEffect, BufferEffect DEF BufferInv
      <3>2. Held(u.i) BY <3>1
      <3> HIDE DEF Held
      <3> QED BY <3>1, <3>2 DEF Writing, SetPos
    <2>6. CASE t.at = "format" /\ t.i < Len(text)
      <3>1. u.at = "format" /\ u.i = t.i + 1 /\ io' = _out_buffer(text[t.i + 1], t.i)
        BY <1>1, <1>2, <2>6, BufferEffect
      <3>2. \A j \in 0 .. BUF_SIZE - 1 : io'.buf[j] = IF j = t.i THEN text[t.i + 1] ELSE io.buf[j]
        <4>1. CASE t.i < BUF_SIZE
          <5>1. io' = [io EXCEPT !.buf[t.i] = text[t.i + 1]] BY <3>1, <4>1 DEF _out_buffer
          <5>2. io'.buf = [io.buf EXCEPT ![t.i] = text[t.i + 1]] BY <1>1, <5>1 DEF TypesInv, Memory
          <5> QED BY <1>5, <5>2
        <4>2. CASE ~(t.i < BUF_SIZE)
          <5>1. io' = io BY <3>1, <4>2 DEF _out_buffer
          <5>2. \A j \in 0 .. BUF_SIZE - 1 : j # t.i BY <1>5, <4>2, Sizes
          <5> QED BY <5>1, <5>2
        <4> QED BY <4>1, <4>2
      <3>3. \A j \in 0 .. BUF_SIZE - 1 : j < u.i => j < t.i \/ j = t.i BY <1>5, <3>1, Sizes
      <3>4. Held(u.i) BY <2>2, <2>6, <3>2, <3>3 DEF Holds
      <3>5. said'[x] = <<>> BY <1>7, <2>2, <2>6
      <3> HIDE DEF Held
      <3> QED BY <3>1, <3>4, <3>5 DEF Writing, SetPos
    <2>7. CASE t.at = "format" /\ ~(t.i < Len(text))
      <3>1. u.at = "strlen" /\ u.i = 0 /\ io' = _out_buffer(NUL, TerminatorAt(t.i))
        BY <1>1, <1>2, <2>7, BufferEffect
      <3>2. t.i = Len(text)
        <4>1. t.i <= Len(text) BY <1>1, <2>7 DEF BufferInv
        <4> QED BY <1>5, <1>6, <2>7, <4>1
      <3>3. TerminatorAt(t.i) = End(x) /\ End(x) < BUF_SIZE BY <1>6, <3>2, Sizes DEF End
      <3>4. io' = [io EXCEPT !.buf[End(x)] = NUL] BY <3>1, <3>3 DEF _out_buffer
      <3>5. io'.buf = [io.buf EXCEPT ![End(x)] = NUL] BY <1>1, <3>4 DEF TypesInv, Memory
      <3>6. \A j \in 0 .. BUF_SIZE - 1 : j < End(x) => j < t.i /\ io'.buf[j] = io.buf[j]
        <4>1. \A j \in 0 .. BUF_SIZE - 1 : j < End(x) => j < t.i /\ j # End(x)
          BY <1>5, <1>6, <3>2, Sizes
        <4>2. \A j \in 0 .. BUF_SIZE - 1 : j # End(x) => io'.buf[j] = io.buf[j] BY <1>5, <3>5
        <4> QED BY <4>1, <4>2
      <3>7. Held(End(x)) BY <2>2, <2>7, <3>6 DEF Holds
      <3>8. said'[x] = <<>> BY <1>7, <2>2, <2>7
      <3> HIDE DEF Held
      <3> QED BY <3>1, <3>7, <3>8 DEF Writing, SetPos
    <2>8. CASE t.at = "strlen"
      <3>1. Holds(x, End(x)) /\ Held(End(x)) /\ said'[x] = <<>> /\ t.i = 0 BY <1>7, <2>2, <2>4, <2>8
      <3>2. \/ u.at = "strlen" /\ u.i = t.i
            \/ u.at = "write" /\ u.i = t.i /\ io.buf[t.len] = NUL /\ u.len = t.len
        BY <1>1, <1>2, <2>8, BufferEffect
      <3>3. io.buf[t.len] = NUL => t.len = End(x)
        <4> SUFFICES ASSUME io.buf[t.len] = NUL, t.len # End(x) PROVE FALSE OBVIOUS
        <4>1. t.len <= End(x) BY <1>1, <2>8 DEF BufferInv
        <4>2. t.len \in 0 .. BUF_SIZE - 1 /\ t.len < End(x) /\ t.len + 1 \in 1 .. Len(text)
          BY <1>5, <1>6, <4>1, Sizes
        <4>3. io.buf[t.len] = text[t.len + 1] BY <3>1, <4>2 DEF Holds
        <4>4. text[t.len + 1] \in Chars BY <1>5, <4>2
        <4> QED BY <4>3, <4>4, TextsAssumption
      <3>4. SubSeq(text, 1, 0) = <<>> BY <1>5, NothingYet
      <3>5. 0 <= End(x) BY <1>6, Sizes
      <3> HIDE DEF Held
      <3> QED BY <3>1, <3>2, <3>3, <3>4, <3>5 DEF Writing, SetPos
    <2>9. CASE t.at = "write"
      <3>1. /\ t.len = End(x) /\ Holds(x, End(x)) /\ Held(End(x)) /\ t.i <= End(x)
            /\ said'[x] = SubSeq(text, 1, t.i)
        BY <1>7, <2>2, <2>4, <2>9 DEF Writing
      <3>2. CASE t.i < t.len
        <4>1. u.at = "put_char" /\ u.c = io.buf[t.i] /\ u.i = t.i + 1 /\ u.len = t.len
          BY <1>1, <1>2, <2>9, <3>2, BufferEffect
        <4>2. t.i \in 0 .. BUF_SIZE - 1 /\ t.i < End(x) BY <1>5, <1>6, <3>1, <3>2, Sizes
        <4>3. u.c = text[u.i] BY <3>1, <4>1, <4>2 DEF Holds
        <4>4. u.i >= 1 /\ u.i <= End(x) /\ u.i - 1 = t.i BY <1>5, <1>6, <4>1, <4>2
        <4> HIDE DEF Held
        <4> QED BY <3>1, <4>1, <4>3, <4>4 DEF Writing, SetPos
      <3>3. CASE ~(t.i < t.len)
        <4>1. u.at = "bzero" BY <1>1, <1>2, <2>9, <3>3, BufferEffect
        <4>2. t.i = End(x) BY <1>5, <1>6, <3>1, <3>3
        <4> HIDE DEF Held
        <4> QED BY <3>1, <4>1, <4>2 DEF Writing, SetPos
      <3> QED BY <3>2, <3>3
    <2>10. CASE t.at \in Writing \ {"write"}
      <3>1. /\ t.len = End(x) /\ Holds(x, End(x)) /\ t.i <= End(x) /\ t.at \notin {"format", "bzero"}
        BY <2>2, <2>10 DEF Writing, SetPos
      <3>2. u.i = t.i /\ u.len = t.len /\ u.at \in Writing \ {"put_char"}
        BY <1>1, <1>2, <2>1, <2>10, BufferEffect
      <3>3. said'[x] = SubSeq(text, 1, t.i)
        <4>1. CASE t.at = "put_char"
          <5>1. t.i \in 1 .. Len(text) BY <1>5, <1>6, <2>2, <3>1, <4>1
          <5>2. said'[x] = Append(SubSeq(text, 1, t.i - 1), text[t.i]) BY <1>7, <2>2, <4>1
          <5> QED BY <1>5, <5>1, <5>2, OneMore
        <4>2. CASE t.at # "put_char" BY <1>7, <2>2, <2>10, <4>2
        <4> QED BY <4>1, <4>2
      <3>4. Held(End(x)) BY <2>4, <3>1
      <3> HIDE DEF Held
      <3> QED BY <3>1, <3>2, <3>3, <3>4 DEF Writing, SetPos
    <2>11. CASE t.at \in {"bzero", "restore"}
      <3>1. said'[x] = SubSeq(text, 1, End(x)) BY <1>7, <2>2, <2>11
      <3>2. u.at \in {"bzero", "restore", "idle", "spin"}
        BY <1>1, <1>2, <2>11, BufferEffect, ColourEffect
      <3> HIDE DEF Held
      <3> QED BY <3>1, <3>2 DEF Writing, SetPos
    <2>12. t.at # "clear" BY <1>1, <2>1 DEF ControlInv
    <2>13. t.at \in Labels BY <1>1 DEF TypesInv, Locals
    <2> HIDE DEF Held
    <2> QED BY <1>4, <2>5, <2>6, <2>7, <2>8, <2>9, <2>10, <2>11, <2>12, <2>13 DEF Labels, Writing, SetPos
  <1>11. ASSUME NEW y \in Threads, Undisturbed(y)'
         PROVE  (/\ th[y].at \in {"get_color", "set_color"} => said[y] = <<>>
                 /\ th[y].at = "format" => said[y] = <<>> /\ Holds(y, th[y].i)
                 /\ th[y].at = "strlen" => said[y] = <<>> /\ th[y].i = 0 /\ Holds(y, End(y))
                 /\ th[y].at \in Writing =>
                       th[y].len = End(y) /\ Holds(y, End(y)) /\ th[y].i <= End(y)
                 /\ th[y].at = "put_char" =>
                       /\ th[y].i >= 1 /\ th[y].c = th[y].text[th[y].i]
                       /\ said[y] = SubSeq(th[y].text, 1, th[y].i - 1)
                 /\ th[y].at \in Writing \ {"put_char"} => said[y] = SubSeq(th[y].text, 1, th[y].i)
                 /\ th[y].at \in {"bzero", "restore", "idle", "spin"} =>
                       said[y] = SubSeq(th[y].text, 1, End(y)))'
    <2>1. CASE y = x
      <3>1. \A n : Held(n) <=> Holds(x, n)' BY <1>4 DEF Holds
      <3> HIDE DEF Held
      <3> QED BY <1>4, <1>6, <1>10, <1>11, <2>1, <3>1
    <2>2. CASE y # x
      <3>1. th'[y].at = "idle" /\ said'[y] = SubSeq(th'[y].text, 1, End(y)') BY <1>9, <1>11, <2>2
      <3> QED BY <3>1 DEF Writing, SetPos
    <2> QED BY <2>1, <2>2
  <1> QED BY <1>8, <1>11 DEF SaidInv

-----------------------------------------------------------------------------
LEMMA StepGoesOn ==
    ASSUME IInv, NEW x \in Threads, Step(x)
    PROVE  IInv'
  <1>1. BootInv'
    <2>1. BootInv /\ UNCHANGED boot_vars BY DEF IInv, Step
    <2> QED BY <2>1, BootGoesOn
  <1> QED
    BY <1>1, StepTypes, StepControl, StepColour, StepRow, StepBuffer, StepSaid DEF IInv

(* Nothing is printed: the threads, the buffer, the colour and the row stay. *)
LEMMA NobodyPrints ==
    ASSUME IInv, TypesInv', UNCHANGED <<th, said>>,
           k.pc \in {"main", "hlt"} => k'.pc \in {"main", "hlt"},
           k'.pc \in {"main", "hlt"} \/ ~intr'.on,
           k'.pc # "cpp_init" => k.pc # "cpp_init",
           io'.color = io.color, io'.pos = io.pos, io'.buf = io.buf,
           hist'.disturbed = hist.disturbed
    PROVE  ControlInv' /\ ColourInv' /\ RowInv' /\ BufferInv' /\ SaidInv'
  <1>1. ControlInv /\ ColourInv /\ RowInv /\ BufferInv /\ SaidInv BY DEF IInv
  <1>2. ControlInv' BY <1>1 DEF ControlInv, Resting, Idle
  <1>3. ColourInv' BY <1>1 DEF ColourInv, KernelColor
  <1>4. RowInv' BY <1>1 DEF RowInv, Below
  <1>5. BufferInv' BY <1>1 DEF BufferInv, Resting, Idle, Runs, Zero, End
  <1>6. SaidInv' BY <1>1 DEF SaidInv, Idle, Undisturbed, Holds, End
  <1> QED BY <1>2, <1>3, <1>4, <1>5, <1>6

(* Early boot: no thread prints yet. *)
LEMMA CppInitGoesOn ==
    ASSUME IInv, NEW file \in {"tui.cpp", "io.cpp"}, cpp_init(file)
    PROVE  IInv'
  <1>1. TypesInv /\ ControlInv /\ ColourInv /\ RowInv /\ BufferInv /\ SaidInv BY DEF IInv
  <1>2. /\ k.pc = "cpp_init" /\ io' = Constructed(file)
        /\ UNCHANGED <<boot_vars, vga, th, intr, said, hist>>
    BY DEF cpp_init
  <1>3. k' = [k EXCEPT !.ctors = @ \ {file}, !.pc = IF k.ctors = {file} THEN "test_vga" ELSE @]
    BY DEF cpp_init
  <1>4. DOMAIN k' = {"pc", "ctors", "todo"} /\ k'.pc \in {"cpp_init", "test_vga"}
    BY <1>1, <1>2, <1>3 DEF TypesInv
  <1>5. Resting /\ ~intr.on BY <1>1, <1>2 DEF ControlInv
  <1>6. Home \in Places /\ Home.row = 0 BY Sizes DEF Home, Places, Byte
  <1>7. io' \in Memory
    <2>1. Index(Home) \div UINT8 \in Byte /\ Index(Home) % UINT8 \in Byte
      BY <1>6, CursorBytes, Sizes
    <2>2. CursorAt(Home) \in [index : {"H", "L"}, H : Byte, L : Byte] BY <2>1 DEF CursorAt, Index
    <2>3. WHITE \in Colors BY DEF Colors
    <2>4. CASE file = "tui.cpp"
      <3>1. io' = [io EXCEPT !.pos = Home, !.color = WHITE] BY <1>2, <2>4 DEF Constructed
      <3> QED BY <1>1, <1>6, <2>3, <3>1 DEF TypesInv, Memory
    <2>5. CASE file = "io.cpp"
      <3>1. io' = [io EXCEPT !.pos = Home, !.color = WHITE, !.crtc = CursorAt(Home)]
        BY <1>2, <2>5 DEF Constructed
      <3> QED BY <1>1, <1>6, <2>2, <2>3, <3>1 DEF TypesInv, Memory
    <2> QED BY <2>4, <2>5
  <1>8. io'.color = WHITE /\ io'.pos = Home /\ io'.buf = io.buf
    BY <1>1, <1>2 DEF Constructed, TypesInv, Memory
  <1>9. TypesInv' BY <1>1, <1>2, <1>4, <1>7 DEF TypesInv
  <1>10. ControlInv' BY <1>1, <1>2, <1>4, <1>5 DEF ControlInv, Resting, Idle
  <1>11. ColourInv' BY <1>1, <1>2, <1>5, <1>8 DEF ColourInv, KernelColor, Resting, Idle, Ready, Threads
  <1>12. RowInv'
    <2>1. Below("kernel")' = 0 /\ Below("handler")' = 0 BY <1>2, <1>5 DEF Below, Resting, Idle
    <2>2. io'.pos.row <= HEIGHT - 1 + 0 + 0 BY <1>6, <1>8, Sizes
    <2> QED BY <1>1, <1>2, <1>5, <2>1, <2>2 DEF RowInv, Resting, Idle
  <1>13. BufferInv' BY <1>1, <1>2, <1>8 DEF BufferInv, Resting, Idle, Runs, Zero, End
  <1>14. SaidInv' BY <1>1, <1>2, <1>8 DEF SaidInv, Idle, Undisturbed, Holds, End
  <1>15. BootInv' BY <1>2, BootGoesOn DEF IInv
  <1> QED BY <1>9, <1>10, <1>11, <1>12, <1>13, <1>14, <1>15 DEF IInv

LEMMA VgaInitGoesOn ==
    ASSUME IInv, NEW from, NEW to, NEW todo, vga_init(from, to, todo),
           \/ from = "test_vga" /\ to = "vga" /\ todo \in Seq(Chars)
           \/ from = "clear" /\ to = "main" /\ todo \in Seq(Calls)
    PROVE  IInv'
  <1>1. TypesInv /\ ControlInv BY DEF IInv
  <1>2. /\ k.pc = from /\ k' = [k EXCEPT !.pc = to, !.todo = todo]
        /\ io' = [io EXCEPT !.screen = Cleared(@)] /\ vga' = [x |-> 0, y |-> 0]
        /\ hist' = [hist EXCEPT !.text = <<>>]
        /\ UNCHANGED <<boot_vars, th, intr, said>>
    BY DEF vga_init
  <1>3. DOMAIN k' = {"pc", "ctors", "todo"} /\ k'.pc = to /\ k'.todo = todo BY <1>1, <1>2 DEF TypesInv
  <1>4. io' \in Memory /\ io'.color = io.color /\ io'.pos = io.pos /\ io'.buf = io.buf
    <2>1. io.screen \in [Cells -> AllChars \X Shades] BY <1>1 DEF TypesInv, Memory
    <2>2. <<" ", VGA_WHITE>> \in AllChars \X Shades BY DEF AllChars, Shades
    <2>3. Cleared(io.screen) \in [Cells -> AllChars \X Shades] BY <2>1, <2>2 DEF Cleared
    <2> QED BY <1>1, <1>2, <2>3 DEF TypesInv, Memory
  <1>5. vga' \in [x : 0 .. WIDTH - 1, y : 0 .. HEIGHT - 1] BY <1>2, Sizes
  <1>6. DOMAIN hist' = DOMAIN hist /\ hist'.disturbed = hist.disturbed BY <1>1, <1>2 DEF TypesInv
  <1>7. TypesInv'
    <2>1. (k.pc = "vga" => k.todo \in Seq(Chars))' BY <1>3
    <2>2. (k.pc = "main" => k.todo \in Seq(Calls))' BY <1>3
    <2>3. k'.pc \in {"cpp_init", "test_vga", "vga", "clear", "main", "hlt"} BY <1>3
    <2> QED BY <1>1, <1>2, <1>3, <1>4, <1>5, <1>6, <2>1, <2>2, <2>3 DEF TypesInv
  <1>8. ~intr'.on BY <1>1, <1>2 DEF ControlInv
  <1>9. ControlInv' /\ ColourInv' /\ RowInv' /\ BufferInv' /\ SaidInv'
    BY <1>2, <1>3, <1>4, <1>6, <1>7, <1>8, NobodyPrints
  <1>10. BootInv' BY <1>2, BootGoesOn DEF IInv
  <1> QED BY <1>7, <1>9, <1>10 DEF IInv

LEMMA VgaPutcharGoesOn ==
    ASSUME IInv, vga_putchar
    PROVE  IInv'
  <1> DEFINE c == Head(k.todo)
             next == VgaNext(vga, c)
             drawn == IF c = NL THEN io.screen
                      ELSE [io.screen EXCEPT ![vga.y * WIDTH + vga.x] = <<c, VGA_WHITE>>]
             screen == IF next.y >= HEIGHT THEN Scrolled(drawn, VGA_WHITE) ELSE drawn
             Screens == [Cells -> AllChars \X Shades]
  <1>1. TypesInv /\ ControlInv BY DEF IInv
  <1>2. /\ k.pc = "vga" /\ k.todo # <<>> /\ k' = [k EXCEPT !.todo = Tail(@)]
        /\ io' = [io EXCEPT !.thr_full = TRUE, !.screen = screen]
        /\ vga' = IF next.y >= HEIGHT THEN [x |-> 0, y |-> HEIGHT - 1] ELSE next
        /\ hist' = [hist EXCEPT !.text = Append(@, c)]
        /\ UNCHANGED <<boot_vars, th, intr, said>>
    BY DEF vga_putchar
  <1>3. k.todo \in Seq(Chars) /\ c \in Chars /\ Tail(k.todo) \in Seq(Chars)
    BY <1>1, <1>2 DEF TypesInv
  <1>4. DOMAIN k' = {"pc", "ctors", "todo"} /\ k'.pc = "vga" /\ k'.todo \in Seq(Chars)
    BY <1>1, <1>2, <1>3 DEF TypesInv
  <1>5. io.screen \in Screens BY <1>1 DEF TypesInv, Memory
  <1>6. drawn \in Screens
    <2>1. <<c, VGA_WHITE>> \in AllChars \X Shades BY <1>3 DEF AllChars, Shades
    <2> HIDE DEF c
    <2> QED BY <1>5, <2>1
  <1>7. screen \in Screens
    <2>1. ASSUME NEW s \in Screens PROVE Scrolled(s, VGA_WHITE) \in Screens
      <3>1. ASSUME NEW x \in Cells, x < (HEIGHT - 1) * WIDTH PROVE s[x + WIDTH] \in AllChars \X Shades
        <4>1. (HEIGHT - 1) * WIDTH = HEIGHT * WIDTH - WIDTH BY Sizes
        <4>2. x + WIDTH \in Cells BY <3>1, <4>1, Sizes DEF Cells
        <4> QED BY <4>2
      <3>2. <<" ", VGA_WHITE>> \in AllChars \X Shades BY DEF AllChars, Shades
      <3>3. ASSUME NEW x \in Cells PROVE Scrolled(s, VGA_WHITE)[x] \in AllChars \X Shades
        <4> DEFINE low == x < (HEIGHT - 1) * WIDTH
                   last == x \in (HEIGHT - 1) * WIDTH .. HEIGHT * WIDTH - 1
        <4>1. ~(low /\ last)
          <5>1. (HEIGHT - 1) * WIDTH = HEIGHT * WIDTH - WIDTH BY Sizes
          <5> QED BY <5>1, Sizes DEF Cells
        <4>2. Scrolled(s, VGA_WHITE)[x] = CASE low -> s[x + WIDTH] [] last -> <<" ", VGA_WHITE>> [] OTHER -> s[x]
          BY DEF Scrolled
        <4> HIDE DEF last
        <4>3. CASE low BY <3>1, <4>1, <4>2, <4>3
        <4>4. CASE ~low /\ last BY <3>2, <4>2, <4>4
        <4>5. CASE ~low /\ ~last BY <4>2, <4>5
        <4> QED BY <4>3, <4>4, <4>5
      <3>4. Scrolled(s, VGA_WHITE) = [x \in Cells |-> Scrolled(s, VGA_WHITE)[x]] BY DEF Scrolled
      <3> QED BY <3>3, <3>4
    <2> HIDE DEF drawn, Screens
    <2> QED BY <1>6, <2>1
  <1>8. io' \in Memory /\ io'.color = io.color /\ io'.pos = io.pos /\ io'.buf = io.buf
    <2> HIDE DEF screen
    <2> QED BY <1>1, <1>2, <1>7 DEF TypesInv, Memory
  <1>9. vga' \in [x : 0 .. WIDTH - 1, y : 0 .. HEIGHT - 1]
    <2>1. vga \in [x : 0 .. WIDTH - 1, y : 0 .. HEIGHT - 1] BY <1>1 DEF TypesInv
    <2>2. next.y >= HEIGHT \/ next \in [x : 0 .. WIDTH - 1, y : 0 .. HEIGHT - 1]
      <3>1. CASE c = NL \/ vga.x + 1 = WIDTH
        <4>1. next = [x |-> 0, y |-> vga.y + 1] BY <3>1 DEF VgaNext
        <4> QED BY <2>1, <4>1, Sizes
      <3>2. CASE ~(c = NL \/ vga.x + 1 = WIDTH)
        <4>1. next = [vga EXCEPT !.x = @ + 1] BY <3>2 DEF VgaNext
        <4> QED BY <2>1, <3>2, <4>1, Sizes
      <3> QED BY <3>1, <3>2
    <2>3. [x |-> 0, y |-> HEIGHT - 1] \in [x : 0 .. WIDTH - 1, y : 0 .. HEIGHT - 1] BY Sizes
    <2> HIDE DEF next
    <2> QED BY <1>2, <2>2, <2>3
  <1>10. DOMAIN hist' = DOMAIN hist /\ hist'.disturbed = hist.disturbed BY <1>1, <1>2 DEF TypesInv
  <1>11. TypesInv' BY <1>1, <1>2, <1>4, <1>8, <1>9, <1>10 DEF TypesInv
  <1>12. ~intr'.on BY <1>1, <1>2 DEF ControlInv
  <1>13. ControlInv' /\ ColourInv' /\ RowInv' /\ BufferInv' /\ SaidInv'
    BY <1>2, <1>4, <1>8, <1>10, <1>11, <1>12, NobodyPrints
  <1>14. BootInv' BY <1>2, BootGoesOn DEF IInv
  <1> QED BY <1>11, <1>13, <1>14 DEF IInv

(* The steps of kernel_main between its messages, and of the serial line. *)
LEMMA QuietGoesOn ==
    ASSUME IInv, VgaDone \/ Halt \/ Transmit
    PROVE  IInv'
  <1>1. TypesInv /\ ControlInv BY DEF IInv
  <1>2. UNCHANGED <<boot_vars, vga, th, intr, said, hist>> BY DEF VgaDone, Halt, Transmit
  <1>3. io' \in Memory /\ io'.color = io.color /\ io'.pos = io.pos /\ io'.buf = io.buf
    <2>1. io' = io \/ io' = [io EXCEPT !.thr_full = FALSE] BY DEF VgaDone, Halt, Transmit
    <2>2. io \in Memory BY <1>1 DEF TypesInv
    <2>3. CASE io' = io BY <2>2, <2>3
    <2>4. CASE io' = [io EXCEPT !.thr_full = FALSE] BY <2>2, <2>4 DEF Memory
    <2> QED BY <2>1, <2>3, <2>4
  <1>4. \/ k' = k
        \/ k.pc = "vga" /\ k' = [k EXCEPT !.pc = "clear"]
        \/ k.pc = "main" /\ k' = [k EXCEPT !.pc = "hlt"]
    BY DEF VgaDone, Halt, Transmit
  <1>5. TypesInv'
    <2>1. DOMAIN k' = {"pc", "ctors", "todo"} BY <1>1, <1>4 DEF TypesInv
    <2>2. k' = k \/ k'.pc \in {"clear", "hlt"} BY <1>1, <1>4 DEF TypesInv
    <2>3. (k.pc = "vga" => k.todo \in Seq(Chars))' BY <1>1, <2>2 DEF TypesInv
    <2>4. (k.pc = "main" => k.todo \in Seq(Calls))' BY <1>1, <2>2 DEF TypesInv
    <2>5. k'.pc \in {"cpp_init", "test_vga", "vga", "clear", "main", "hlt"} BY <1>1, <2>2 DEF TypesInv
    <2> QED BY <1>1, <1>2, <1>3, <2>1, <2>3, <2>4, <2>5 DEF TypesInv
  <1>6. /\ k.pc \in {"main", "hlt"} => k'.pc \in {"main", "hlt"}
        /\ k'.pc \in {"main", "hlt"} \/ ~intr'.on
        /\ k'.pc # "cpp_init" => k.pc # "cpp_init"
    BY <1>1, <1>2, <1>4 DEF TypesInv, ControlInv
  <1>7. ControlInv' /\ ColourInv' /\ RowInv' /\ BufferInv' /\ SaidInv'
    BY <1>2, <1>3, <1>5, <1>6, NobodyPrints
  <1>8. BootInv' BY <1>2, BootGoesOn DEF IInv
  <1> QED BY <1>5, <1>7, <1>8 DEF IInv

(* kernel_main begins a message, or turns interrupts on. *)
LEMMA NextCallGoesOn ==
    ASSUME IInv, NextCall
    PROVE  IInv'
  <1> DEFINE call == Head(k.todo)
             new == Call(call.fn, call.text, EntryOf(call.fn))
  <1>1. TypesInv /\ ControlInv /\ ColourInv /\ RowInv /\ BufferInv /\ SaidInv BY DEF IInv
  <1>2. /\ Resting /\ k.pc = "main" /\ k.todo # <<>> /\ k' = [k EXCEPT !.todo = Tail(@)]
        /\ UNCHANGED <<boot_vars, io, vga>>
    BY DEF NextCall
  <1>3. call \in Calls /\ Tail(k.todo) \in Seq(Calls)
    <2>1. k.todo \in Seq(Calls) BY <1>1, <1>2 DEF TypesInv
    <2> QED BY <1>2, <2>1
  <1>4. DOMAIN k' = {"pc", "ctors", "todo"} /\ k'.pc = "main" /\ k'.todo \in Seq(Calls)
    BY <1>1, <1>2, <1>3 DEF TypesInv
  <1>5. BootInv' BY <1>2, BootGoesOn DEF IInv
  <1>6. CASE call.fn = "sti"
    <2>1. intr' = [intr EXCEPT !.on = TRUE] /\ UNCHANGED <<th, said, hist>> BY <1>6 DEF NextCall
    <2>2. intr' \in [on : BOOLEAN, ticks : 0 .. MaxTicks] BY <1>1, <2>1 DEF TypesInv
    <2>3. TypesInv' BY <1>1, <1>2, <1>4, <2>1, <2>2 DEF TypesInv
    <2>4. ControlInv' /\ ColourInv' /\ RowInv' /\ BufferInv' /\ SaidInv'
      BY <1>2, <1>4, <2>1, <2>3, NobodyPrints
    <2> QED BY <1>5, <2>3, <2>4 DEF IInv
  <1>7. CASE call.fn # "sti"
    <2>1. /\ th' = [th EXCEPT !["kernel"] = new] /\ said' = [said EXCEPT !["kernel"] = <<>>]
          /\ hist' = [hist EXCEPT !.disturbed = FALSE] /\ UNCHANGED intr
      BY <1>7 DEF NextCall
    <2>2. call.fn \in {"info", "warn", "err", "printf", "clear"} /\ call.text \in Seq(Chars)
      BY <1>3, <1>7 DEF Calls
    <2>3. /\ new.fn = call.fn /\ new.text = call.text /\ new.at = EntryOf(call.fn) /\ new.i = 0
          /\ new \in Locals
      <3>1. EntryOf(call.fn) \in Labels BY DEF EntryOf, Labels
      <3>2. NUL \in AllChars /\ BLACK \in Colors /\ Home \in Places /\ 0 \in 0 .. BUF_SIZE - 1
        BY Sizes DEF AllChars, Colors, Home, Places, Byte
      <3> HIDE DEF call
      <3> QED BY <2>2, <3>1, <3>2 DEF Call, Locals, Fns
    <2>4. \/ new.fn = "printf" /\ new.at = "format"
          \/ new.fn = "clear" /\ new.at = "clear"
          \/ new.fn \in {"info", "warn", "err"} /\ new.at = "get_color"
      BY <2>2, <2>3 DEF EntryOf
    <2> HIDE DEF new, call
    <2>5. /\ th'["kernel"] = new /\ th'["handler"] = th["handler"] /\ th["handler"].at = "idle"
          /\ th' \in [Threads -> Locals]
      BY <1>1, <1>2, <2>1, <2>3 DEF TypesInv, Threads, Resting, Idle
    <2>6. /\ said'["kernel"] = <<>> /\ said'["handler"] = said["handler"]
          /\ said' \in [Threads -> Seq(AllChars)]
      <3>1. <<>> \in Seq(AllChars) OBVIOUS
      <3> QED BY <1>1, <2>1, <3>1 DEF TypesInv, Threads
    <2>7. DOMAIN hist' = DOMAIN hist /\ ~hist'.disturbed BY <1>1, <2>1 DEF TypesInv
    <2>8. TypesInv' BY <1>1, <1>2, <1>4, <2>1, <2>5, <2>6, <2>7 DEF TypesInv
    <2>9. ControlInv' BY <1>4, <2>4, <2>5 DEF ControlInv, Idle, Threads
    <2>10. ColourInv'
      <3>1. io.color = WHITE BY <1>1, <1>2 DEF ColourInv, KernelColor, Resting, Idle, Ready
      <3>2. KernelColor' = WHITE BY <2>4, <2>5 DEF KernelColor, Ready, ColorOf
      <3> QED BY <1>2, <2>4, <2>5, <3>1, <3>2 DEF ColourInv, Ready, Threads
    <2>11. RowInv'
      <3>1. Below("kernel") = 0 /\ Below("handler") = 0 BY <1>2 DEF Below, Resting, Idle
      <3>2. Below("kernel")' = 0 /\ Below("handler")' = 0 BY <2>4, <2>5 DEF Below
      <3> QED BY <1>1, <1>2, <2>4, <2>5, <3>1, <3>2 DEF RowInv, SetPos, Threads
    <2>12. BufferInv'
      <3>1. Zero(BUF_SIZE)' BY <1>1, <1>2 DEF BufferInv, Zero
      <3>2. Len(new.text) \in Nat BY <2>2, <2>3
      <3>3. 0 <= Len(new.text) BY <3>2
      <3> QED BY <2>3, <2>4, <2>5, <3>1, <3>3 DEF BufferInv, Threads
    <2>13. SaidInv'
      <3>1. Idle("handler")' BY <2>5 DEF Idle
      <3>2. Undisturbed("handler")' => said'["handler"] = SubSeq(th'["handler"].text, 1, End("handler")')
        <4>1. Undisturbed("handler")' => Undisturbed("handler") BY <2>5 DEF Undisturbed
        <4>2. Undisturbed("handler") => said["handler"] = SubSeq(th["handler"].text, 1, End("handler"))
          BY <1>1, <2>5 DEF SaidInv, Threads
        <4> QED BY <2>5, <2>6, <4>1, <4>2 DEF End
      <3>3. \A j \in 0 .. BUF_SIZE - 1 : ~(j < 0) BY Sizes
      <3>4. Holds("kernel", th["kernel"].i)' BY <2>3, <2>5, <3>3 DEF Holds
      <3>5. Undisturbed("kernel")' => new.at # "clear" BY <2>4, <2>5 DEF Undisturbed
      <3> QED BY <2>4, <2>5, <2>6, <3>1, <3>2, <3>4, <3>5 DEF SaidInv, Threads, Writing, SetPos
    <2> QED BY <1>5, <2>8, <2>9, <2>10, <2>11, <2>12, <2>13 DEF IInv
  <1> QED BY <1>6, <1>7

(* A handler begins; kernel_main stays where it is until the handler ends. *)
LEMMA InterruptGoesOn ==
    ASSUME IInv, Tick \/ Unhandled
    PROVE  IInv'
  <1>1. TypesInv /\ ControlInv /\ ColourInv /\ RowInv /\ BufferInv /\ SaidInv BY DEF IInv
  <1>2. PICK text \in {TickText, UnhandledText} : Interrupt(text) BY DEF Tick, Unhandled
  <1> DEFINE new == Call("info", text, "get_color")
  <1>3. /\ th' = [th EXCEPT !["handler"] = new] /\ said' = [said EXCEPT !["handler"] = <<>>]
        /\ hist' = IF Idle("kernel") THEN hist
                   ELSE [hist EXCEPT !.disturbed = TRUE, !.clean = FALSE, !.text = <<>>]
        /\ UNCHANGED <<boot_vars, io, vga, k>>
    BY <1>2 DEF Interrupt
  <1>4. Idle("handler") BY DEF Tick, Unhandled
  <1>5. intr' \in [on : BOOLEAN, ticks : 0 .. MaxTicks]
    <2>1. CASE Tick
      <3>1. intr \in [on : BOOLEAN, ticks : 0 .. MaxTicks] BY <1>1 DEF TypesInv
      <3>2. intr.ticks + 1 \in 0 .. MaxTicks BY <2>1, <3>1, Sizes DEF Tick
      <3>3. intr' = [intr EXCEPT !.ticks = @ + 1] BY <2>1 DEF Tick
      <3> QED BY <3>1, <3>2, <3>3
    <2>2. CASE Unhandled BY <1>1, <2>2 DEF Unhandled, TypesInv
    <2> QED BY <2>1, <2>2
  <1>6. k.pc \in {"main", "hlt"} BY <1>1 DEF Tick, Unhandled, ControlInv
  <1>7. /\ new.fn = "info" /\ new.text = text /\ new.at = "get_color" /\ new.i = 0 /\ new \in Locals
    <2>1. text \in Seq(Chars) BY TextsAssumption
    <2>2. NUL \in AllChars /\ BLACK \in Colors /\ Home \in Places /\ 0 \in 0 .. BUF_SIZE - 1
      BY Sizes DEF AllChars, Colors, Home, Places, Byte
    <2> QED BY <2>1, <2>2 DEF Call, Locals, Fns, Labels
  <1> HIDE DEF new
  <1>8. /\ th'["handler"] = new /\ th'["kernel"] = th["kernel"] /\ th["handler"].at = "idle"
        /\ th' \in [Threads -> Locals]
    BY <1>1, <1>3, <1>4, <1>7 DEF TypesInv, Threads, Idle
  <1>9. /\ said'["handler"] = <<>> /\ said'["kernel"] = said["kernel"]
        /\ said' \in [Threads -> Seq(AllChars)]
    <2>1. <<>> \in Seq(AllChars) OBVIOUS
    <2> QED BY <1>1, <1>3, <2>1 DEF TypesInv, Threads
  <1>10. DOMAIN hist' = DOMAIN hist /\ (hist'.disturbed \/ (Idle("kernel") /\ hist' = hist))
    BY <1>1, <1>3 DEF TypesInv
  <1>11. TypesInv' BY <1>1, <1>3, <1>5, <1>8, <1>9, <1>10 DEF TypesInv
  <1>12. ControlInv' BY <1>1, <1>3, <1>6, <1>7, <1>8 DEF ControlInv, Threads
  <1>13. ColourInv'
    <2>1. KernelColor' = KernelColor BY <1>8 DEF KernelColor
    <2> QED BY <1>1, <1>3, <1>7, <1>8, <2>1 DEF ColourInv, Ready, Threads
  <1>14. RowInv'
    <2>1. Below("kernel")' = Below("kernel") BY <1>8 DEF Below
    <2>2. Below("handler")' = 0 /\ Below("handler") = 0 BY <1>7, <1>8 DEF Below
    <2> QED BY <1>1, <1>3, <1>7, <1>8, <2>1, <2>2 DEF RowInv, SetPos, Threads
  <1>15. BufferInv'
    <2>1. ~Idle("handler")' /\ ~Runs("kernel")' BY <1>7, <1>8 DEF Idle, Runs
    <2>2. End("kernel")' = End("kernel") BY <1>8 DEF End
    <2> QED BY <1>1, <1>7, <1>8, <2>1, <2>2 DEF BufferInv, Resting, Threads
  <1>16. SaidInv'
    <2>1. ~hist'.disturbed => Idle("kernel")' BY <1>8, <1>10 DEF Idle
    <2>2. Undisturbed("kernel")' =>
            th'["kernel"].at = "idle" /\ said'["kernel"] = SubSeq(th'["kernel"].text, 1, End("kernel")')
      <3> SUFFICES ASSUME Undisturbed("kernel")'
                   PROVE  th["kernel"].at = "idle" /\ said["kernel"] = SubSeq(th["kernel"].text, 1, End("kernel"))
        BY <1>8, <1>9 DEF End
      <3>1. Idle("kernel") /\ Undisturbed("kernel") BY <1>8, <1>10 DEF Undisturbed
      <3> QED BY <1>1, <3>1 DEF SaidInv, Idle, Threads
    <2> QED BY <1>7, <1>8, <1>9, <2>1, <2>2 DEF SaidInv, Threads, Writing, SetPos
  <1>17. BootInv' BY <1>3, BootGoesOn DEF IInv
  <1> QED BY <1>11, <1>12, <1>13, <1>14, <1>15, <1>16, <1>17 DEF IInv

LEMMA Initially == Init => IInv
  <1> SUFFICES ASSUME Init PROVE IInv OBVIOUS
  <1> DEFINE idle == Call("none", <<>>, "idle")
  <1>1. BootInv BY BootInitially DEF Init
  <1>2. NUL \in AllChars /\ BLACK \in Colors /\ BLACK \in Shades /\ 0 \in Byte /\ 0 \in 0 .. BUF_SIZE - 1
    BY Sizes DEF AllChars, Colors, Shades, Byte
  <1>3. Home \in Places /\ Home.row = 0 BY <1>2 DEF Home, Places
  <1>4. /\ idle \in Locals /\ idle.fn = "none" /\ idle.text = <<>> /\ idle.at = "idle"
    <2>1. <<>> \in Seq(Chars) OBVIOUS
    <2> QED BY <1>2, <1>3, <2>1 DEF Call, Locals, Fns, Labels
  <1>5. io \in Memory /\ io.pos = Home /\ Zero(BUF_SIZE)
    <2>1. <<NUL, BLACK>> \in AllChars \X Shades BY <1>2
    <2>2. [x \in Cells |-> <<NUL, BLACK>>] \in [Cells -> AllChars \X Shades] BY <2>1
    <2>3. [x \in 0 .. BUF_SIZE - 1 |-> NUL] \in [0 .. BUF_SIZE - 1 -> AllChars] BY <1>2
    <2>4. Blank \in Memory BY <1>2, <1>3, <2>2, <2>3 DEF Blank, Memory
    <2>5. io = Blank BY DEF Init
    <2>6. io.pos = Home /\ \A j \in 0 .. BUF_SIZE - 1 : io.buf[j] = NUL BY <2>5 DEF Blank
    <2> QED BY <2>4, <2>5, <2>6 DEF Zero
  <1> HIDE DEF idle
  <1>6. /\ th \in [Threads -> Locals] /\ \A x \in Threads : th[x] = idle
        /\ th["kernel"] = idle /\ th["handler"] = idle
    BY <1>4 DEF Init, Threads, idle
  <1>7. said \in [Threads -> Seq(AllChars)] /\ \A x \in Threads : said[x] = <<>>
    <2>1. <<>> \in Seq(AllChars) OBVIOUS
    <2> QED BY <2>1 DEF Init
  <1>8. TypesInv
    <2>1. vga \in [x : 0 .. WIDTH - 1, y : 0 .. HEIGHT - 1] BY Sizes DEF Init
    <2>2. intr \in [on : BOOLEAN, ticks : 0 .. MaxTicks] BY Sizes DEF Init
    <2>3. DOMAIN k = {"pc", "ctors", "todo"} /\ k.pc = "cpp_init" BY DEF Init
    <2>4. DOMAIN hist = {"text", "clean", "disturbed", "overrun"} BY DEF Init
    <2> QED BY <1>5, <1>6, <1>7, <2>1, <2>2, <2>3, <2>4 DEF TypesInv
  <1>9. ControlInv
    <2>1. Resting BY <1>4, <1>6 DEF Resting, Idle
    <2>2. ~intr.on BY DEF Init
    <2> QED BY <1>4, <1>6, <2>1, <2>2 DEF ControlInv, Idle, Resting
  <1>10. ColourInv
    <2>1. k.pc = "cpp_init" BY DEF Init
    <2> QED BY <1>4, <1>6, <2>1 DEF ColourInv
  <1>11. RowInv
    <2>1. Below("kernel") = 0 /\ Below("handler") = 0 BY <1>4, <1>6 DEF Below
    <2>2. io.pos.row <= HEIGHT - 1 + 0 + 0 BY <1>3, <1>5, Sizes
    <2> QED BY <1>4, <1>6, <2>1, <2>2 DEF RowInv, SetPos
  <1>12. BufferInv BY <1>4, <1>5, <1>6 DEF BufferInv
  <1>13. SaidInv
    <2>1. Idle("handler") BY <1>4, <1>6 DEF Idle
    <2>2. ASSUME NEW x \in Threads PROVE said[x] = SubSeq(th[x].text, 1, End(x))
      <3>1. th[x].text = <<>> BY <1>4, <1>6
      <3>2. Len(<<>>) = 0 OBVIOUS
      <3>3. End(x) = 0 BY <3>1, <3>2, Sizes DEF End, TerminatorAt
      <3>4. <<>> \in Seq(Chars) OBVIOUS
      <3>5. SubSeq(<<>>, 1, 0) = <<>> BY <3>4, NothingYet
      <3> QED BY <1>7, <3>1, <3>3, <3>5
    <2> QED BY <1>4, <1>6, <2>1, <2>2 DEF SaidInv, Writing, SetPos
  <1> QED BY <1>1, <1>8, <1>9, <1>10, <1>11, <1>12, <1>13 DEF IInv

LEMMA GoesOn == IInv /\ [Next]_vars => IInv'
  <1> SUFFICES ASSUME IInv, [Next]_vars PROVE IInv' OBVIOUS
  <1>1. ASSUME UNCHANGED con_vars PROVE TypesInv' /\ ControlInv' /\ ColourInv' /\ RowInv' /\ BufferInv' /\ SaidInv'
    <2>1. TypesInv /\ ControlInv BY DEF IInv
    <2>2. TypesInv' BY <1>1, <2>1 DEF TypesInv, con_vars
    <2>3. /\ k.pc \in {"main", "hlt"} => k'.pc \in {"main", "hlt"}
          /\ k'.pc \in {"main", "hlt"} \/ ~intr'.on
          /\ k'.pc # "cpp_init" => k.pc # "cpp_init"
          /\ UNCHANGED <<th, said>> /\ io' = io /\ hist' = hist
      BY <1>1, <2>1 DEF ControlInv, con_vars
    <2> QED BY <2>2, <2>3, NobodyPrints
  <1>2. CASE BootStep /\ UNCHANGED con_vars BY <1>1, <1>2, BootGoesOn DEF IInv
  <1>3. CASE \E file \in {"tui.cpp", "io.cpp"} : cpp_init(file) BY <1>3, CppInitGoesOn
  <1>4. CASE TestVga
    <2>1. Hello \in Seq(Chars) BY TextsAssumption
    <2> QED BY <1>4, <2>1, VgaInitGoesOn DEF TestVga
  <1>5. CASE StartTui
    <2>1. PICK prog \in Programs : vga_init("clear", "main", prog) BY <1>5 DEF StartTui
    <2>2. prog \in Seq(Calls) BY TextsAssumption
    <2> QED BY <2>1, <2>2, VgaInitGoesOn
  <1>6. CASE vga_putchar BY <1>6, VgaPutcharGoesOn
  <1>7. CASE VgaDone \/ Halt \/ Transmit BY <1>7, QuietGoesOn
  <1>8. CASE NextCall BY <1>8, NextCallGoesOn
  <1>9. CASE Tick \/ Unhandled BY <1>9, InterruptGoesOn
  <1>10. CASE \E x \in Threads : Step(x) BY <1>10, StepGoesOn
  <1>11. CASE UNCHANGED vars
    <2>1. UNCHANGED boot_vars /\ UNCHANGED con_vars BY <1>11 DEF vars
    <2> QED BY <1>1, <2>1, BootGoesOn DEF IInv
  <1> QED
    BY <1>2, <1>3, <1>4, <1>5, <1>6, <1>7, <1>8, <1>9, <1>10, <1>11 DEF Next, EarlyBoot

LEMMA Inductive == Spec => []IInv
  <1>1. Init => IInv BY Initially
  <1>2. IInv /\ [Next]_vars => IInv' BY GoesOn
  <1> QED BY <1>1, <1>2, PTL DEF Spec

-----------------------------------------------------------------------------
(* Memory, devices and locals keep their types: the row, the column and    *)
(* the cursor registers are bytes whatever is printed, and strlen never    *)
(* leaves the buffer, although a handler may empty it in the middle.       *)
THEOREM TypesKept == Spec => []TypeOK
  <1>1. IInv => TypeOK
    <2> SUFFICES ASSUME IInv PROVE TypeOK OBVIOUS
    <2>1. TypesInv BY DEF IInv
    <2>2. /\ io.pos \in Places /\ io.color \in Colors /\ io.thr_full \in BOOLEAN
          /\ DOMAIN io.screen = Cells /\ DOMAIN io.buf = 0 .. BUF_SIZE - 1
          /\ io.crtc \in [index : {"H", "L"}, H : Byte, L : Byte]
      BY <2>1 DEF TypesInv, Memory
    <2>3. \A x \in Threads : th[x].at \in Labels /\ th[x].len \in 0 .. BUF_SIZE - 1
      BY <2>1 DEF TypesInv, Locals
    <2> QED BY <2>1, <2>2, <2>3 DEF TypesInv, TypeOK, Places
  <1> QED BY <1>1, Inductive, PTL

(* The switch to 64 bits is sound (boot.S:166-213, 246-251): once paging   *)
(* is on, PAE and long mode are on and every page is where it was before,  *)
(* for every size of the page table; 64-bit code runs only behind it; and  *)
(* the stack lies in its space wherever the linker puts it.                *)
THEOREM SwitchIsSound == Spec => []SwitchSound
  <1>1. IInv => SwitchSound BY BootInvIsSound DEF IInv
  <1> QED BY <1>1, Inductive, PTL

(* Every character is written inside the video memory wherever a handler   *)
(* interrupts and whatever the texts are (tui.cpp:92, tui.cpp:115), and    *)
(* the row is on the screen when nobody prints.                            *)
THEOREM WritesStayInVideo == Spec => []WritesInVideo
  <1>1. IInv => WritesInVideo
    <2> SUFFICES ASSUME IInv PROVE WritesInVideo OBVIOUS
    <2>1. RowInv /\ TypesInv BY DEF IInv
    <2>2. Resting => io.pos.row < HEIGHT
      <3> SUFFICES ASSUME Resting PROVE io.pos.row < HEIGHT OBVIOUS
      <3>1. Below("kernel") = 0 /\ Below("handler") = 0 BY DEF Below, Resting, Idle
      <3>2. io.pos.row <= HEIGHT - 1 + 0 + 0 BY <2>1, <3>1 DEF RowInv
      <3>3. io.pos.row \in Nat BY <2>1, Sizes DEF TypesInv, Memory, Places, Byte
      <3> QED BY <3>2, <3>3, Sizes
    <2> QED BY <2>1, <2>2 DEF RowInv, WritesInVideo
  <1> QED BY <1>1, Inductive, PTL

(* Every message is written in the colour of its function, an interrupt    *)
(* inside it included, and leaves the colour it found and an empty buffer  *)
(* (io.cpp:135-144).                                                       *)
THEOREM ColourIsKept == Spec => []ColourKept
  <1>1. IInv => ColourKept
    <2> SUFFICES ASSUME IInv PROVE ColourKept OBVIOUS
    <2>1. TypesInv /\ ColourInv /\ BufferInv BY DEF IInv
    <2>2. Resting /\ k.pc # "cpp_init" => io.color = WHITE
      BY <2>1 DEF ColourInv, KernelColor, Resting, Idle, Ready
    <2>3. Resting => \A i \in DOMAIN io.buf : io.buf[i] = NUL
      <3>1. DOMAIN io.buf = 0 .. BUF_SIZE - 1 BY <2>1 DEF TypesInv, Memory
      <3>2. \A i \in 0 .. BUF_SIZE - 1 : i < BUF_SIZE BY Sizes
      <3> QED BY <2>1, <3>1, <3>2 DEF BufferInv, Zero
    <2> QED BY <2>1, <2>2, <2>3 DEF ColourInv, ColourKept
  <1> QED BY <1>1, Inductive, PTL

(* A handler's message is printed whole wherever it interrupts, and so is  *)
(* a message of kernel_main that no handler has interrupted (io.cpp:140):  *)
(* for every text, longer than the buffer or not.                          *)
THEOREM HandlersPrintWhole == Spec => []HandlerWhole
  <1>1. IInv => HandlerWhole
    <2> SUFFICES ASSUME IInv PROVE HandlerWhole OBVIOUS
    <2>1. TypesInv /\ SaidInv /\ ControlInv BY DEF IInv
    <2>2. ASSUME NEW x \in Threads PROVE Fits(th[x].text) = SubSeq(th[x].text, 1, End(x))
      BY DEF Fits, End, TerminatorAt
    <2>3. ASSUME NEW x \in Threads, x = "handler" \/ ~hist.disturbed PROVE Whole(x)
      <3> SUFFICES ASSUME th[x].at \in {"idle", "spin"}, th[x].fn # "clear"
                   PROVE  said[x] = Fits(th[x].text)
        BY DEF Whole
      <3>1. Undisturbed(x) BY <2>3 DEF Undisturbed
      <3> QED BY <2>1, <2>2, <3>1 DEF SaidInv
    <2> QED BY <2>3 DEF HandlerWhole, Threads
  <1> QED BY <1>1, Inductive, PTL
-----------------------------------------------------------------------------
(* The screen.  Row and PlaceOf say where the next character goes when the *)
(* lines are shown, With is a character at the end of the last line.       *)
Row(lines) == IF Len(lines) > HEIGHT THEN HEIGHT - 1 ELSE Len(lines) - 1
PlaceOf(lines) == [col |-> Len(Last(lines)), row |-> Row(lines)]
With(lines, c) == [lines EXCEPT ![Len(lines)] = Append(@, c)]
Shows(screen, lines) ==
    \A r \in 0 .. HEIGHT - 1, c \in 0 .. WIDTH - 1 :
        screen[r * WIDTH + c][1] = Visible(lines, r, c)

(* Nobody is drawing.  m is the memory, t the locals of who prints. *)
Settled(m, text) == Shows(m.screen, Lines(text)) /\ m.pos = PlaceOf(Lines(text))

(* c is the last of the text, and only its place is ready for it; it is drawn. *)
Ahead(m, text, c) ==
    /\ text # <<>> /\ c = Last(text) /\ c \notin {NL, CR}
    /\ m.pos = PlaceOf(Lines(Front(text)))
Entering(t, m, text) ==
    Ahead(m, text, t.c) /\ Shows(m.screen, Lines(Front(text))) /\ t.idx = Index(m.pos)
Entered(t, m, text) ==
    Ahead(m, text, t.c) /\ Shows(m.screen, With(Lines(Front(text)), t.c))

(* The text has begun a line that the screen does not show. *)
Broken(m, text, row) ==
    LET lines == Front(Lines(text)) IN
    /\ Lines(text) = Append(lines, <<>>) /\ Len(lines) >= 1
    /\ Shows(m.screen, lines) /\ m.pos.row = row + Row(lines)

(* n cells of the screen have been scrolled. *)
Scrolling(n, m, text) ==
    LET lines == Front(Lines(text)) IN
    /\ Lines(text) = Append(lines, <<>>) /\ Len(lines) >= HEIGHT /\ m.pos.col = 0
    /\ \A r \in 0 .. HEIGHT - 1, c \in 0 .. WIDTH - 1 :
          m.screen[r * WIDTH + c][1] =
              IF r * WIDTH + c < n THEN Visible(Lines(text), r, c) ELSE Visible(lines, r, c)

(* Where a thread has nothing to draw, and where set_pos has stored pos. *)
Quiet == {"get_color", "set_color", "format", "strlen", "write", "put_char", "bzero",
          "restore", "spin"}
Stored == SetPos \ {"store"}

(* What is on the screen at each label. *)
Drawn(t, m, text) ==
    /\ t.at \in Quiet \cup Stored \cup {"set_pos"} => Settled(m, text)
    /\ t.at = "store" => Shows(m.screen, Lines(text)) /\ t.pos = PlaceOf(Lines(text))
    /\ t.at = "entry" => Entering(t, m, text)
    /\ t.at = "advance" => Entered(t, m, text)
    /\ t.at \in {"poll", "outb"} =>
          IF t.c \in {NL, CR} THEN Broken(m, text, 1) /\ m.pos.col = 0 ELSE Entered(t, m, text)
    /\ t.at = "newline_col" => Broken(m, text, 1)
    /\ t.at = "wrap_col" => Broken(m, text, 0)
    /\ t.at = "wrap_row" => Broken(m, text, 0) /\ m.pos.col = 0
    /\ t.at = "scroll" => Settled(m, text) \/ (Broken(m, text, 1) /\ m.pos.col = 0)
    /\ t.at = "copy" => Scrolling(t.n, m, text)
    /\ t.at # "erase"

(* The cells that clear has reached. *)
Wiped(n, screen) ==
    \A r \in 0 .. HEIGHT - 1, c \in 0 .. WIDTH - 1 :
        r * WIDTH + c < n => screen[r * WIDTH + c][1] = " "

(* What the cursor's registers hold at each label. *)
Followed(m) == m.crtc.H * UINT8 + m.crtc.L = Index(m.pos)
Programmed(t, m) ==
    /\ t.at \in Quiet => Followed(m)
    /\ t.at \in Stored => t.pos = m.pos
    /\ t.at = "data_H" => m.crtc.index = "H"
    /\ t.at \in {"select_L", "data_L"} => m.crtc.H = Index(m.pos) \div UINT8
    /\ t.at = "data_L" => m.crtc.index = "L"

(* kernel_main has done with vgaprint.cpp. *)
InTui == k.pc \in {"main", "hlt"}

(* A thread that nobody has interrupted since boot. *)
Alone(x) ==
    /\ th[x].at = "outb" => ~io.thr_full
    /\ th[x].at = "clear" => Wiped(th[x].n, io.screen)
    /\ Programmed(th[x], io)
    /\ Plain(hist.text) => Drawn(th[x], io, hist.text)

ScreenInv ==
    /\ hist.text \in Seq(AllChars)
    /\ ~InTui => io.pos = Home /\ Followed(io) /\ hist.clean /\ ~hist.overrun /\ ~hist.disturbed
    /\ k.pc = "vga" =>
         Shows(io.screen, Lines(hist.text)) /\ [col |-> vga.x, row |-> vga.y] = PlaceOf(Lines(hist.text))
    /\ hist.clean =>
         /\ ~hist.overrun /\ ~hist.disturbed /\ (Idle("kernel") \/ Idle("handler"))
         /\ Resting => Followed(io)
         /\ InTui /\ Resting /\ Plain(hist.text) => Settled(io, hist.text)
         /\ \A x \in Threads : Alone(x)

-----------------------------------------------------------------------------
(* The text in lines, a character at a time. *)
LEMMA FrontOfAppend ==
    ASSUME NEW S, NEW s \in Seq(S), NEW e \in S
    PROVE  Front(Append(s, e)) = s
  <1> DEFINE more == Append(s, e)
             f == Front(more)
  <1>1. /\ more \in Seq(S) /\ Len(more) = Len(s) + 1 /\ Len(s) \in Nat
        /\ \A j \in 1 .. Len(s) : more[j] = s[j]
    OBVIOUS
  <1>2. f = SubSeq(more, 1, Len(s)) BY <1>1 DEF Front
  <1>3. f \in Seq(S) /\ Len(f) = Len(s) /\ \A j \in 1 .. Len(s) : f[j] = more[j]
    <2> HIDE DEF more, f
    <2> QED BY <1>1, <1>2
  <1> HIDE DEF f, more
  <1>4. f = s BY <1>1, <1>3, SeqEqual
  <1> QED BY <1>4 DEF f, more
(* Lines grow with the text. *)
Upto(text) ==
    CHOOSE upto : upto = [n \in 0 .. Len(text) |->
                             IF n = 0 THEN << <<>> >> ELSE AddChar(upto[n - 1], text[n])]

(* The recursive function of Lines exists. *)
LEMMA UptoExists ==
    ASSUME NEW text, Len(text) \in Nat
    PROVE  /\ Upto(text)[0] = << <<>> >>
           /\ \A n \in 1 .. Len(text) : Upto(text)[n] = AddChar(Upto(text)[n - 1], text[n])
  <1> DEFINE Next1(f, m) == AddChar(f[m - 1], text[m])
             Is(f, n) == f = [m \in 0 .. n |-> IF m = 0 THEN << <<>> >> ELSE Next1(f, m)]
             T == {n \in Nat : \E f : Is(f, n)}
  <1> HIDE DEF Next1
  <1>1. 0 \in T
    <2> DEFINE f == [m \in 0 .. 0 |-> << <<>> >>]
    <2>1. Is(f, 0) OBVIOUS
    <2> QED BY <2>1
  <1>2. ASSUME NEW n \in Nat, n \in T PROVE n + 1 \in T
    <2>1. PICK f : Is(f, n) BY <1>2
    <2> DEFINE g == [m \in 0 .. n + 1 |-> IF m <= n THEN f[m] ELSE Next1(f, n + 1)]
    <2>2. \A m \in 0 .. n : g[m] = f[m] OBVIOUS
    <2>3. ASSUME NEW m \in 0 .. n + 1 PROVE g[m] = IF m = 0 THEN << <<>> >> ELSE Next1(g, m)
      <3>1. CASE m = 0 BY <2>1, <2>2, <3>1
      <3>2. CASE m # 0
        <4>1. m - 1 \in 0 .. n BY <3>2
        <4>2. Next1(g, m) = Next1(f, m) BY <4>1, <2>2 DEF Next1
        <4>3. CASE m <= n
          <5>1. m \in 0 .. n BY <4>3
          <5> QED BY <3>2, <4>2, <5>1, <2>1, <2>2
        <4>4. CASE m = n + 1
          <5>1. g[m] = Next1(f, n + 1) BY <4>4
          <5> QED BY <3>2, <4>2, <4>4, <5>1
        <4> QED BY <4>3, <4>4
      <3> QED BY <3>1, <3>2
    <2>4. g = [m \in 0 .. n + 1 |-> g[m]] OBVIOUS
    <2> HIDE DEF g
    <2>5. Is(g, n + 1) BY <2>3, <2>4
    <2>6. n + 1 \in Nat OBVIOUS
    <2> QED BY <2>5, <2>6
  <1>3. T \in SUBSET Nat OBVIOUS
  <1> HIDE DEF T
  <1>4. Len(text) \in T BY <1>1, <1>2, <1>3, Induction
  <1>5. \E f : Is(f, Len(text)) BY <1>4 DEF T
  <1>6. Is(Upto(text), Len(text)) BY <1>5, Zenon DEF Upto, Next1
  <1> DEFINE u == Upto(text)
  <1>7. Is(u, Len(text)) BY <1>6
  <1> HIDE DEF u
  <1>8. u[0] = << <<>> >> /\ \A n \in 1 .. Len(text) : u[n] = Next1(u, n) BY <1>7
  <1> QED BY <1>8 DEF u, Next1

LEMMA LinesOfNone == Lines(<<>>) = << <<>> >>
  <1>1. Len(<<>>) \in Nat /\ Len(<<>>) = 0 OBVIOUS
  <1>2. Upto(<<>>)[0] = << <<>> >> BY <1>1, UptoExists
  <1>3. Lines(<<>>) = Upto(<<>>)[Len(<<>>)] BY DEF Lines, Upto
  <1> QED BY <1>1, <1>2, <1>3

(* One more character changes the lines as AddChar says. *)
LEMMA LinesOfMore ==
    ASSUME NEW text \in Seq(AllChars), NEW c \in AllChars
    PROVE  Lines(Append(text, c)) = AddChar(Lines(text), c)
  <1> DEFINE more == Append(text, c)
             n == Len(text)
             f == Upto(text)
             g == Upto(more)
             T == {m \in Nat : m \in 0 .. n => f[m] = g[m]}
  <1>1. /\ n \in Nat /\ Len(more) = n + 1 /\ Len(more) \in Nat /\ more[n + 1] = c
        /\ \A m \in 1 .. n : more[m] = text[m]
    OBVIOUS
  <1>2. Lines(text) = f[n] /\ Lines(more) = g[n + 1]
    <2>1. Lines(text) = f[n] BY DEF Lines, Upto
    <2>2. Lines(more) = g[Len(more)] BY DEF Lines, Upto
    <2> QED BY <1>1, <2>1, <2>2
  <1> HIDE DEF n, more
  <1>3. f[0] = << <<>> >> /\ \A m \in 1 .. n : f[m] = AddChar(f[m - 1], text[m])
    BY <1>1, UptoExists DEF n
  <1>4. g[0] = << <<>> >> /\ \A m \in 1 .. n + 1 : g[m] = AddChar(g[m - 1], more[m])
    BY <1>1, UptoExists
  <1> HIDE DEF f, g
  <1>5. 0 \in T BY <1>3, <1>4
  <1>6. ASSUME NEW m \in Nat, m \in T PROVE m + 1 \in T
    <2> SUFFICES ASSUME m + 1 \in 0 .. n PROVE f[m + 1] = g[m + 1] OBVIOUS
    <2>1. m \in 0 .. n /\ m + 1 \in 1 .. n /\ m + 1 \in 1 .. n + 1 /\ (m + 1) - 1 = m BY <1>1
    <2>2. f[m] = g[m] BY <1>6, <2>1
    <2>3. f[m + 1] = AddChar(f[m], text[m + 1]) /\ g[m + 1] = AddChar(g[m], more[m + 1])
      BY <1>3, <1>4, <2>1
    <2>4. more[m + 1] = text[m + 1] BY <1>1, <2>1
    <2> QED BY <2>2, <2>3, <2>4
  <1>7. T \in SUBSET Nat OBVIOUS
  <1>8. n \in 0 .. n BY <1>1
  <1>9. f[n] = g[n]
    <2> HIDE DEF T
    <2>1. n \in T BY <1>1, <1>5, <1>6, <1>7, Induction
    <2> QED BY <2>1, <1>8 DEF T
  <1>10. g[n + 1] = AddChar(g[n], c)
    <2>1. n + 1 \in 1 .. n + 1 /\ (n + 1) - 1 = n BY <1>1
    <2> QED BY <1>1, <1>4, <2>1
  <1> QED BY <1>2, <1>9, <1>10 DEF more

(* What a text is broken into: the last line has room for a character. *)
IsLines(lines) ==
    lines \in Seq(Seq(AllChars)) /\ Len(lines) >= 1 /\ Len(lines[Len(lines)]) < WIDTH

(* A character at the end of the last line leaves the others alone. *)
LEMMA WithIs ==
    ASSUME NEW lines \in Seq(Seq(AllChars)), Len(lines) >= 1, NEW c \in AllChars
    PROVE  /\ With(lines, c) \in Seq(Seq(AllChars)) /\ Len(With(lines, c)) = Len(lines)
           /\ With(lines, c)[Len(lines)] = Append(lines[Len(lines)], c)
           /\ \A j \in 1 .. Len(lines) : j # Len(lines) => With(lines, c)[j] = lines[j]
           /\ Front(lines) \o <<Append(Last(lines), c)>> = With(lines, c)
  <1> DEFINE n == Len(lines)
             line == Append(lines[n], c)
             w == [lines EXCEPT ![n] = line]
             v == Front(lines) \o <<line>>
  <1>1. n \in Nat /\ n \in 1 .. n /\ DOMAIN lines = 1 .. n /\ lines[n] \in Seq(AllChars) OBVIOUS
  <1>2. line \in Seq(AllChars) BY <1>1
  <1> HIDE DEF line
  <1>3. w \in Seq(Seq(AllChars)) /\ Len(w) = n BY <1>1, <1>2
  <1>4. w[n] = line /\ \A j \in 1 .. n : j # n => w[j] = lines[j] BY <1>1
  <1>5. /\ Front(lines) \in Seq(Seq(AllChars)) /\ Len(Front(lines)) = n - 1
        /\ \A j \in 1 .. n - 1 : Front(lines)[j] = lines[j]
    BY <1>1 DEF Front
  <1>6. v = w
    <2> DEFINE f == Front(lines)
               l == <<line>>
    <2>1. l \in Seq(Seq(AllChars)) /\ Len(l) = 1 /\ l[1] = line BY <1>2
    <2>0. n \in Nat /\ f \in Seq(Seq(AllChars)) /\ Len(f) = n - 1 /\ v = f \o l BY <1>1, <1>5
    <2> HIDE DEF f, l, n, v
    <2>c. /\ f \o l \in Seq(Seq(AllChars)) /\ Len(f \o l) = Len(f) + Len(l)
          /\ \A j \in 1 .. Len(f) + Len(l) : (f \o l)[j] = IF j <= Len(f) THEN f[j] ELSE l[j - Len(f)]
      BY <2>0, <2>1, ConcatProperties, Zenon
    <2>s. Len(f) + Len(l) = n BY <2>0, <2>1
    <2>2. /\ v \in Seq(Seq(AllChars)) /\ Len(v) = n
      BY <2>0, <2>c, <2>s
    <2>3. \A j \in 1 .. n : v[j] = IF j <= n - 1 THEN f[j] ELSE l[j - (n - 1)]
      BY <2>0, <2>c, <2>s
    <2>4. ASSUME NEW j \in 1 .. n PROVE v[j] = w[j]
      <3>1. CASE j = n
        <4>1. j - (n - 1) = 1 /\ ~(j <= n - 1) BY <2>0, <3>1
        <4> QED BY <2>1, <2>3, <3>1, <4>1, <1>4
      <3>2. CASE j # n
        <4>1. j \in 1 .. n - 1 /\ j <= n - 1 BY <2>0, <3>2
        <4> QED BY <1>4, <1>5, <2>3, <3>2, <4>1 DEF f
      <3> QED BY <3>1, <3>2
    <2> HIDE DEF w
    <2> QED BY <1>3, <2>2, <2>4, SeqEqual
  <1>7. With(lines, c) = w BY DEF With, line
  <1>8. Append(Last(lines), c) = line BY DEF Last, line
  <1> QED BY <1>3, <1>4, <1>6, <1>7, <1>8 DEF line

LEMMA AddCharIs ==
    ASSUME NEW lines, IsLines(lines), NEW c \in AllChars
    PROVE  /\ IsLines(AddChar(lines, c))
           /\ AddChar(lines, c) = IF c = NL THEN Append(lines, <<>>)
                                  ELSE IF Len(lines[Len(lines)]) + 1 = WIDTH
                                       THEN Append(With(lines, c), <<>>) ELSE With(lines, c)
  <1> DEFINE n == Len(lines)
             last == lines[n]
             line == Append(last, c)
             w == With(lines, c)
             front == Front(lines)
  <1>1. lines \in Seq(Seq(AllChars)) /\ n >= 1 /\ Len(last) < WIDTH BY DEF IsLines
  <1>2. n \in Nat /\ n \in 1 .. n /\ last \in Seq(AllChars) /\ Len(last) \in Nat BY <1>1
  <1>3. line \in Seq(AllChars) /\ Len(line) = Len(last) + 1 BY <1>2
  <1>4. WIDTH \in Nat /\ WIDTH > 0 /\ <<>> \in Seq(AllChars) /\ Len(<<>>) = 0 BY Sizes
  <1>5. /\ w \in Seq(Seq(AllChars)) /\ Len(w) = n /\ w[n] = line /\ front \o <<line>> = w
    BY <1>1, WithIs DEF Last
  <1>6. front \in Seq(Seq(AllChars)) BY <1>1, <1>2 DEF Front
  <1>7. front \o <<line, <<>>>> = Append(front \o <<line>>, <<>>)
    <2> HIDE DEF front, line
    <2>0. \A a, b : <<a, b>> = Append(<<a>>, b) OBVIOUS
    <2>1. <<line>> \in Seq(Seq(AllChars)) /\ <<line, <<>>>> = Append(<<line>>, <<>>) BY <1>3, <2>0
    <2>2. ASSUME NEW S, NEW a \in Seq(S), NEW b \in Seq(S), NEW e \in S PROVE a \o Append(b, e) = Append(a \o b, e)
      <3> DEFINE l == a \o Append(b, e)
                 m == Append(a \o b, e)
      <3>1. Append(b, e) \in Seq(S) /\ Len(Append(b, e)) = Len(b) + 1 /\ Len(a) \in Nat /\ Len(b) \in Nat OBVIOUS
      <3>2. /\ a \o b \in Seq(S) /\ Len(a \o b) = Len(a) + Len(b)
            /\ \A j \in 1 .. Len(a) + Len(b) : (a \o b)[j] = IF j <= Len(a) THEN a[j] ELSE b[j - Len(a)]
        BY ConcatProperties, Zenon
      <3>3. /\ l \in Seq(S) /\ Len(l) = Len(a) + (Len(b) + 1)
            /\ \A j \in 1 .. Len(a) + (Len(b) + 1) : l[j] = IF j <= Len(a) THEN a[j] ELSE Append(b, e)[j - Len(a)]
        <4>1. /\ l \in Seq(S) /\ Len(l) = Len(a) + Len(Append(b, e))
              /\ \A j \in 1 .. Len(a) + Len(Append(b, e)) : l[j] = IF j <= Len(a) THEN a[j] ELSE Append(b, e)[j - Len(a)]
          BY <3>1, ConcatProperties, Zenon
        <4> QED BY <3>1, <4>1
      <3>4. m \in Seq(S) /\ Len(m) = Len(a) + (Len(b) + 1) BY <3>1, <3>2
      <3>5. ASSUME NEW j \in 1 .. Len(a) + (Len(b) + 1) PROVE l[j] = m[j]
        <4>1. CASE j = Len(a) + (Len(b) + 1)
          <5>1. m[j] = e BY <3>1, <3>2, <4>1
          <5>2. j - Len(a) = Len(b) + 1 /\ ~(j <= Len(a)) BY <3>1, <4>1
          <5>3. l[j] = Append(b, e)[Len(b) + 1] BY <3>3, <5>2
          <5> QED BY <5>1, <5>3
        <4>2. CASE j # Len(a) + (Len(b) + 1)
          <5>1. j \in 1 .. Len(a) + Len(b) BY <3>1, <4>2
          <5>2. m[j] = (a \o b)[j] BY <3>2, <5>1
          <5>3. CASE j <= Len(a) BY <3>2, <3>3, <5>1, <5>2, <5>3
          <5>4. CASE ~(j <= Len(a))
            <6>1. j - Len(a) \in 1 .. Len(b) BY <3>1, <5>1, <5>4
            <6>2. Append(b, e)[j - Len(a)] = b[j - Len(a)] BY <6>1
            <6> QED BY <3>2, <3>3, <5>1, <5>2, <5>4, <6>2
          <5> QED BY <5>3, <5>4
        <4> QED BY <4>1, <4>2
      <3> HIDE DEF l, m
      <3>6. l = m BY <3>3, <3>4, <3>5, SeqEqual
      <3> QED BY <3>6 DEF l, m
    <2>3. <<>> \in Seq(AllChars) OBVIOUS
    <2>4. front \o Append(<<line>>, <<>>) = Append(front \o <<line>>, <<>>) BY <1>6, <2>1, <2>2, <2>3
    <2> QED BY <2>1, <2>4
  <1> HIDE DEF w, line, front
  <1>8. AddChar(lines, c) = IF c = NL THEN Append(lines, <<>>)
                            ELSE IF Len(line) = WIDTH THEN Append(w, <<>>) ELSE w
    <2>1. CASE c = NL BY <2>1 DEF AddChar
    <2>2. CASE c # NL /\ Len(line) = WIDTH
      <3>1. AddChar(lines, c) = front \o <<line, <<>>>> BY <2>2 DEF AddChar, Last, line, front
      <3> QED BY <1>5, <1>7, <2>2, <3>1
    <2>3. CASE c # NL /\ Len(line) # WIDTH
      <3>1. AddChar(lines, c) = front \o <<line>> BY <2>3 DEF AddChar, Last, line, front
      <3> QED BY <1>5, <2>3, <3>1
    <2> QED BY <2>1, <2>2, <2>3
  <1>9. ASSUME NEW l \in Seq(Seq(AllChars)) PROVE IsLines(Append(l, <<>>))
    <2> DEFINE a == Append(l, <<>>)
    <2>1. a \in Seq(Seq(AllChars)) /\ Len(a) = Len(l) + 1 /\ Len(l) \in Nat /\ a[Len(l) + 1] = <<>> BY <1>4
    <2>2. a[Len(a)] = <<>> /\ Len(a) >= 1 BY <2>1
    <2> HIDE DEF a
    <2>3. IsLines(a) BY <1>4, <2>1, <2>2 DEF IsLines
    <2> QED BY <2>3 DEF a
  <1>10. ASSUME Len(line) # WIDTH PROVE IsLines(w)
    <2>1. \A a, b \in Nat : a < b /\ a + 1 # b => a + 1 < b OBVIOUS
    <2>2. Len(last) < WIDTH /\ Len(last) \in Nat /\ WIDTH \in Nat /\ n >= 1 BY <1>1, <1>2, <1>4
    <2>3. Len(line) = Len(last) + 1 BY <1>3
    <2> HIDE DEF last, n
    <2>4. Len(line) < WIDTH BY <1>10, <2>1, <2>2, <2>3, Zenon
    <2>5. w \in Seq(Seq(AllChars)) /\ Len(w) = n /\ w[n] = line BY <1>5
    <2>6. Len(w) >= 1 /\ Len(w[Len(w)]) < WIDTH BY <2>2, <2>4, <2>5, Zenon
    <2> QED BY <2>5, <2>6, Zenon DEF IsLines
  <1>11. IsLines(AddChar(lines, c))
    <2>1. IsLines(Append(lines, <<>>)) /\ IsLines(Append(w, <<>>)) BY <1>1, <1>5, <1>9
    <2> QED BY <1>8, <1>10, <2>1
  <1> QED BY <1>3, <1>8, <1>11 DEF w

(* The last line has room for a character. *)
LEMMA LinesAre ==
    ASSUME NEW text \in Seq(AllChars)
    PROVE  IsLines(Lines(text))
  <1> DEFINE n == Len(text)
             f == Upto(text)
             T == {m \in Nat : m \in 0 .. n => IsLines(f[m])}
  <1>1. n \in Nat /\ \A m \in 1 .. n : text[m] \in AllChars OBVIOUS
  <1>2. Lines(text) = f[n] BY DEF Lines, Upto
  <1>3. f[0] = << <<>> >> /\ \A m \in 1 .. n : f[m] = AddChar(f[m - 1], text[m]) BY <1>1, UptoExists
  <1> HIDE DEF n, f
  <1>4. 0 \in T
    <2>1. << <<>> >> \in Seq(Seq(AllChars)) /\ Len(<< <<>> >>) = 1 /\ << <<>> >>[1] = <<>> /\ Len(<<>>) = 0 OBVIOUS
    <2>2. IsLines(<< <<>> >>) BY <2>1, Sizes DEF IsLines
    <2> QED BY <1>3, <2>2
  <1>5. ASSUME NEW m \in Nat, m \in T PROVE m + 1 \in T
    <2> SUFFICES ASSUME m + 1 \in 0 .. n PROVE IsLines(f[m + 1]) OBVIOUS
    <2>1. m \in 0 .. n /\ m + 1 \in 1 .. n /\ (m + 1) - 1 = m BY <1>1
    <2>2. f[m + 1] = AddChar(f[m], text[m + 1]) BY <1>3, <2>1
    <2>3. IsLines(f[m]) /\ text[m + 1] \in AllChars BY <1>1, <1>5, <2>1
    <2> QED BY <2>2, <2>3, AddCharIs
  <1>6. T \in SUBSET Nat /\ n \in 0 .. n BY <1>1
  <1> HIDE DEF T
  <1>7. n \in T BY <1>1, <1>4, <1>5, <1>6, Induction
  <1> QED BY <1>2, <1>6, <1>7 DEF T

(* The lines of a text and of the text without its last character. *)
LEMMA LinesGrow ==
    ASSUME NEW text \in Seq(AllChars), NEW c \in AllChars
    PROVE  LET more == Append(text, c) IN
           /\ more \in Seq(AllChars) /\ more # <<>> /\ Last(more) = c /\ Front(more) = text
           /\ Lines(more) = AddChar(Lines(text), c)
  <1> DEFINE more == Append(text, c)
  <1>1. more \in Seq(AllChars) /\ Len(more) = Len(text) + 1 /\ Len(text) \in Nat /\ more[Len(text) + 1] = c OBVIOUS
  <1>2. more # <<>> /\ Last(more) = c BY <1>1 DEF Last
  <1>3. Front(more) = text BY FrontOfAppend
  <1> QED BY <1>1, <1>2, <1>3, LinesOfMore
(* Rows and columns of the screen. *)
LEMMA RowAfterRow ==
    ASSUME NEW a \in Nat, NEW b \in Nat
    PROVE  /\ a * WIDTH \in Nat /\ (a + 1) * WIDTH = a * WIDTH + WIDTH
           /\ a < b => a * WIDTH + WIDTH <= b * WIDTH
  <1>1. \A x, y \in Nat : \A w \in Nat : x <= y => x * w \in Nat /\ x * w <= y * w BY SMTT(30)
  <1>2. \A x \in Nat : \A w \in Nat : (x + 1) * w = x * w + w BY SMTT(30)
  <1>3. WIDTH \in Nat /\ (a + 1) * WIDTH = a * WIDTH + WIDTH /\ a * WIDTH \in Nat BY <1>1, <1>2, Sizes
  <1>4. ASSUME a < b PROVE a * WIDTH + WIDTH <= b * WIDTH
    <2>1. a + 1 \in Nat /\ a + 1 <= b BY <1>4
    <2>2. (a + 1) * WIDTH <= b * WIDTH BY <1>1, <1>3, <2>1
    <2> QED BY <1>3, <2>2
  <1> QED BY <1>3, <1>4

(* The cells of the screen are cells of the video memory, row after row. *)
LEMMA CellIs ==
    ASSUME NEW r \in 0 .. HEIGHT - 1, NEW c \in 0 .. WIDTH - 1
    PROVE  /\ r * WIDTH + c \in Cells /\ r * WIDTH + c < HEIGHT * WIDTH /\ r * WIDTH \in Nat
           /\ r < HEIGHT - 1 => /\ r * WIDTH + c < (HEIGHT - 1) * WIDTH
                                /\ (r + 1) * WIDTH + c = (r * WIDTH + c) + WIDTH
           /\ ~(r < HEIGHT - 1) => /\ ~(r * WIDTH + c < (HEIGHT - 1) * WIDTH)
                                   /\ r * WIDTH + c \in (HEIGHT - 1) * WIDTH .. HEIGHT * WIDTH - 1
  <1>1. /\ r \in Nat /\ c \in Nat /\ c < WIDTH /\ HEIGHT \in Nat /\ HEIGHT - 1 \in Nat /\ WIDTH \in Nat
        /\ r < HEIGHT
    BY Sizes
  <1>2. r * WIDTH \in Nat /\ r * WIDTH + WIDTH <= HEIGHT * WIDTH /\ (r + 1) * WIDTH = r * WIDTH + WIDTH
    BY <1>1, RowAfterRow
  <1>3. (HEIGHT - 1) * WIDTH \in Nat BY <1>1, RowAfterRow
  <1>4. r < HEIGHT - 1 => r * WIDTH + WIDTH <= (HEIGHT - 1) * WIDTH BY <1>1, RowAfterRow
  <1>5. ~(r < HEIGHT - 1) => r * WIDTH = (HEIGHT - 1) * WIDTH
    <2>1. ~(r < HEIGHT - 1) => r = HEIGHT - 1 BY <1>1
    <2> QED BY <2>1
  <1> DEFINE a == r * WIDTH
             b == HEIGHT * WIDTH
             d == (HEIGHT - 1) * WIDTH
             e == (r + 1) * WIDTH
  <1>6. b \in Nat /\ b + UINT8 <= VideoCells /\ UINT8 \in Nat /\ VideoCells \in Nat BY Sizes
  <1>7. a \in Nat /\ a + WIDTH <= b /\ e = a + WIDTH /\ d \in Nat BY <1>2, <1>3
  <1>8. (r < HEIGHT - 1 => a + WIDTH <= d) /\ (~(r < HEIGHT - 1) => a = d) BY <1>4, <1>5
  <1> HIDE DEF a, b, d, e
  <1>9. a + c \in 0 .. VideoCells - 1 /\ a + c < b BY <1>1, <1>6, <1>7
  <1>10. r < HEIGHT - 1 => a + c < d /\ e + c = (a + c) + WIDTH BY <1>1, <1>7, <1>8
  <1>11. ~(r < HEIGHT - 1) => ~(a + c < d) /\ a + c \in d .. b - 1 BY <1>1, <1>6, <1>7, <1>8, <1>9
  <1> QED BY <1>7, <1>9, <1>10, <1>11 DEF a, b, d, e, Cells

(* Two places of the screen are two cells. *)
LEMMA CellsDiffer ==
    ASSUME NEW r \in Nat, NEW c \in 0 .. WIDTH - 1, NEW s \in Nat, NEW d \in 0 .. WIDTH - 1,
           r * WIDTH + c = s * WIDTH + d
    PROVE  r = s /\ c = d
  <1> DEFINE a == r * WIDTH
             b == s * WIDTH
  <1>1. /\ a \in Nat /\ b \in Nat /\ a + c = b + d
        /\ (r < s => a + WIDTH <= b) /\ (s < r => b + WIDTH <= a)
    BY RowAfterRow
  <1>2. WIDTH \in Nat BY Sizes
  <1> HIDE DEF a, b
  <1>3. ~(r < s) /\ ~(s < r) BY <1>1, <1>2
  <1>4. r = s BY <1>3
  <1>5. a = b BY <1>4 DEF a, b
  <1> QED BY <1>1, <1>2, <1>4, <1>5

Letter(line, c) == IF c + 1 <= Len(line) THEN line[c + 1] ELSE " "
LEMMA VisibleIs ==
    ASSUME NEW lines, NEW r, NEW c
    PROVE  Visible(lines, r, c) = IF Top(lines) + r + 1 <= Len(lines)
                                  THEN Letter(lines[Top(lines) + r + 1], c) ELSE " "
  <1> DEFINE at == Top(lines) + r + 1
  <1>1. Visible(lines, r, c) = IF at <= Len(lines) /\ c + 1 <= Len(lines[at]) THEN lines[at][c + 1] ELSE " "
    BY DEF Visible
  <1> HIDE DEF at
  <1>2. Visible(lines, r, c) = IF at <= Len(lines) THEN Letter(lines[at], c) ELSE " " BY <1>1 DEF Letter
  <1> QED BY <1>2 DEF at

(* A character drawn in its place shows the text with it. *)
LEMMA DrawingShows ==
    ASSUME NEW lines, IsLines(lines), NEW c \in AllChars, NEW color,
           NEW screen, DOMAIN screen = Cells, Shows(screen, lines)
    PROVE  LET idx == Row(lines) * WIDTH + Len(lines[Len(lines)]) IN
           Shows([screen EXCEPT ![idx] = <<c, color>>], With(lines, c))
  <1> DEFINE n == Len(lines)
             col == Len(lines[n])
             row == Row(lines)
             idx == row * WIDTH + col
             new == [screen EXCEPT ![idx] = <<c, color>>]
             w == With(lines, c)
  <1>1. lines \in Seq(Seq(AllChars)) /\ n \in Nat /\ n >= 1 /\ col < WIDTH BY DEF IsLines
  <1>2. n \in 1 .. n /\ lines[n] \in Seq(AllChars) /\ col \in 0 .. WIDTH - 1 BY <1>1, Sizes
  <1>3. /\ Len(w) = n /\ w[n] = Append(lines[n], c) /\ \A j \in 1 .. n : j # n => w[j] = lines[j]
    BY <1>1, WithIs
  <1>4. Len(w[n]) = col + 1 /\ w[n][col + 1] = c /\ \A j \in 1 .. col : w[n][j] = lines[n][j]
    BY <1>2, <1>3
  <1>5. /\ row \in 0 .. HEIGHT - 1 /\ Top(lines) \in Nat /\ Top(lines) + row + 1 = n
        /\ \A r \in 0 .. HEIGHT - 1 : Top(lines) + r + 1 \in Nat \ {0} /\ (r # row => Top(lines) + r + 1 # n)
    BY <1>1, Sizes DEF Row, Top
  <1>6. Top(w) = Top(lines) BY <1>3 DEF Top
  <1> HIDE DEF w, n, col, row
  <1>7. idx \in Cells BY <1>2, <1>5, CellIs
  <1> HIDE DEF idx
  <1>8. ASSUME NEW r \in 0 .. HEIGHT - 1, NEW d \in 0 .. WIDTH - 1
        PROVE  new[r * WIDTH + d][1] = Visible(w, r, d)
    <2> DEFINE x == r * WIDTH + d
               at == Top(lines) + r + 1
    <2>1. x \in Cells /\ screen[x][1] = Visible(lines, r, d) BY CellIs DEF Shows
    <2>2. r \in Nat /\ d \in Nat BY Sizes
    <2>3. at \in Nat \ {0} /\ (r # row => at # n) /\ (r = row => at = n) BY <1>5
    <2>v. Visible(w, r, d) = IF at <= n THEN Letter(w[at], d) ELSE " " BY <1>3, <1>6, VisibleIs
    <2>l. Visible(lines, r, d) = IF at <= n THEN Letter(lines[at], d) ELSE " " BY VisibleIs DEF n
    <2>x. x # idx => new[x] = screen[x] BY <2>1, <1>7
    <2>y. x = idx => new[x][1] = c BY <2>1, <1>7
    <2>c. x = idx => r = row /\ d = col
      <3>1. row \in Nat BY <1>5, Sizes
      <3> QED BY <1>2, <2>2, <3>1, CellsDiffer DEF idx
    <2>k. r = row /\ d = col => x = idx BY DEF idx
    <2> HIDE DEF x, at, new
    <2>4. CASE x = idx
      <3>1. at = n /\ d + 1 = col + 1 /\ n <= n BY <2>c, <2>3, <2>4, <1>1
      <3>2. Visible(w, r, d) = c
        <4>1. at <= n /\ d + 1 <= Len(w[at]) /\ w[at][d + 1] = c BY <3>1, <1>2, <1>4
        <4> QED BY <2>v, <4>1 DEF Letter
      <3> QED BY <2>y, <2>4, <3>2 DEF x
    <2>5. CASE x # idx
      <3>1. Visible(w, r, d) = Visible(lines, r, d)
        <4>0. (at <= n => Letter(w[at], d) = Letter(lines[at], d)) => Visible(w, r, d) = Visible(lines, r, d)
          <5>1. CASE at <= n BY <5>1, <2>v, <2>l
          <5>2. CASE ~(at <= n) BY <5>2, <2>v, <2>l
          <5> QED BY <5>1, <5>2
        <4>1. CASE at # n
          <5>1. at <= n => w[at] = lines[at] BY <4>1, <2>3, <1>1, <1>3
          <5> QED BY <4>0, <5>1
        <4>2. CASE at = n
          <5>1. d # col BY <2>3, <2>5, <2>k, <4>2
          <5>2. d + 1 <= col + 1 => d + 1 <= col /\ d + 1 \in 1 .. col BY <5>1, <2>2, <1>2
          <5>3. d + 1 <= col => d + 1 <= col + 1 BY <2>2, <1>2
          <5>4. Len(lines[at]) = col BY <4>2 DEF col
          <5>5. CASE d + 1 <= col
            <6>1. w[at][d + 1] = lines[at][d + 1] BY <5>2, <5>3, <5>5, <4>2, <1>4
            <6>2. d + 1 <= Len(w[at]) /\ d + 1 <= Len(lines[at]) BY <5>3, <5>4, <5>5, <4>2, <1>4
            <6>3. Letter(w[at], d) = Letter(lines[at], d) BY <6>1, <6>2 DEF Letter
            <6> QED BY <6>3, <4>0
          <5>6. CASE ~(d + 1 <= col)
            <6>1. ~(d + 1 <= Len(w[at])) /\ ~(d + 1 <= Len(lines[at])) BY <5>2, <5>4, <5>6, <4>2, <1>4
            <6>2. Letter(w[at], d) = " " /\ Letter(lines[at], d) = " " BY <6>1 DEF Letter
            <6> QED BY <6>2, <4>0
          <5> QED BY <5>5, <5>6
        <4> QED BY <4>1, <4>2
      <3> QED BY <2>x, <2>1, <2>5, <3>1 DEF x
    <2> QED BY <2>4, <2>5
  <1> HIDE DEF new
  <1>9. Shows(new, w) BY <1>8 DEF Shows
  <1> QED BY <1>9 DEF new, w, idx, row, col, n

(* A line begun on the screen changes nothing that is seen. *)
LEMMA BreakShows ==
    ASSUME NEW lines \in Seq(Seq(AllChars)), Len(lines) < HEIGHT, NEW screen, Shows(screen, lines)
    PROVE  Shows(screen, Append(lines, <<>>))
  <1> DEFINE more == Append(lines, <<>>)
             n == Len(lines)
  <1>0. <<>> \in Seq(AllChars) /\ Len(<<>>) = 0 OBVIOUS
  <1>1. /\ n \in Nat /\ Len(more) = n + 1 /\ more[n + 1] = <<>> /\ \A j \in 1 .. n : more[j] = lines[j]
    BY <1>0
  <1>2. Top(lines) = 0 /\ Top(more) = 0 BY <1>1, Sizes DEF Top
  <1> HIDE DEF more
  <1>3. ASSUME NEW r \in 0 .. HEIGHT - 1, NEW c \in 0 .. WIDTH - 1
        PROVE  Visible(more, r, c) = Visible(lines, r, c)
    <2> DEFINE at == 0 + r + 1
    <2>1. at \in Nat \ {0} /\ c + 1 \in Nat /\ c + 1 > 0 BY Sizes
    <2>2. Visible(lines, r, c) = IF at <= n THEN Letter(lines[at], c) ELSE " " BY <1>2, VisibleIs
    <2>3. Visible(more, r, c) = IF at <= n + 1 THEN Letter(more[at], c) ELSE " " BY <1>1, <1>2, VisibleIs
    <2> HIDE DEF at, n
    <2>4. CASE at <= n
      <3>1. at <= n + 1 /\ more[at] = lines[at] BY <2>1, <2>4, <1>1
      <3> QED BY <2>2, <2>3, <2>4, <3>1
    <2>5. CASE at = n + 1
      <3>1. ~(at <= n) /\ ~(c + 1 <= Len(more[at])) BY <2>1, <2>5, <1>0, <1>1
      <3>2. Letter(more[at], c) = " " BY <3>1 DEF Letter
      <3> QED BY <2>2, <2>3, <3>1, <3>2
    <2>6. CASE ~(at <= n + 1)
      <3>1. ~(at <= n) BY <2>1, <2>6, <1>1
      <3> QED BY <2>2, <2>3, <2>6, <3>1
    <2> QED BY <2>1, <2>4, <2>5, <2>6, <1>1
  <1>4. Shows(screen, more) BY <1>3 DEF Shows
  <1> QED BY <1>4 DEF more

(* A line begun behind the last row: what is seen moves up one row. *)
LEMMA ScrollVisible ==
    ASSUME NEW lines \in Seq(Seq(AllChars)), Len(lines) >= HEIGHT,
           NEW r \in 0 .. HEIGHT - 1, NEW c \in 0 .. WIDTH - 1
    PROVE  Visible(Append(lines, <<>>), r, c) =
               IF r < HEIGHT - 1 THEN Visible(lines, r + 1, c) ELSE " "
  <1> DEFINE more == Append(lines, <<>>)
             n == Len(lines)
  <1>0. <<>> \in Seq(AllChars) /\ Len(<<>>) = 0 /\ HEIGHT \in Nat /\ HEIGHT > 0 BY Sizes
  <1>1. /\ n \in Nat /\ Len(more) = n + 1 /\ more[n + 1] = <<>> /\ \A j \in 1 .. n : more[j] = lines[j]
    BY <1>0
  <1>2. Top(lines) = n - HEIGHT /\ Top(more) = n + 1 - HEIGHT BY <1>0, <1>1 DEF Top
  <1> DEFINE at == (n + 1 - HEIGHT) + r + 1
  <1>3. at \in Nat \ {0} /\ c + 1 \in Nat /\ c + 1 > 0 /\ r \in Nat BY <1>0, <1>1, Sizes
  <1>4. Visible(more, r, c) = IF at <= n + 1 THEN Letter(more[at], c) ELSE " " BY <1>1, <1>2, VisibleIs
  <1>5. CASE r < HEIGHT - 1
    <2>1. (n - HEIGHT) + (r + 1) + 1 = at BY <1>0, <1>1, <1>3
    <2>2. Visible(lines, r + 1, c) = IF at <= n THEN Letter(lines[at], c) ELSE " " BY <1>2, <2>1, VisibleIs
    <2>3. at <= n /\ at <= n + 1 BY <1>0, <1>1, <1>3, <1>5
    <2> HIDE DEF at, more, n
    <2>4. more[at] = lines[at] BY <1>1, <1>3, <2>3
    <2>5. Visible(more, r, c) = Visible(lines, r + 1, c) BY <1>4, <2>2, <2>3, <2>4
    <2> QED BY <1>5, <2>5 DEF more
  <1>6. CASE ~(r < HEIGHT - 1)
    <2>0. r = HEIGHT - 1 BY <1>0, <1>3, <1>6
    <2>1. at = n + 1 BY <1>0, <1>1, <2>0
    <2> HIDE DEF at, more, n
    <2>2. ~(c + 1 <= Len(more[at])) BY <2>1, <1>0, <1>1, <1>3
    <2>3. Visible(more, r, c) = " " BY <1>4, <2>2 DEF Letter
    <2> QED BY <1>6, <2>3 DEF more
  <1> QED BY <1>5, <1>6

-----------------------------------------------------------------------------
(* What a step of a thread does to the screen, the place and the devices.  *)
Talk == {"get_color", "set_color", "format", "strlen", "write", "bzero", "restore"}

LEMMA DeviceEffect ==
    ASSUME TypesInv, NEW x \in Threads, Printing(x)
    PROVE  LET t == th[x]
               u == th'[x]
           IN /\ t.at \in Talk => /\ io'.screen = io.screen /\ io'.pos = io.pos
                                  /\ u.at \in Quiet \cup {"idle"}
              /\ t.at \in Stored => /\ io'.screen = io.screen /\ io'.pos = io.pos
                                    /\ u.pos = t.pos
                                    /\ u.at \in (Stored \cup {"write", "idle"}) \ {"select_H"}
              /\ t.at \notin Stored => io'.crtc = io.crtc
              /\ u.at \in Quiet \cup {"idle"} => t.at \in Talk \cup {"data_L"}
              /\ u.at \in Stored => t.at \in SetPos
              /\ t.at = "outb" \/ io'.thr_full = io.thr_full
              /\ u.at = "outb" => t.at = "poll" /\ ~io.thr_full
              /\ t.at = "select_H" => u.at = "data_H" /\ io'.crtc = [io.crtc EXCEPT !.index = "H"]
              /\ t.at = "data_H" => /\ u.at = "select_L"
                                    /\ io'.crtc = [io.crtc EXCEPT ![io.crtc.index] = Index(t.pos) \div UINT8]
              /\ t.at = "select_L" => u.at = "data_L" /\ io'.crtc = [io.crtc EXCEPT !.index = "L"]
              /\ t.at = "data_L" => /\ u.at \in {"write", "idle"}
                                    /\ io'.crtc = [io.crtc EXCEPT ![io.crtc.index] = Index(t.pos) % UINT8]
  <1>1. io \in Memory /\ th \in [Threads -> Locals] BY DEF TypesInv
  <1> USE DEF At, Go, SetIo, SetPos, Stored, Talk, Quiet
  <1>2. CASE get_color(x) BY <1>1, <1>2 DEF get_color, Memory, Locals
  <1>3. CASE set_color(x) BY <1>1, <1>3 DEF set_color, Memory, Locals
  <1>4. CASE _vsnprintf(x) BY <1>1, <1>4 DEF _vsnprintf, Memory, Locals, _out_buffer
  <1>5. CASE strlen(x)
    <2>1. th[x].at = "strlen" /\ io' = io BY <1>5 DEF strlen
    <2>2. CASE io.buf[th[x].len] # NUL /\ th' = [th EXCEPT ![x].len = @ + 1]
      BY <1>1, <2>1, <2>2 DEF Memory, Locals
    <2>3. CASE io.buf[th[x].len] = NUL /\ Go(x, "write")
      BY <1>1, <2>1, <2>3 DEF Memory, Locals
    <2> QED BY <1>5, <2>2, <2>3, Alternatives
  <1>6. CASE write(x) BY <1>1, <1>6 DEF write, Memory, Locals
  <1>7. CASE newline(x) BY <1>1, <1>7 DEF newline, Memory, Locals
  <1>8. CASE newline_col(x) BY <1>1, <1>8 DEF newline_col, Memory, Locals
  <1>9. CASE tab(x) BY <1>1, <1>9 DEF tab, Memory, Locals
  <1>10. CASE backspace(x)
    <2>1. th[x].at = "put_char" BY <1>10 DEF backspace
    <2>2. CASE io.pos.col > 0 /\ io' = [io EXCEPT !.pos.col = @ - 1]
              /\ Latch(x, Index(io.pos) - 1, " ", "erase")
      <3>1. io'.crtc = io.crtc /\ io'.thr_full = io.thr_full BY <1>1, <2>2 DEF Memory
      <3>2. PICK idx :
              th' = [th EXCEPT ![x].at = "erase", ![x].idx = idx, ![x].c = " ", ![x].color = io.color]
        BY <2>2 DEF Latch
      <3>3. th'[x].at = "erase" BY <1>1, <3>2 DEF Locals
      <3> QED BY <2>1, <3>1, <3>3
    <2>3. CASE io' = io /\ Go(x, "scroll")
      <3>1. th'[x].at = "scroll" BY <1>1, <2>3 DEF Locals
      <3> QED BY <2>1, <2>3, <3>1
    <2> QED BY <1>10, <2>2, <2>3, Alternatives
  <1>11. CASE put_char(x)
    <2>1. th[x].at = "put_char" /\ io' = io BY <1>11 DEF put_char
    <2>2. PICK idx :
            th' = [th EXCEPT ![x].at = "entry", ![x].idx = idx, ![x].c = th[x].c, ![x].color = io.color]
      BY <1>11 DEF put_char, Latch
    <2>3. th'[x].at = "entry" BY <1>1, <2>2 DEF Locals
    <2> QED BY <2>1, <2>3
  <1>12. CASE put_entry_at(x) BY <1>1, <1>12 DEF put_entry_at, Memory, Locals
  <1>13. CASE serial_wait(x) BY <1>1, <1>13 DEF serial_wait, Memory, Locals
  <1>14. CASE serial_putc(x) BY <1>1, <1>14 DEF serial_putc, Memory, Locals, NL, CR
  <1>15. CASE advance(x) BY <1>1, <1>15 DEF advance, Memory, Locals
  <1>16. CASE wrap_col(x) BY <1>1, <1>16 DEF wrap_col, Memory, Locals
  <1>17. CASE wrap_row(x) BY <1>1, <1>17 DEF wrap_row, Memory, Locals
  <1>18. CASE scroll(x) BY <1>1, <1>18 DEF scroll, Memory, Locals
  <1>19. CASE scroll_copy(x)
    <2>1. th[x].at = "copy" BY <1>19 DEF scroll_copy
    <2>2. CASE th' = [th EXCEPT ![x].n = @ + 1] /\ \E cell : io' = [io EXCEPT !.screen[th[x].n] = cell]
      BY <1>1, <2>1, <2>2 DEF Memory, Locals
    <2>3. CASE io' = [io EXCEPT !.pos.row = HEIGHT - 1] /\ Go(x, "set_pos")
      BY <1>1, <2>1, <2>3 DEF Memory, Locals
    <2> QED BY <1>19, <2>2, <2>3, Alternatives
  <1>20. CASE set_pos(x) BY <1>1, <1>20 DEF set_pos, Memory, Locals
  <1>21. CASE store(x) BY <1>1, <1>21 DEF store, Memory, Locals
  <1>22. CASE Select(x)
    <2>1. CASE At(x, "select_H") /\ SetIo(x, [io EXCEPT !.crtc.index = "H"], "data_H")
      BY <1>1, <2>1 DEF Memory, Locals
    <2>2. CASE At(x, "select_L") /\ SetIo(x, [io EXCEPT !.crtc.index = "L"], "data_L")
      BY <1>1, <2>2 DEF Memory, Locals
    <2> QED BY <1>22, <2>1, <2>2 DEF Select
  <1>23. CASE CursorData(x)
    <2>1. CASE /\ At(x, "data_H")
               /\ SetIo(x, [io EXCEPT !.crtc[io.crtc.index] = Index(th[x].pos) \div UINT8], "select_L")
      BY <1>1, <2>1 DEF Memory, Locals
    <2>2. CASE /\ At(x, "data_L")
               /\ SetIo(x, [io EXCEPT !.crtc[io.crtc.index] = Index(th[x].pos) % UINT8], AfterSetPos(x))
      BY <1>1, <2>2 DEF Memory, Locals, AfterSetPos
    <2> QED BY <1>23, <2>1, <2>2 DEF CursorData
  <1>24. CASE bzero(x)
    <2>1. th[x].at = "bzero" BY <1>24 DEF bzero
    <2>2. CASE th[x].i < BUF_SIZE /\ th' = [th EXCEPT ![x].i = @ + 1]
              /\ io' = [io EXCEPT !.buf[th[x].i] = NUL]
      BY <1>1, <2>1, <2>2 DEF Memory, Locals
    <2>3. CASE ~(th[x].i < BUF_SIZE) /\ io' = io
              /\ Go(x, IF th[x].fn = "printf" THEN "idle" ELSE "restore")
      BY <1>1, <2>1, <2>3 DEF Memory, Locals
    <2> QED BY <1>24, <2>2, <2>3, Alternatives
  <1>25. CASE restore_color(x) BY <1>1, <1>25 DEF restore_color, Memory, Locals, Ended
  <1>26. CASE clear(x)
    <2>1. th[x].at = "clear" BY <1>26 DEF clear
    <2>2. CASE th' = [th EXCEPT ![x].n = @ + 1] /\ \E cell : io' = [io EXCEPT !.screen[th[x].n] = cell]
      BY <1>1, <2>1, <2>2 DEF Memory, Locals
    <2>3. CASE io' = io /\ th' = [th EXCEPT ![x].at = "store", ![x].pos = Home]
      BY <1>1, <2>1, <2>3 DEF Memory, Locals
    <2> QED BY <1>26, <2>2, <2>3, Alternatives
  <1> QED
    BY <1>2, <1>3, <1>4, <1>5, <1>6, <1>7, <1>8, <1>9, <1>10, <1>11, <1>12, <1>13, <1>14,
       <1>15, <1>16, <1>17, <1>18, <1>19, <1>20, <1>21, <1>22, <1>23, <1>24, <1>25, <1>26
    DEF Printing, escapeconv

(* The action of a thread is told by where it is. *)
LEMMA ActionAt ==
    ASSUME NEW x \in Threads, Printing(x)
    PROVE  LET t == th[x] IN
           /\ t.at = "put_char" /\ t.c = NL => newline(x)
           /\ t.at = "put_char" /\ t.c \notin Escapes => put_char(x)
           /\ t.at = "newline_col" => newline_col(x)
           /\ t.at = "entry" => put_entry_at(x)
           /\ t.at = "poll" => serial_wait(x)
           /\ t.at = "outb" => serial_putc(x)
           /\ t.at = "advance" => advance(x)
           /\ t.at = "wrap_col" => wrap_col(x)
           /\ t.at = "wrap_row" => wrap_row(x)
           /\ t.at = "scroll" => scroll(x)
           /\ t.at = "copy" => scroll_copy(x)
           /\ t.at = "set_pos" => set_pos(x)
           /\ t.at = "store" => store(x)
           /\ t.at = "clear" => clear(x)
  <1> USE DEF At
  <1>1. get_color(x) => th[x].at = "get_color" BY DEF get_color
  <1>2. set_color(x) => th[x].at = "set_color" BY DEF set_color
  <1>3. _vsnprintf(x) => th[x].at = "format" BY DEF _vsnprintf
  <1>4. strlen(x) => th[x].at = "strlen" BY DEF strlen
  <1>5. write(x) => th[x].at = "write" BY DEF write
  <1>6. newline(x) => th[x].at = "put_char" /\ th[x].c = NL BY DEF newline
  <1>7. newline_col(x) => th[x].at = "newline_col" BY DEF newline_col
  <1>8. tab(x) => th[x].at = "put_char" /\ th[x].c = TAB BY DEF tab
  <1>9. backspace(x) => th[x].at = "put_char" /\ th[x].c = BS BY DEF backspace
  <1>10. put_char(x) => th[x].at = "put_char" /\ th[x].c \notin Escapes BY DEF put_char
  <1>11. put_entry_at(x) => th[x].at \in {"entry", "erase"} BY DEF put_entry_at
  <1>12. serial_wait(x) => th[x].at = "poll" BY DEF serial_wait
  <1>13. serial_putc(x) => th[x].at = "outb" BY DEF serial_putc
  <1>14. advance(x) => th[x].at = "advance" BY DEF advance
  <1>15. wrap_col(x) => th[x].at = "wrap_col" BY DEF wrap_col
  <1>16. wrap_row(x) => th[x].at = "wrap_row" BY DEF wrap_row
  <1>17. scroll(x) => th[x].at = "scroll" BY DEF scroll
  <1>18. scroll_copy(x) => th[x].at = "copy" BY DEF scroll_copy
  <1>19. set_pos(x) => th[x].at = "set_pos" BY DEF set_pos
  <1>20. store(x) => th[x].at = "store" BY DEF store
  <1>21. Select(x) => th[x].at \in {"select_H", "select_L"} BY DEF Select
  <1>22. CursorData(x) => th[x].at \in {"data_H", "data_L"} BY DEF CursorData
  <1>23. bzero(x) => th[x].at = "bzero" BY DEF bzero
  <1>24. restore_color(x) => th[x].at = "restore" BY DEF restore_color
  <1>25. clear(x) => th[x].at = "clear" BY DEF clear
  <1>26. {NL, TAB, BS} = Escapes /\ NL # TAB /\ NL # BS BY DEF Escapes, NL, TAB, BS
  <1> QED
    BY <1>1, <1>2, <1>3, <1>4, <1>5, <1>6, <1>7, <1>8, <1>9, <1>10, <1>11, <1>12, <1>13, <1>14,
       <1>15, <1>16, <1>17, <1>18, <1>19, <1>20, <1>21, <1>22, <1>23, <1>24, <1>25, <1>26
    DEF Printing, escapeconv

(* How a character comes to the screen and moves the place. *)
LEMMA DrawEffect ==
    ASSUME TypesInv, NEW x \in Threads, Printing(x)
    PROVE  LET t == th[x]
               u == th'[x]
           IN /\ t.at = "put_char" /\ t.c = NL =>
                   /\ u.at = "newline_col" /\ u.c = NL /\ io'.screen = io.screen
                   /\ io'.pos = [io.pos EXCEPT !.row = (io.pos.row + 1) % UINT8]
              /\ t.at = "put_char" /\ t.c \notin Escapes =>
                   io' = io /\ u.at = "entry" /\ u.c = t.c /\ u.idx = Index(io.pos)
              /\ t.at = "newline_col" =>
                   /\ u.at = "poll" /\ u.c = t.c /\ io'.screen = io.screen
                   /\ io'.pos = [io.pos EXCEPT !.col = 0]
              /\ t.at = "entry" =>
                   /\ u.at = "poll" /\ u.c = t.c /\ io'.pos = io.pos
                   /\ io'.screen = [io.screen EXCEPT ![t.idx] = <<t.c, t.color>>]
              /\ t.at = "poll" => io' = io /\ u.at = "outb" /\ u.c = t.c
              /\ t.at = "outb" =>
                   /\ io'.screen = io.screen /\ io'.pos = io.pos
                   /\ t.c = NL => u.at = "poll" /\ u.c = CR
                   /\ t.c = CR => u.at = "scroll"
                   /\ t.c \notin {NL, CR} => u.at = "advance" /\ u.c = t.c
  <1> DEFINE t == th[x]
  <1>1. io \in Memory /\ th \in [Threads -> Locals] /\ t \in Locals BY DEF TypesInv
  <1> USE DEF At, Go, SetIo
  <1>2. ASSUME t.at = "put_char", t.c = NL
        PROVE  /\ th'[x].at = "newline_col" /\ th'[x].c = NL /\ io'.screen = io.screen
               /\ io'.pos = [io.pos EXCEPT !.row = (io.pos.row + 1) % UINT8]
    <2>1. newline(x) BY <1>2, ActionAt
    <2>2. io' = [io EXCEPT !.pos.row = (@ + 1) % UINT8] /\ th' = [th EXCEPT ![x].at = "newline_col"]
      BY <2>1 DEF newline
    <2>3. th'[x].at = "newline_col" /\ th'[x].c = t.c BY <1>1, <2>2 DEF Locals
    <2>4. io'.screen = io.screen /\ io'.pos = [io.pos EXCEPT !.row = (io.pos.row + 1) % UINT8]
      BY <1>1, <2>2 DEF Memory
    <2> QED BY <1>2, <2>3, <2>4
  <1>3. ASSUME t.at = "put_char", t.c \notin Escapes
        PROVE  io' = io /\ th'[x].at = "entry" /\ th'[x].c = t.c /\ th'[x].idx = Index(io.pos)
    <2>1. put_char(x) BY <1>3, ActionAt
    <2>2. PICK idx : /\ idx = Index(io.pos)
                     /\ th' = [th EXCEPT ![x].at = "entry", ![x].idx = idx, ![x].c = th[x].c, ![x].color = io.color]
      BY <2>1 DEF put_char, Latch
    <2>3. th'[x].at = "entry" /\ th'[x].idx = idx /\ th'[x].c = th[x].c BY <1>1, <2>2 DEF Locals
    <2>4. io' = io BY <2>1 DEF put_char
    <2> QED BY <2>2, <2>3, <2>4
  <1>4. ASSUME t.at = "newline_col"
        PROVE  /\ th'[x].at = "poll" /\ th'[x].c = t.c /\ io'.screen = io.screen
               /\ io'.pos = [io.pos EXCEPT !.col = 0]
    <2>1. newline_col(x) BY <1>4, ActionAt
    <2>2. io' = [io EXCEPT !.pos.col = 0] /\ th' = [th EXCEPT ![x].at = "poll"] BY <2>1 DEF newline_col
    <2> QED BY <1>1, <2>2 DEF Memory, Locals
  <1>5. ASSUME t.at = "entry"
        PROVE  /\ th'[x].at = "poll" /\ th'[x].c = t.c /\ io'.pos = io.pos
               /\ io'.screen = [io.screen EXCEPT ![t.idx] = <<t.c, t.color>>]
    <2>1. put_entry_at(x) BY <1>5, ActionAt
    <2>2. io' = [io EXCEPT !.screen[t.idx] = <<t.c, t.color>>] /\ th' = [th EXCEPT ![x].at = "poll"]
      BY <1>5, <2>1 DEF put_entry_at
    <2>3. io'.pos = io.pos /\ io'.screen = [io.screen EXCEPT ![t.idx] = <<t.c, t.color>>]
      BY <1>1, <2>2 DEF Memory
    <2>4. th'[x].at = "poll" /\ th'[x].c = t.c BY <1>1, <2>2 DEF Locals
    <2> QED BY <2>3, <2>4
  <1>6. ASSUME t.at = "poll" PROVE io' = io /\ th'[x].at = "outb" /\ th'[x].c = t.c
    <2>1. serial_wait(x) BY <1>6, ActionAt
    <2> QED BY <1>1, <2>1 DEF serial_wait, Locals
  <1>7. ASSUME t.at = "outb"
        PROVE  /\ io'.screen = io.screen /\ io'.pos = io.pos
               /\ t.c = NL => th'[x].at = "poll" /\ th'[x].c = CR
               /\ t.c = CR => th'[x].at = "scroll"
               /\ t.c \notin {NL, CR} => th'[x].at = "advance" /\ th'[x].c = t.c
    <2>1. serial_putc(x) BY <1>7, ActionAt
    <2>2. io' = [io EXCEPT !.thr_full = TRUE] BY <2>1 DEF serial_putc
    <2>3. io'.screen = io.screen /\ io'.pos = io.pos BY <1>1, <2>2 DEF Memory
    <2>4. CASE t.c = NL
      <3>1. th' = [th EXCEPT ![x].at = "poll", ![x].c = CR] BY <2>1, <2>4 DEF serial_putc, NL, CR
      <3>2. th'[x].at = "poll" /\ th'[x].c = CR BY <1>1, <3>1 DEF Locals
      <3> QED BY <2>3, <2>4, <3>2 DEF NL, CR
    <2>5. CASE t.c = CR
      <3>1. th' = [th EXCEPT ![x].at = "scroll"] BY <2>1, <2>5 DEF serial_putc, NL, CR
      <3>2. th'[x].at = "scroll" BY <1>1, <3>1 DEF Locals
      <3> QED BY <2>3, <2>5, <3>2 DEF NL, CR
    <2>6. CASE t.c \notin {NL, CR}
      <3>1. th' = [th EXCEPT ![x].at = "advance"] BY <2>1, <2>6 DEF serial_putc
      <3>2. th'[x].at = "advance" /\ th'[x].c = t.c BY <1>1, <3>1 DEF Locals
      <3> QED BY <2>3, <2>6, <3>2
    <2> QED BY <2>4, <2>5, <2>6
  <1> HIDE DEF t
  <1> QED BY <1>2, <1>3, <1>4, <1>5, <1>6, <1>7 DEF t

(* How the place wraps, the screen scrolls and the place is stored. *)
LEMMA MoveEffect ==
    ASSUME TypesInv, NEW x \in Threads, Printing(x)
    PROVE  LET t == th[x]
               u == th'[x]
           IN /\ t.at = "advance" =>
                   /\ io'.screen = io.screen
                   /\ io'.pos = [io.pos EXCEPT !.col = (io.pos.col + 1) % UINT8]
                   /\ u.at = IF (io.pos.col + 1) % UINT8 >= WIDTH THEN "wrap_col" ELSE "scroll"
              /\ t.at = "wrap_col" =>
                   io'.screen = io.screen /\ io'.pos = [io.pos EXCEPT !.col = 0] /\ u.at = "wrap_row"
              /\ t.at = "wrap_row" =>
                   /\ io'.screen = io.screen /\ u.at = "scroll"
                   /\ io'.pos = [io.pos EXCEPT !.row = (io.pos.row + 1) % UINT8]
              /\ t.at = "scroll" =>
                   io' = io /\ u.n = 0 /\ u.at = IF io.pos.row >= HEIGHT THEN "copy" ELSE "set_pos"
              /\ t.at = "copy" /\ t.n < HEIGHT * WIDTH =>
                   /\ u.at = "copy" /\ u.n = t.n + 1 /\ io'.pos = io.pos
                   /\ io'.screen = [io.screen EXCEPT ![t.n] = IF t.n < (HEIGHT - 1) * WIDTH
                                       THEN io.screen[t.n + WIDTH] ELSE <<" ", io.color>>]
              /\ t.at = "copy" /\ ~(t.n < HEIGHT * WIDTH) =>
                   /\ u.at = "set_pos" /\ io'.screen = io.screen
                   /\ io'.pos = [io.pos EXCEPT !.row = HEIGHT - 1]
              /\ t.at = "set_pos" => io' = io /\ u.at = "store" /\ u.pos = io.pos
              /\ t.at = "store" =>
                   io'.screen = io.screen /\ io'.pos = t.pos /\ u.at = "select_H" /\ u.pos = t.pos
              /\ t.at = "clear" /\ t.n < HEIGHT * WIDTH =>
                   /\ u.at = "clear" /\ u.n = t.n + 1
                   /\ io'.screen = [io.screen EXCEPT ![t.n] = <<" ", io.color>>]
              /\ t.at = "clear" /\ ~(t.n < HEIGHT * WIDTH) =>
                   io' = io /\ u.at = "store" /\ u.pos = Home
  <1> DEFINE t == th[x]
  <1>1. io \in Memory /\ th \in [Threads -> Locals] /\ t \in Locals BY DEF TypesInv
  <1> USE DEF At, Go, SetIo
  <1>2. ASSUME t.at = "advance"
        PROVE  /\ io'.screen = io.screen
               /\ io'.pos = [io.pos EXCEPT !.col = (io.pos.col + 1) % UINT8]
               /\ th'[x].at = IF (io.pos.col + 1) % UINT8 >= WIDTH THEN "wrap_col" ELSE "scroll"
    <2> DEFINE col == (io.pos.col + 1) % UINT8
               l == IF col >= WIDTH THEN "wrap_col" ELSE "scroll"
    <2>1. advance(x) BY <1>2, ActionAt
    <2>2. io' = [io EXCEPT !.pos.col = col] /\ th' = [th EXCEPT ![x].at = l] BY <2>1 DEF advance
    <2> HIDE DEF col, l
    <2>3. io'.screen = io.screen /\ io'.pos = [io.pos EXCEPT !.col = col] BY <1>1, <2>2 DEF Memory
    <2>4. th'[x].at = l BY <1>1, <2>2 DEF Locals
    <2> QED BY <2>3, <2>4 DEF col, l
  <1>3. ASSUME t.at = "wrap_col"
        PROVE  io'.screen = io.screen /\ io'.pos = [io.pos EXCEPT !.col = 0] /\ th'[x].at = "wrap_row"
    <2>1. wrap_col(x) BY <1>3, ActionAt
    <2> QED BY <1>1, <2>1 DEF wrap_col, Memory, Locals
  <1>4. ASSUME t.at = "wrap_row"
        PROVE  /\ io'.screen = io.screen /\ th'[x].at = "scroll"
               /\ io'.pos = [io.pos EXCEPT !.row = (io.pos.row + 1) % UINT8]
    <2> DEFINE row == (io.pos.row + 1) % UINT8
    <2>1. wrap_row(x) BY <1>4, ActionAt
    <2>2. io' = [io EXCEPT !.pos.row = row] /\ th' = [th EXCEPT ![x].at = "scroll"] BY <2>1 DEF wrap_row
    <2> HIDE DEF row
    <2> QED BY <1>1, <2>2 DEF Memory, Locals, row
  <1>5. ASSUME t.at = "scroll"
        PROVE  io' = io /\ th'[x].n = 0 /\ th'[x].at = IF io.pos.row >= HEIGHT THEN "copy" ELSE "set_pos"
    <2>1. scroll(x) BY <1>5, ActionAt
    <2> QED BY <1>1, <2>1 DEF scroll, Locals
  <1>6. ASSUME t.at = "copy", t.n < HEIGHT * WIDTH
        PROVE  /\ th'[x].at = "copy" /\ th'[x].n = t.n + 1 /\ io'.pos = io.pos
               /\ io'.screen = [io.screen EXCEPT ![t.n] = IF t.n < (HEIGHT - 1) * WIDTH
                                   THEN io.screen[t.n + WIDTH] ELSE <<" ", io.color>>]
    <2> DEFINE cell == IF t.n < (HEIGHT - 1) * WIDTH THEN io.screen[t.n + WIDTH] ELSE <<" ", io.color>>
    <2>1. scroll_copy(x) BY <1>6, ActionAt
    <2>2. io' = [io EXCEPT !.screen[t.n] = cell] /\ th' = [th EXCEPT ![x].n = @ + 1]
      BY <1>6, <2>1 DEF scroll_copy
    <2> HIDE DEF cell
    <2>3. io'.pos = io.pos /\ io'.screen = [io.screen EXCEPT ![t.n] = cell] BY <1>1, <2>2 DEF Memory
    <2>4. th'[x].at = t.at /\ th'[x].n = t.n + 1 BY <1>1, <2>2 DEF Locals
    <2> QED BY <1>6, <2>3, <2>4 DEF cell
  <1>7. ASSUME t.at = "copy", ~(t.n < HEIGHT * WIDTH)
        PROVE  /\ th'[x].at = "set_pos" /\ io'.screen = io.screen
               /\ io'.pos = [io.pos EXCEPT !.row = HEIGHT - 1]
    <2>1. scroll_copy(x) BY <1>7, ActionAt
    <2>2. io' = [io EXCEPT !.pos.row = HEIGHT - 1] /\ th' = [th EXCEPT ![x].at = "set_pos"]
      BY <1>7, <2>1 DEF scroll_copy
    <2> QED BY <1>1, <2>2 DEF Memory, Locals
  <1>8. ASSUME t.at = "set_pos" PROVE io' = io /\ th'[x].at = "store" /\ th'[x].pos = io.pos
    <2>1. set_pos(x) BY <1>8, ActionAt
    <2> QED BY <1>1, <2>1 DEF set_pos, Locals
  <1>9. ASSUME t.at = "store"
        PROVE  io'.screen = io.screen /\ io'.pos = t.pos /\ th'[x].at = "select_H" /\ th'[x].pos = t.pos
    <2>1. store(x) BY <1>9, ActionAt
    <2> QED BY <1>1, <2>1 DEF store, Memory, Locals
  <1>10. ASSUME t.at = "clear", t.n < HEIGHT * WIDTH
         PROVE  /\ th'[x].at = "clear" /\ th'[x].n = t.n + 1
                /\ io'.screen = [io.screen EXCEPT ![t.n] = <<" ", io.color>>]
    <2>1. clear(x) BY <1>10, ActionAt
    <2>2. io' = [io EXCEPT !.screen[t.n] = <<" ", io.color>>] /\ th' = [th EXCEPT ![x].n = @ + 1]
      BY <1>10, <2>1 DEF clear
    <2>3. io'.screen = [io.screen EXCEPT ![t.n] = <<" ", io.color>>] BY <1>1, <2>2 DEF Memory
    <2>4. th'[x].at = t.at /\ th'[x].n = t.n + 1 BY <1>1, <2>2 DEF Locals
    <2> QED BY <1>10, <2>3, <2>4
  <1>11. ASSUME t.at = "clear", ~(t.n < HEIGHT * WIDTH)
         PROVE  io' = io /\ th'[x].at = "store" /\ th'[x].pos = Home
    <2>1. clear(x) BY <1>11, ActionAt
    <2>2. io' = io /\ th' = [th EXCEPT ![x].at = "store", ![x].pos = Home] BY <1>11, <2>1 DEF clear
    <2>3. th'[x].at = "store" /\ th'[x].pos = Home BY <1>1, <2>2 DEF Locals
    <2> QED BY <2>2, <2>3
  <1> HIDE DEF t
  <1> QED BY <1>2, <1>3, <1>4, <1>5, <1>6, <1>7, <1>8, <1>9, <1>10, <1>11 DEF t

-----------------------------------------------------------------------------
(* A message that nobody has interrupted is written from its own text, and *)
(* a text holds neither NUL nor CR.                                        *)
LEMMA CharIsOfText ==
    ASSUME IInv, NEW x \in Threads, ~hist.disturbed, th[x].at = "put_char"
    PROVE  th[x].c \in Chars /\ th[x].c \in AllChars /\ th[x].c # CR
  <1> DEFINE t == th[x]
  <1>1. TypesInv /\ ControlInv /\ SaidInv BY DEF IInv
  <1>2. t \in Locals BY <1>1 DEF TypesInv
  <1>3. t.fn # "clear" BY <1>1 DEF ControlInv, SetPos, Idle, Threads
  <1>4. Undisturbed(x) BY <1>3 DEF Undisturbed
  <1>5. t.i >= 1 /\ t.c = t.text[t.i] /\ t.i <= End(x) BY <1>1, <1>4 DEF SaidInv, Writing
  <1>6. t.i \in Nat /\ t.text \in Seq(Chars) BY <1>2 DEF Locals
  <1>7. Len(t.text) \in Nat /\ \A j \in 1 .. Len(t.text) : t.text[j] \in Chars BY <1>6
  <1>8. End(x) <= Len(t.text) BY <1>7, Sizes DEF End, TerminatorAt
  <1>9. End(x) \in Nat BY <1>7, Sizes DEF End, TerminatorAt
  <1> HIDE DEF t
  <1>10. t.i \in 1 .. Len(t.text) BY <1>5, <1>6, <1>7, <1>8, <1>9
  <1>11. t.c \in Chars BY <1>5, <1>7, <1>10
  <1> QED BY <1>11, TextsAssumption DEF t, AllChars

(* Where a text goes on is on the screen. *)
LEMMA PlaceIs ==
    ASSUME NEW lines, IsLines(lines)
    PROVE  /\ Row(lines) \in 0 .. HEIGHT - 1 /\ Len(lines[Len(lines)]) \in 0 .. WIDTH - 1
           /\ PlaceOf(lines) \in Places
           /\ PlaceOf(lines).row = Row(lines) /\ PlaceOf(lines).col = Len(lines[Len(lines)])
           /\ (PlaceOf(lines).row + 1) % UINT8 = Row(lines) + 1
           /\ (PlaceOf(lines).col + 1) % UINT8 = Len(lines[Len(lines)]) + 1
  <1> DEFINE n == Len(lines)
             last == lines[n]
  <1>1. n \in Nat /\ n >= 1 /\ lines \in Seq(Seq(AllChars)) /\ Len(last) < WIDTH BY DEF IsLines
  <1>2. n \in 1 .. n BY <1>1
  <1>3. last \in Seq(AllChars) BY <1>1, <1>2
  <1>4. Len(last) \in Nat BY <1>3
  <1>5. PlaceOf(lines) = [col |-> Len(last), row |-> Row(lines)] BY DEF PlaceOf, Last
  <1> HIDE DEF n, last
  <1>6. Len(last) \in 0 .. WIDTH - 1 BY <1>1, <1>4, Sizes
  <1>7. Row(lines) \in 0 .. HEIGHT - 1 BY <1>1, Sizes DEF Row, n
  <1>8. Len(last) \in Byte /\ Row(lines) \in Byte BY <1>6, <1>7, Sizes DEF Byte
  <1>9. (Row(lines) + 1) % UINT8 = Row(lines) + 1
    <2>1. Row(lines) + 1 \in Nat /\ Row(lines) + 1 < UINT8 BY <1>7, Sizes
    <2> QED BY <2>1, InByte
  <1>10. (Len(last) + 1) % UINT8 = Len(last) + 1
    <2>1. Len(last) + 1 \in Nat /\ Len(last) + 1 < UINT8 BY <1>6, Sizes
    <2> QED BY <2>1, InByte
  <1> QED BY <1>5, <1>6, <1>7, <1>8, <1>9, <1>10 DEF Places, n, last

(* An empty line behind the others. *)
LEMMA NewLineIs ==
    ASSUME NEW lines \in Seq(Seq(AllChars)), Len(lines) >= 1
    PROVE  LET more == Append(lines, <<>>) IN
           /\ Front(more) = lines /\ Len(more) = Len(lines) + 1 /\ more[Len(more)] = <<>>
           /\ PlaceOf(more) = [col |-> 0, row |-> IF Len(lines) < HEIGHT THEN Len(lines) ELSE HEIGHT - 1]
  <1> DEFINE more == Append(lines, <<>>)
  <1>1. <<>> \in Seq(AllChars) /\ Len(<<>>) = 0 OBVIOUS
  <1>2. Front(more) = lines BY <1>1, FrontOfAppend
  <1>3. Len(more) = Len(lines) + 1 /\ more[Len(lines) + 1] = <<>> /\ Len(lines) \in Nat BY <1>1
  <1>4. Last(more) = <<>> BY <1>3 DEF Last
  <1> HIDE DEF more
  <1>5. Row(more) = IF Len(lines) < HEIGHT THEN Len(lines) ELSE HEIGHT - 1
    BY <1>3, Sizes DEF Row
  <1>6. PlaceOf(more) = [col |-> 0, row |-> Row(more)] BY <1>1, <1>4 DEF PlaceOf
  <1> QED BY <1>2, <1>3, <1>5, <1>6 DEF more

(* The last character of a text, and the text before it. *)
LEMMA LastOf ==
    ASSUME NEW text \in Seq(AllChars), text # <<>>
    PROVE  /\ Front(text) \in Seq(AllChars) /\ Last(text) \in AllChars
           /\ text = Append(Front(text), Last(text))
           /\ Lines(text) = AddChar(Lines(Front(text)), Last(text))
  <1>1. Len(text) \in Nat /\ Len(text) > 0 BY EmptySeq
  <1>2. Last(text) \in AllChars
    <2>1. Len(text) \in 1 .. Len(text) BY <1>1
    <2> QED BY <2>1 DEF Last
  <1>3. Front(text) \in Seq(AllChars) /\ Len(Front(text)) = Len(text) - 1
        /\ \A j \in 1 .. Len(text) - 1 : Front(text)[j] = text[j]
    BY <1>1 DEF Front
  <1>4. text = Append(Front(text), Last(text))
    <2> DEFINE f == Front(text)
               c == Last(text)
    <2>0. c = text[Len(text)] BY DEF Last
    <2> HIDE DEF f, c
    <2>1. Append(f, c) \in Seq(AllChars) /\ Len(Append(f, c)) = Len(text) BY <1>1, <1>2, <1>3 DEF f, c
    <2>2. ASSUME NEW j \in 1 .. Len(text) PROVE Append(f, c)[j] = text[j]
      <3>1. CASE j = Len(text)
        <4>1. Append(f, c)[Len(f) + 1] = c BY <1>3 DEF f
        <4>2. Len(f) + 1 = Len(text) BY <1>1, <1>3 DEF f
        <4> QED BY <2>0, <3>1, <4>1, <4>2
      <3>2. CASE j # Len(text)
        <4>1. j \in 1 .. Len(text) - 1 BY <1>1, <3>2
        <4>2. j \in 1 .. Len(f) BY <1>1, <1>3, <4>1 DEF f
        <4>3. Append(f, c)[j] = f[j] BY <1>3, <4>2 DEF f
        <4> QED BY <1>3, <4>1, <4>3 DEF f
      <3> QED BY <3>1, <3>2
    <2> QED BY <1>1, <2>1, <2>2, SeqEqual DEF f, c
  <1> QED BY <1>2, <1>3, <1>4, LinesGrow

LEMMA FrontLines ==
    ASSUME NEW text \in Seq(AllChars)
    PROVE  Front(Lines(text)) \in Seq(Seq(AllChars)) /\ Len(Front(Lines(text))) \in Nat
  <1> DEFINE all == Lines(text)
  <1>1. IsLines(all) BY LinesAre
  <1>2. all \in Seq(Seq(AllChars)) /\ Len(all) >= 1 BY <1>1 DEF IsLines
  <1> HIDE DEF all
  <1>3. Len(all) \in Nat /\ Len(all) - 1 \in Nat BY <1>2
  <1>4. Front(all) \in Seq(Seq(AllChars)) BY <1>2, <1>3 DEF Front
  <1>5. Len(Front(all)) \in Nat BY <1>4
  <1> QED BY <1>4, <1>5 DEF all

LEMMA StaysBelow ==
    /\ \A a, b, c \in Nat : a < b /\ ~(c < b) => a < c
    /\ \A a, b \in Nat : a < b + 1 /\ a # b => a < b
    /\ \A j \in Cells : j \in Nat
  BY Sizes DEF Cells

(* What scroll copies to cell n. *)
Copied(m, n) == IF n < (HEIGHT - 1) * WIDTH THEN m.screen[n + WIDTH] ELSE <<" ", m.color>>

(* Copying the next cell scrolls one more. *)
LEMMA CopyShows ==
    ASSUME NEW old, NEW new, NEW n \in Nat, NEW text \in Seq(AllChars), DOMAIN old.screen = Cells,
           Scrolling(n, old, text), new.pos = old.pos,
           new.screen = [old.screen EXCEPT ![n] = Copied(old, n)]
    PROVE  Scrolling(n + 1, new, text)
  <1> DEFINE lines == Front(Lines(text))
             all == Lines(text)
             Was(r, c) == IF r * WIDTH + c < n THEN Visible(all, r, c) ELSE Visible(lines, r, c)
             Is(r, c) == IF r * WIDTH + c < n + 1 THEN Visible(all, r, c) ELSE Visible(lines, r, c)
  <1>1. /\ all = Append(lines, <<>>) /\ Len(lines) >= HEIGHT /\ old.pos.col = 0
        /\ \A r \in 0 .. HEIGHT - 1, c \in 0 .. WIDTH - 1 : old.screen[r * WIDTH + c][1] = Was(r, c)
    BY DEF Scrolling
  <1>2. lines \in Seq(Seq(AllChars)) BY FrontLines
  <1> HIDE DEF lines, all
  <1>3. ASSUME NEW r \in 0 .. HEIGHT - 1, NEW c \in 0 .. WIDTH - 1
        PROVE  new.screen[r * WIDTH + c][1] = Is(r, c)
    <2> DEFINE idx == r * WIDTH + c
               edge == (HEIGHT - 1) * WIDTH
               next == (r + 1) * WIDTH + c
    <2>1. /\ idx \in Cells
          /\ r < HEIGHT - 1 => idx < edge /\ next = idx + WIDTH
          /\ ~(r < HEIGHT - 1) => ~(idx < edge)
      BY CellIs
    <2>2. Copied(old, idx) = IF idx < edge THEN old.screen[idx + WIDTH] ELSE <<" ", old.color>>
      BY DEF Copied
    <2>3. old.screen[idx][1] = IF idx < n THEN Visible(all, r, c) ELSE Visible(lines, r, c) BY <1>1
    <2>4. Visible(all, r, c) = IF r < HEIGHT - 1 THEN Visible(lines, r + 1, c) ELSE " "
      BY <1>1, <1>2, ScrollVisible
    <2>5. r + 1 \in 0 .. HEIGHT - 1 =>
            old.screen[next][1] = IF next < n THEN Visible(all, r + 1, c) ELSE Visible(lines, r + 1, c)
      BY <1>1
    <2>6. Is(r, c) = IF idx < n + 1 THEN Visible(all, r, c) ELSE Visible(lines, r, c) OBVIOUS
    <2> HIDE DEF idx, edge, next, Was, Is
    <2>7. idx \in Nat BY <2>1, Sizes DEF Cells
    <2>8. CASE idx = n
      <3>1. new.screen[idx] = Copied(old, idx) BY <2>1, <2>8
      <3>2. idx < n + 1 BY <2>7, <2>8
      <3>3. CASE r < HEIGHT - 1
        <4>1. r + 1 \in 0 .. HEIGHT - 1 BY <3>3, Sizes
        <4>2. idx < edge /\ next = idx + WIDTH BY <2>1, <3>3
        <4>3. ~(next < n) BY <2>7, <2>8, <4>2, Sizes
        <4>4. Copied(old, idx) = old.screen[next] BY <2>2, <4>2
        <4>5. new.screen[idx][1] = Visible(lines, r + 1, c) BY <2>5, <3>1, <4>1, <4>3, <4>4
        <4> QED BY <2>4, <2>6, <3>2, <3>3, <4>5 DEF idx
      <3>4. CASE ~(r < HEIGHT - 1)
        <4>1. Copied(old, idx) = <<" ", old.color>> BY <2>1, <2>2, <3>4
        <4>2. \A a, b : <<a, b>>[1] = a OBVIOUS
        <4>3. Copied(old, idx)[1] = " " BY <4>1, <4>2, Zenon
        <4>4. new.screen[idx][1] = Is(r, c) BY <2>4, <2>6, <3>1, <3>2, <3>4, <4>3
        <4> QED BY <4>4, Zenon DEF idx
      <3> QED BY <3>3, <3>4
    <2>9. CASE idx # n
      <3>1. new.screen[idx] = old.screen[idx] BY <2>1, <2>9
      <3>2. (idx < n + 1) <=> (idx < n) BY <2>7, <2>9
      <3> QED BY <2>3, <2>6, <3>1, <3>2 DEF idx
    <2> QED BY <2>8, <2>9
  <1> QED BY <1>1, <1>3 DEF Scrolling, lines, all

(* When all cells are copied the screen shows the line that was begun. *)
LEMMA CopiedShows ==
    ASSUME TypesInv, NEW x \in Threads, NEW text \in Seq(AllChars),
           ~(th[x].n < HEIGHT * WIDTH), Scrolling(th[x].n, io, text),
           io'.screen = io.screen, io'.pos = [io.pos EXCEPT !.row = HEIGHT - 1]
    PROVE  Settled(io', text)
  <1> DEFINE n == th[x].n
             lines == Front(Lines(text))
             all == Lines(text)
  <1>1. n \in Nat /\ io.pos \in Places BY DEF TypesInv, Locals, Memory
  <1>2. /\ all = Append(lines, <<>>) /\ Len(lines) >= HEIGHT /\ io.pos.col = 0
        /\ \A r \in 0 .. HEIGHT - 1, c \in 0 .. WIDTH - 1 :
              io.screen[r * WIDTH + c][1] =
                  IF r * WIDTH + c < n THEN Visible(all, r, c) ELSE Visible(lines, r, c)
    BY DEF Scrolling
  <1>3. lines \in Seq(Seq(AllChars)) /\ Len(lines) \in Nat BY FrontLines
  <1> HIDE DEF n, lines, all
  <1>4. Shows(io'.screen, all)
    <2>1. ASSUME NEW r \in 0 .. HEIGHT - 1, NEW c \in 0 .. WIDTH - 1
          PROVE  io.screen[r * WIDTH + c][1] = Visible(all, r, c)
      <3> DEFINE idx == r * WIDTH + c
      <3>1. idx \in Cells /\ idx < HEIGHT * WIDTH BY CellIs
      <3>2. idx \in Nat BY <3>1, Sizes DEF Cells
      <3> HIDE DEF idx
      <3>3. HEIGHT * WIDTH \in Nat BY Sizes
      <3>4. idx < n BY <1>1, <3>1, <3>2, <3>3, StaysBelow, Zenon DEF n
      <3> QED BY <1>2, <3>4 DEF idx
    <2> QED BY <2>1 DEF Shows
  <1>5. ~(Len(lines) < HEIGHT) /\ Len(lines) >= 1
    <2>1. Len(lines) >= HEIGHT /\ Len(lines) \in Nat BY <1>2, <1>3, Zenon
    <2>2. HEIGHT \in Nat /\ HEIGHT > 0 BY Sizes
    <2> QED BY <2>1, <2>2
  <1>6. PlaceOf(all) = [col |-> 0, row |-> HEIGHT - 1] BY <1>2, <1>3, <1>5, NewLineIs
  <1>7. io'.pos = [col |-> 0, row |-> HEIGHT - 1] BY <1>1, <1>2 DEF Places
  <1> QED BY <1>4, <1>6, <1>7 DEF Settled, all

(* At scroll the text is shown, or the screen has to be scrolled first. *)
LEMMA ScrollShows ==
    ASSUME TypesInv, NEW text \in Seq(AllChars), Broken(io, text, 1), io.pos.col = 0
    PROVE  IF io.pos.row >= HEIGHT THEN Scrolling(0, io, text) ELSE Settled(io, text)
  <1> DEFINE lines == Front(Lines(text))
             all == Lines(text)
  <1>1. io.pos \in Places BY DEF TypesInv, Memory
  <1>2. /\ all = Append(lines, <<>>) /\ Len(lines) >= 1
        /\ Shows(io.screen, lines) /\ io.pos.row = 1 + Row(lines)
    BY DEF Broken
  <1>3. lines \in Seq(Seq(AllChars)) /\ Len(lines) \in Nat BY FrontLines
  <1> HIDE DEF lines, all
  <1>4. CASE io.pos.row >= HEIGHT
    <2>1. Len(lines) >= HEIGHT BY <1>2, <1>3, <1>4, Sizes DEF Row
    <2>2. ASSUME NEW r \in 0 .. HEIGHT - 1, NEW c \in 0 .. WIDTH - 1
          PROVE  io.screen[r * WIDTH + c][1] =
                    IF r * WIDTH + c < 0 THEN Visible(all, r, c) ELSE Visible(lines, r, c)
      <3>1. r * WIDTH + c \in Cells BY CellIs
      <3>2. ~(r * WIDTH + c < 0) BY <3>1, Sizes DEF Cells
      <3> QED BY <1>2, <3>2 DEF Shows
    <2> QED BY <1>2, <1>4, <2>1, <2>2 DEF Scrolling, lines, all
  <1>5. CASE ~(io.pos.row >= HEIGHT)
    <2>1. Len(lines) < HEIGHT /\ io.pos.row = Len(lines) BY <1>2, <1>3, <1>5, Sizes DEF Row
    <2>2. Shows(io.screen, all) BY <1>2, <1>3, <2>1, BreakShows
    <2>3. PlaceOf(all) = [col |-> 0, row |-> Len(lines)] BY <1>2, <1>3, <2>1, NewLineIs
    <2>4. io.pos = [col |-> 0, row |-> Len(lines)] BY <1>1, <2>1 DEF Places
    <2> QED BY <1>5, <2>2, <2>3, <2>4 DEF Settled, all
  <1> QED BY <1>4, <1>5

(* The column advances behind the character, to the next line at its end. *)
LEMMA AdvanceShows ==
    ASSUME TypesInv, NEW x \in Threads, NEW text \in Seq(AllChars), Entered(th[x], io, text),
           io'.screen = io.screen, io'.pos = [io.pos EXCEPT !.col = (io.pos.col + 1) % UINT8]
    PROVE  IF (io.pos.col + 1) % UINT8 >= WIDTH THEN Broken(io', text, 0) ELSE Settled(io', text)
  <1> DEFINE c == th[x].c
             lines == Lines(Front(text))
             n == Len(lines)
             col == Len(lines[n])
             w == With(lines, c)
  <1>1. /\ text # <<>> /\ c = Last(text) /\ c \notin {NL, CR}
        /\ io.pos = PlaceOf(lines) /\ Shows(io.screen, w)
    BY DEF Entered, Ahead
  <1>2. Front(text) \in Seq(AllChars) /\ c \in AllChars /\ Lines(text) = AddChar(lines, c)
    BY <1>1, LastOf
  <1>3. IsLines(lines) BY <1>2, LinesAre
  <1>4. lines \in Seq(Seq(AllChars)) /\ n >= 1 /\ n \in Nat BY <1>3 DEF IsLines
  <1>5. /\ col \in 0 .. WIDTH - 1 /\ (io.pos.col + 1) % UINT8 = col + 1 /\ io.pos \in Places
        /\ io.pos.row = Row(lines) /\ io.pos.col = col
    BY <1>1, <1>3, PlaceIs
  <1>6. /\ w \in Seq(Seq(AllChars)) /\ Len(w) = n /\ w[n] = Append(lines[n], c)
    BY <1>2, <1>4, WithIs
  <1>7. lines[n] \in Seq(AllChars)
    <2>1. n \in 1 .. n BY <1>4
    <2> QED BY <1>4, <2>1
  <1>8. Len(w[n]) = col + 1 BY <1>2, <1>6, <1>7
  <1>9. Row(w) = Row(lines) BY <1>6 DEF Row
  <1>10. io'.pos = [col |-> col + 1, row |-> Row(lines)] BY <1>5 DEF Places
  <1>11. Lines(text) = IF col + 1 = WIDTH THEN Append(w, <<>>) ELSE w
    BY <1>1, <1>2, <1>3, AddCharIs
  <1> HIDE DEF c, lines, n, col, w
  <1>12. CASE col + 1 = WIDTH
    <2>1. (io.pos.col + 1) % UINT8 >= WIDTH BY <1>5, <1>12, Sizes
    <2>2. Lines(text) = Append(w, <<>>) BY <1>11, <1>12
    <2>3. Len(w) >= 1 BY <1>4, <1>6
    <2>4. Front(Lines(text)) = w BY <1>6, <2>2, <2>3, NewLineIs
    <2>5. Row(w) \in Nat BY <1>3, <1>9, PlaceIs, Sizes
    <2>6. io'.pos.row = 0 + Row(w) BY <1>9, <1>10, <2>5
    <2>7. Shows(io'.screen, w) BY <1>1
    <2>8. Broken(io', text, 0) BY <2>2, <2>3, <2>4, <2>6, <2>7 DEF Broken
    <2> QED BY <2>1, <2>8
  <1>13. CASE col + 1 # WIDTH
    <2>1. ~((io.pos.col + 1) % UINT8 >= WIDTH)
      <3>1. col \in 0 .. WIDTH - 1 /\ (io.pos.col + 1) % UINT8 = col + 1 BY <1>5
      <3>2. WIDTH \in Nat BY Sizes
      <3>3. ~(col + 1 >= WIDTH) BY <1>13, <3>1, <3>2
      <3> QED BY <3>1, <3>3, Zenon
    <2>2. Lines(text) = w BY <1>11, <1>13
    <2>3. Last(w) = w[n] BY <1>6 DEF Last
    <2>4. PlaceOf(w) = [col |-> col + 1, row |-> Row(lines)] BY <1>8, <1>9, <2>3 DEF PlaceOf
    <2>5. Settled(io', text) BY <1>1, <1>10, <2>2, <2>4 DEF Settled
    <2> QED BY <2>1, <2>5
  <1> QED BY <1>12, <1>13

(* clear reaches one more cell. *)
LEMMA WipesNext ==
    ASSUME NEW screen, NEW cell, cell[1] = " ", NEW n \in Nat, DOMAIN screen = Cells, Wiped(n, screen)
    PROVE  Wiped(n + 1, [screen EXCEPT ![n] = cell])
  <1> DEFINE new == [screen EXCEPT ![n] = cell]
  <1>1. ASSUME NEW r \in 0 .. HEIGHT - 1, NEW c \in 0 .. WIDTH - 1
        PROVE  r * WIDTH + c < n + 1 => new[r * WIDTH + c][1] = " "
    <2> DEFINE idx == r * WIDTH + c
    <2>1. idx \in Cells BY CellIs
    <2>2. idx < n => screen[idx][1] = " " BY DEF Wiped
    <2> HIDE DEF idx
    <2>3. idx \in Nat BY <2>1, StaysBelow, Zenon
    <2>5. ASSUME idx < n + 1 PROVE new[idx][1] = " "
      <3>1. CASE idx = n
        <4>1. new[idx] = cell BY <2>1, <3>1
        <4> QED BY <4>1
      <3>2. CASE idx # n
        <4>1. new[idx] = screen[idx] BY <2>1, <3>2
        <4>2. idx < n BY <2>3, <2>5, <3>2, StaysBelow, Zenon
        <4> QED BY <2>2, <4>1, <4>2
      <3> QED BY <3>1, <3>2
    <2> QED BY <2>5, Zenon DEF idx
  <1> QED BY <1>1 DEF Wiped

(* An empty screen shows the empty text, and the text goes on at its top. *)
Empty(screen) == \A r \in 0 .. HEIGHT - 1, c \in 0 .. WIDTH - 1 : screen[r * WIDTH + c][1] = " "

LEMMA EmptyShows ==
    ASSUME NEW screen, Empty(screen)
    PROVE  Shows(screen, Lines(<<>>)) /\ PlaceOf(Lines(<<>>)) = Home
  <1> DEFINE lines == << <<>> >>
  <1>1. Lines(<<>>) = lines BY LinesOfNone
  <1>2. Len(lines) = 1 /\ lines[1] = <<>> /\ Len(<<>>) = 0 OBVIOUS
  <1> HIDE DEF lines
  <1>3. Top(lines) = 0 /\ Row(lines) = 0 BY <1>2, Sizes DEF Top, Row
  <1>4. ASSUME NEW r \in 0 .. HEIGHT - 1, NEW c \in 0 .. WIDTH - 1 PROVE Visible(lines, r, c) = " "
    <2>1. Top(lines) + r + 1 = r + 1 BY <1>3, Sizes
    <2>2. CASE r = 0
      <3>1. lines[r + 1] = <<>> BY <1>2, <2>2
      <3>2. ~(c + 1 <= 0) BY Sizes
      <3> QED BY <1>2, <2>1, <3>1, <3>2 DEF Visible
    <2>3. CASE r # 0
      <3>1. ~(r + 1 <= 1) BY <2>3, Sizes
      <3> QED BY <1>2, <2>1, <3>1 DEF Visible
    <2> QED BY <2>2, <2>3
  <1>5. Last(lines) = <<>> BY <1>2 DEF Last
  <1>6. PlaceOf(lines) = Home BY <1>2, <1>3, <1>5 DEF PlaceOf, Home
  <1>7. Shows(screen, lines) BY <1>4 DEF Shows, Empty
  <1> QED BY <1>1, <1>6, <1>7

(* clear has reached the last cell. *)
LEMMA WipedShows ==
    ASSUME NEW screen, NEW n \in Nat, ~(n < HEIGHT * WIDTH), Wiped(n, screen)
    PROVE  Shows(screen, Lines(<<>>)) /\ PlaceOf(Lines(<<>>)) = Home
  <1>1. ASSUME NEW r \in 0 .. HEIGHT - 1, NEW c \in 0 .. WIDTH - 1
        PROVE  screen[r * WIDTH + c][1] = " "
    <2> DEFINE idx == r * WIDTH + c
    <2>1. idx \in Cells /\ idx < HEIGHT * WIDTH BY CellIs
    <2>2. idx \in Nat BY <2>1, Sizes DEF Cells
    <2>3. idx < n => screen[idx][1] = " " BY DEF Wiped
    <2>4. HEIGHT * WIDTH \in Nat BY Sizes
    <2> HIDE DEF idx
    <2>5. idx < n BY <2>1, <2>2, <2>4, StaysBelow, Zenon
    <2>6. screen[idx][1] = " " BY <2>3, <2>5
    <2> QED BY <2>6 DEF idx
  <1> QED BY <1>1, EmptyShows DEF Empty

(* A character that is in its place on the screen, and not yet passed. *)
LEMMA EnterShows ==
    ASSUME TypesInv, NEW x \in Threads, NEW text \in Seq(AllChars), Entering(th[x], io, text),
           io'.pos = io.pos, th'[x].c = th[x].c,
           io'.screen = [io.screen EXCEPT ![th[x].idx] = <<th[x].c, th[x].color>>]
    PROVE  Entered(th'[x], io', text) /\ th[x].c \notin {NL, CR}
  <1> DEFINE c == th[x].c
             lines == Lines(Front(text))
             idx == Row(lines) * WIDTH + Len(lines[Len(lines)])
  <1>1. /\ text # <<>> /\ c = Last(text) /\ c \notin {NL, CR} /\ io.pos = PlaceOf(lines)
        /\ Shows(io.screen, lines) /\ th[x].idx = Index(io.pos)
    BY DEF Entering, Ahead
  <1>2. Front(text) \in Seq(AllChars) /\ c \in AllChars BY <1>1, LastOf
  <1>3. IsLines(lines) BY <1>2, LinesAre
  <1>4. th[x].idx = idx BY <1>1, <1>3, PlaceIs DEF Index
  <1>5. DOMAIN io.screen = Cells BY DEF TypesInv, Memory
  <1> HIDE DEF c, lines
  <1>6. Shows([io.screen EXCEPT ![idx] = <<c, th[x].color>>], With(lines, c))
    BY <1>1, <1>2, <1>3, <1>5, DrawingShows
  <1>7. Shows(io'.screen, With(lines, c)) BY <1>4, <1>6 DEF c
  <1>8. Ahead(io', text, c) BY <1>1 DEF Ahead, lines
  <1> QED BY <1>1, <1>7, <1>8 DEF Entered, c, lines

(* An NL has begun a line. *)
LEMMA NewlineShows ==
    ASSUME TypesInv, NEW text \in Seq(AllChars), Settled(io, text), NL \in AllChars,
           io'.screen = io.screen, io'.pos = [io.pos EXCEPT !.row = (io.pos.row + 1) % UINT8]
    PROVE  Broken(io', Append(text, NL), 1)
  <1> DEFINE lines == Lines(text)
             more == Append(text, NL)
  <1>1. IsLines(lines) BY LinesAre
  <1>2. lines \in Seq(Seq(AllChars)) /\ Len(lines) >= 1 BY <1>1 DEF IsLines
  <1>3. Lines(more) = AddChar(lines, NL) BY LinesGrow
  <1>4. AddChar(lines, NL) = Append(lines, <<>>) BY <1>1, AddCharIs
  <1>5. Shows(io.screen, lines) /\ io.pos = PlaceOf(lines) BY DEF Settled
  <1>6. io.pos \in Places /\ (io.pos.row + 1) % UINT8 = Row(lines) + 1 /\ Row(lines) \in 0 .. HEIGHT - 1
    BY <1>1, <1>5, PlaceIs
  <1> HIDE DEF lines, more
  <1>7. io'.pos.row = Row(lines) + 1 BY <1>6 DEF Places
  <1>8. Row(lines) + 1 = 1 + Row(lines) BY <1>6, Sizes
  <1>9. Front(Lines(more)) = lines BY <1>2, <1>3, <1>4, NewLineIs
  <1>10. Broken(io', more, 1) BY <1>2, <1>3, <1>4, <1>5, <1>7, <1>8, <1>9 DEF Broken
  <1> QED BY <1>10 DEF more

(* The text that a step adds to, for which Plain holds before as well. *)
LEMMA TextStays ==
    ASSUME IInv, NEW x \in Threads, Step(x), hist.clean, ~hist.disturbed, hist.text \in Seq(AllChars)
    PROVE  /\ hist'.text \in Seq(AllChars)
           /\ th[x].at = "put_char" => hist'.text = Append(hist.text, th[x].c)
           /\ th[x].at = "clear" => hist'.text = <<>>
           /\ th[x].at \notin {"put_char", "clear"} => hist'.text = hist.text
           /\ Plain(hist'.text) /\ th[x].at # "clear" => Plain(hist.text)
           /\ Plain(hist'.text) /\ th[x].at = "put_char" => th[x].c \notin {TAB, BS}
           /\ hist'.clean = hist.clean /\ hist'.disturbed = hist.disturbed
           /\ hist'.overrun = (hist.overrun \/ (th[x].at = "outb" /\ io.thr_full))
  <1> DEFINE t == th[x]
             more == Append(hist.text, t.c)
  <1>1. DOMAIN hist = {"text", "clean", "disturbed", "overrun"} BY DEF IInv, TypesInv
  <1>2. /\ hist'.text = IF t.at = "put_char" THEN more ELSE IF t.at = "clear" THEN <<>> ELSE hist.text
        /\ hist'.clean = hist.clean /\ hist'.disturbed = hist.disturbed
        /\ hist'.overrun = (hist.overrun \/ (t.at = "outb" /\ io.thr_full))
    BY <1>1 DEF Step, At
  <1>3. t.at = "put_char" => t.c \in AllChars BY CharIsOfText
  <1>4. <<>> \in Seq(AllChars) OBVIOUS
  <1>5. ASSUME t.at = "put_char"
        PROVE  /\ more \in Seq(AllChars)
               /\ Plain(more) => Plain(hist.text) /\ t.c \notin {TAB, BS}
    <2>0. t.c \in AllChars BY <1>3, <1>5
    <2> HIDE DEF t
    <2>1. /\ more \in Seq(AllChars) /\ Len(more) = Len(hist.text) + 1 /\ Len(hist.text) \in Nat
          /\ more[Len(hist.text) + 1] = t.c
          /\ \A j \in 1 .. Len(hist.text) : more[j] = hist.text[j]
      BY <2>0
    <2>2. DOMAIN more = 1 .. Len(more) /\ DOMAIN hist.text = 1 .. Len(hist.text) BY <2>1
    <2> HIDE DEF more
    <2>3. Len(hist.text) + 1 \in DOMAIN more BY <2>1, <2>2
    <2>4. \A j \in DOMAIN hist.text : j \in DOMAIN more BY <2>1, <2>2
    <2>5. Plain(more) => t.c \notin {TAB, BS} BY <2>1, <2>3 DEF Plain
    <2>6. Plain(more) => Plain(hist.text) BY <2>1, <2>2, <2>4 DEF Plain
    <2> QED BY <2>1, <2>5, <2>6
  <1> HIDE DEF t, more
  <1>6. CASE t.at = "put_char" BY <1>2, <1>5, <1>6 DEF t, more
  <1>7. CASE t.at = "clear"
    <2>1. hist'.text = <<>> BY <1>2, <1>7
    <2> QED BY <1>2, <1>4, <1>7, <2>1 DEF t
  <1>8. CASE t.at \notin {"put_char", "clear"}
    <2>1. hist'.text = hist.text BY <1>2, <1>8
    <2> QED BY <1>2, <1>8, <2>1 DEF t
  <1> QED BY <1>6, <1>7, <1>8

(* A step of a thread goes on with the drawing of the text. *)
LEMMA StepDrawn ==
    ASSUME IInv, NEW x \in Threads, Step(x), hist.clean, ~hist.disturbed, hist.text \in Seq(AllChars),
           Plain(hist.text) => Drawn(th[x], io, hist.text),
           th[x].at = "clear" => Wiped(th[x].n, io.screen), Plain(hist'.text)
    PROVE  /\ Drawn(th'[x], io', hist'.text)
           /\ th'[x].at = "idle" => Settled(io', hist'.text)
  <1> DEFINE t == th[x]
             u == th'[x]
             text == hist.text
             more == hist'.text
             Goal == Drawn(u, io', more) /\ (u.at = "idle" => Settled(io', more))
  <1>1. /\ TypesInv /\ Printing(x) /\ io \in Memory /\ t \in Locals /\ io.pos \in Places
        /\ DOMAIN io.screen = Cells /\ t.n \in Nat
    BY DEF IInv, TypesInv, Step, Memory, Locals
  <1>2. /\ more \in Seq(AllChars)
        /\ t.at = "put_char" => more = Append(text, t.c) /\ t.c \notin {TAB, BS}
        /\ t.at = "clear" => more = <<>>
        /\ t.at \notin {"put_char", "clear"} => more = text
        /\ t.at # "clear" => Plain(text)
    BY TextStays
  <1>3. t.at # "clear" => Drawn(t, io, text) BY <1>2
  <1>4. t.at \in Labels BY <1>1 DEF Locals
  <1>5. SUFFICES Goal OBVIOUS
  <1> HIDE DEF t, u, text, more
  <1> USE DEF Quiet, Stored, SetPos
  <1>6. CASE t.at \in Talk \cup Stored
    <2>1. io'.screen = io.screen /\ io'.pos = io.pos BY <1>1, <1>6, DeviceEffect DEF t, Talk
    <2>2. u.at \in Quiet \cup Stored \cup {"idle"} BY <1>1, <1>6, DeviceEffect DEF t, u, Talk
    <2>3. Settled(io, text) /\ more = text BY <1>2, <1>3, <1>6 DEF Drawn, Talk
    <2>4. Settled(io', more) BY <2>1, <2>3 DEF Settled
    <2> QED BY <2>2, <2>4 DEF Drawn
  <1>7. CASE t.at = "put_char"
    <2>1. Settled(io, text) BY <1>3, <1>7 DEF Drawn
    <2>2. t.c \in AllChars /\ t.c # CR BY <1>7, CharIsOfText DEF t
    <2>3. more = Append(text, t.c) /\ t.c \notin {TAB, BS} BY <1>2, <1>7
    <2>4. CASE t.c = NL
      <3>1. /\ u.at = "newline_col" /\ io'.screen = io.screen
            /\ io'.pos = [io.pos EXCEPT !.row = (io.pos.row + 1) % UINT8]
        BY <1>1, <1>7, <2>4, DrawEffect DEF t, u
      <3>2. Broken(io', more, 1) BY <1>1, <2>1, <2>2, <2>3, <2>4, <3>1, NewlineShows DEF text
      <3> QED BY <3>1, <3>2 DEF Drawn
    <2>5. CASE t.c # NL
      <3>1. t.c \notin Escapes BY <2>3, <2>5 DEF Escapes
      <3>2. io' = io /\ u.at = "entry" /\ u.c = t.c /\ u.idx = Index(io.pos)
        BY <1>1, <1>7, <3>1, DrawEffect DEF t, u
      <3>3. more # <<>> /\ Last(more) = t.c /\ Front(more) = text BY <2>2, <2>3, LinesGrow DEF text
      <3>4. Ahead(io, more, u.c) BY <2>1, <2>2, <2>5, <3>2, <3>3 DEF Ahead, Settled
      <3>5. Entering(u, io', more) BY <2>1, <3>2, <3>3, <3>4 DEF Entering, Settled
      <3> QED BY <3>2, <3>5 DEF Drawn
    <2> QED BY <2>4, <2>5
  <1>8. CASE t.at = "newline_col"
    <2>1. Broken(io, text, 1) /\ more = text BY <1>2, <1>3, <1>8 DEF Drawn
    <2>2. t.c = NL BY <1>8 DEF IInv, RowInv, t
    <2>3. u.at = "poll" /\ u.c = t.c /\ io'.screen = io.screen /\ io'.pos = [io.pos EXCEPT !.col = 0]
      BY <1>1, <1>8, DrawEffect DEF t, u
    <2>4. io'.pos.row = io.pos.row /\ io'.pos.col = 0 BY <1>1, <2>3 DEF Places
    <2>5. Broken(io', more, 1) BY <2>1, <2>3, <2>4 DEF Broken
    <2> QED BY <2>2, <2>3, <2>4, <2>5 DEF Drawn
  <1>9. CASE t.at = "entry"
    <2>1. Entering(t, io, text) /\ more = text BY <1>2, <1>3, <1>9 DEF Drawn
    <2>2. /\ u.at = "poll" /\ u.c = t.c /\ io'.pos = io.pos
          /\ io'.screen = [io.screen EXCEPT ![t.idx] = <<t.c, t.color>>]
      BY <1>1, <1>9, DrawEffect DEF t, u
    <2>3. Entered(u, io', text) /\ t.c \notin {NL, CR} BY <1>1, <2>1, <2>2, EnterShows DEF t, u, text
    <2> QED BY <2>1, <2>2, <2>3 DEF Drawn
  <1>10. CASE t.at = "poll"
    <2>1. io' = io /\ u.at = "outb" /\ u.c = t.c /\ more = text BY <1>1, <1>2, <1>10, DrawEffect DEF t, u
    <2>2. IF t.c \in {NL, CR} THEN Broken(io, text, 1) /\ io.pos.col = 0 ELSE Entered(t, io, text)
      BY <1>3, <1>10 DEF Drawn
    <2>3. Entered(t, io, text) => Entered(u, io, text) BY <2>1 DEF Entered
    <2> QED BY <2>1, <2>2, <2>3 DEF Drawn
  <1>11. CASE t.at = "outb"
    <2>1. /\ io'.screen = io.screen /\ io'.pos = io.pos /\ more = text
          /\ t.c = NL => u.at = "poll" /\ u.c = CR
          /\ t.c = CR => u.at = "scroll"
          /\ t.c \notin {NL, CR} => u.at = "advance" /\ u.c = t.c
      BY <1>1, <1>2, <1>11, DrawEffect DEF t, u
    <2>2. IF t.c \in {NL, CR} THEN Broken(io, text, 1) /\ io.pos.col = 0 ELSE Entered(t, io, text)
      BY <1>3, <1>11 DEF Drawn
    <2>3. CASE t.c \in {NL, CR}
      <3>1. Broken(io', more, 1) /\ io'.pos.col = 0 BY <2>1, <2>2, <2>3 DEF Broken
      <3>2. u.at = "scroll" \/ (u.at = "poll" /\ u.c = CR) BY <2>1, <2>3
      <3> QED BY <3>1, <3>2 DEF Drawn
    <2>4. CASE t.c \notin {NL, CR}
      <3>1. u.at = "advance" /\ u.c = t.c /\ Entered(t, io, text) BY <2>1, <2>2, <2>4
      <3>2. Entered(u, io', more) BY <2>1, <3>1 DEF Entered, Ahead
      <3> QED BY <3>1, <3>2 DEF Drawn
    <2> QED BY <2>3, <2>4
  <1>12. CASE t.at = "advance"
    <2>1. Entered(t, io, text) /\ more = text BY <1>2, <1>3, <1>12 DEF Drawn
    <2>2. /\ io'.screen = io.screen
          /\ io'.pos = [io.pos EXCEPT !.col = (io.pos.col + 1) % UINT8]
          /\ u.at = IF (io.pos.col + 1) % UINT8 >= WIDTH THEN "wrap_col" ELSE "scroll"
      BY <1>1, <1>12, MoveEffect DEF t, u
    <2>3. IF (io.pos.col + 1) % UINT8 >= WIDTH THEN Broken(io', text, 0) ELSE Settled(io', text)
      BY <1>1, <2>1, <2>2, AdvanceShows DEF t, text
    <2>4. \/ u.at = "wrap_col" /\ Broken(io', text, 0)
          \/ u.at = "scroll" /\ Settled(io', text)
      BY <2>2, <2>3
    <2> QED BY <2>1, <2>4 DEF Drawn
  <1>13. CASE t.at = "wrap_col"
    <2>1. Broken(io, text, 0) /\ more = text BY <1>2, <1>3, <1>13 DEF Drawn
    <2>2. io'.screen = io.screen /\ io'.pos = [io.pos EXCEPT !.col = 0] /\ u.at = "wrap_row"
      BY <1>1, <1>13, MoveEffect DEF t, u
    <2>3. io'.pos.row = io.pos.row /\ io'.pos.col = 0 BY <1>1, <2>2 DEF Places
    <2>4. Broken(io', more, 0) BY <2>1, <2>2, <2>3 DEF Broken
    <2> QED BY <2>2, <2>3, <2>4 DEF Drawn
  <1>14. CASE t.at = "wrap_row"
    <2> DEFINE lines == Front(Lines(text))
    <2>1. Broken(io, text, 0) /\ io.pos.col = 0 /\ more = text BY <1>2, <1>3, <1>14 DEF Drawn
    <2>2. /\ io'.screen = io.screen /\ u.at = "scroll"
          /\ io'.pos = [io.pos EXCEPT !.row = (io.pos.row + 1) % UINT8]
      BY <1>1, <1>14, MoveEffect DEF t, u
    <2>3. /\ Lines(text) = Append(lines, <<>>) /\ Len(lines) >= 1
          /\ Shows(io.screen, lines) /\ io.pos.row = 0 + Row(lines)
      BY <2>1 DEF Broken
    <2>4. Len(lines) \in Nat BY FrontLines DEF text
    <2> HIDE DEF lines
    <2>5. Row(lines) \in Nat /\ Row(lines) < HEIGHT BY <2>3, <2>4, Sizes DEF Row
    <2>6. io.pos.row + 1 \in Nat /\ io.pos.row + 1 < UINT8 /\ io.pos.row + 1 = 1 + Row(lines)
      BY <2>3, <2>5, Sizes
    <2>7. (io.pos.row + 1) % UINT8 = io.pos.row + 1 BY <2>6, InByte
    <2>8. io'.pos.row = 1 + Row(lines) /\ io'.pos.col = 0 BY <1>1, <2>1, <2>2, <2>6, <2>7 DEF Places
    <2>9. Broken(io', more, 1) BY <2>1, <2>2, <2>3, <2>8 DEF Broken, lines
    <2> QED BY <2>2, <2>8, <2>9 DEF Drawn
  <1>15. CASE t.at = "scroll"
    <2>1. Settled(io, text) \/ (Broken(io, text, 1) /\ io.pos.col = 0) BY <1>3, <1>15 DEF Drawn
    <2>2. /\ io' = io /\ u.n = 0 /\ u.at = IF io.pos.row >= HEIGHT THEN "copy" ELSE "set_pos"
          /\ more = text
      BY <1>1, <1>2, <1>15, MoveEffect DEF t, u
    <2>3. CASE Settled(io, text)
      <3>1. IsLines(Lines(text)) BY LinesAre DEF text
      <3>2. io.pos.row \in 0 .. HEIGHT - 1 BY <2>3, <3>1, PlaceIs DEF Settled
      <3>3. ~(io.pos.row >= HEIGHT) BY <3>2, Sizes
      <3> QED BY <2>2, <2>3, <3>3 DEF Drawn
    <2>4. CASE Broken(io, text, 1) /\ io.pos.col = 0
      <3>1. IF io.pos.row >= HEIGHT THEN Scrolling(0, io, text) ELSE Settled(io, text)
        BY <1>1, <2>4, ScrollShows DEF text
      <3>2. \/ u.at = "copy" /\ Scrolling(u.n, io', more)
            \/ u.at = "set_pos" /\ Settled(io', more)
        BY <2>2, <3>1
      <3> QED BY <3>2 DEF Drawn
    <2> QED BY <2>1, <2>3, <2>4
  <1>16. CASE t.at = "copy"
    <2>1. Scrolling(t.n, io, text) /\ more = text BY <1>2, <1>3, <1>16 DEF Drawn
    <2>2. CASE t.n < HEIGHT * WIDTH
      <3>1. u.at = "copy" /\ u.n = t.n + 1 /\ io'.pos = io.pos BY <1>1, <1>16, <2>2, MoveEffect DEF t, u
      <3>2. io'.screen = [io.screen EXCEPT ![t.n] = Copied(io, t.n)]
        BY <1>1, <1>16, <2>2, MoveEffect DEF t, Copied
      <3>3. Scrolling(t.n + 1, io', text) BY <1>1, <2>1, <3>1, <3>2, CopyShows DEF text
      <3> QED BY <2>1, <3>1, <3>3 DEF Drawn
    <2>3. CASE ~(t.n < HEIGHT * WIDTH)
      <3>1. /\ u.at = "set_pos" /\ io'.screen = io.screen
            /\ io'.pos = [io.pos EXCEPT !.row = HEIGHT - 1]
        BY <1>1, <1>16, <2>3, MoveEffect DEF t, u
      <3>2. Settled(io', text) BY <1>1, <2>1, <2>3, <3>1, CopiedShows DEF t, text
      <3> QED BY <2>1, <3>1, <3>2 DEF Drawn
    <2> QED BY <2>2, <2>3
  <1>17. CASE t.at = "set_pos"
    <2>1. Settled(io, text) /\ more = text BY <1>2, <1>3, <1>17 DEF Drawn
    <2>2. io' = io /\ u.at = "store" /\ u.pos = io.pos BY <1>1, <1>17, MoveEffect DEF t, u
    <2> QED BY <2>1, <2>2 DEF Drawn, Settled
  <1>18. CASE t.at = "store"
    <2>1. Shows(io.screen, Lines(text)) /\ t.pos = PlaceOf(Lines(text)) /\ more = text
      BY <1>2, <1>3, <1>18 DEF Drawn
    <2>2. io'.screen = io.screen /\ io'.pos = t.pos /\ u.at = "select_H" BY <1>1, <1>18, MoveEffect DEF t, u
    <2>3. Settled(io', more) BY <2>1, <2>2 DEF Settled
    <2> QED BY <2>2, <2>3 DEF Drawn
  <1>19. CASE t.at = "clear"
    <2>1. more = <<>> BY <1>2, <1>19
    <2>2. CASE t.n < HEIGHT * WIDTH
      <3>1. u.at = "clear" BY <1>1, <1>19, <2>2, MoveEffect DEF t, u
      <3> QED BY <3>1 DEF Drawn
    <2>3. CASE ~(t.n < HEIGHT * WIDTH)
      <3>1. io' = io /\ u.at = "store" /\ u.pos = Home BY <1>1, <1>19, <2>3, MoveEffect DEF t, u
      <3>2. Wiped(t.n, io.screen) BY <1>19 DEF t
      <3>3. Shows(io.screen, Lines(<<>>)) /\ PlaceOf(Lines(<<>>)) = Home
        BY <1>1, <2>3, <3>2, WipedShows
      <3> QED BY <2>1, <3>1, <3>3 DEF Drawn
    <2> QED BY <2>2, <2>3
  <1>20. t.at \notin {"idle", "spin"} BY <1>1, ColourEffect DEF t
  <1>21. t.at # "erase" BY <1>3 DEF Drawn
  <1> QED
    BY <1>4, <1>6, <1>7, <1>8, <1>9, <1>10, <1>11, <1>12, <1>13, <1>14, <1>15, <1>16, <1>17, <1>18,
       <1>19, <1>20, <1>21
    DEF Labels, Talk

(* A step of a thread programs the cursor to the place that it has stored. *)
LEMMA StepCursor ==
    ASSUME IInv, NEW x \in Threads, Step(x), Programmed(th[x], io)
    PROVE  /\ Programmed(th'[x], io')
           /\ th'[x].at = "idle" => Followed(io')
  <1> DEFINE t == th[x]
             u == th'[x]
             H == io.crtc.H
             L == io.crtc.L
  <1>1. TypesInv /\ Printing(x) /\ io \in Memory /\ t \in Locals BY DEF IInv, TypesInv, Step
  <1>2. io.crtc \in [index : {"H", "L"}, H : Byte, L : Byte] BY <1>1 DEF Memory
  <1>3. /\ t.at \in Talk => /\ io'.screen = io.screen /\ io'.pos = io.pos
                            /\ u.at \in Quiet \cup {"idle"}
        /\ t.at \in Stored => /\ io'.pos = io.pos /\ u.pos = t.pos
                              /\ u.at \in (Stored \cup {"write", "idle"}) \ {"select_H"}
        /\ t.at \notin Stored => io'.crtc = io.crtc
        /\ u.at \in Quiet \cup {"idle"} => t.at \in Talk \cup {"data_L"}
        /\ u.at \in Stored => t.at \in SetPos
    BY <1>1, DeviceEffect
  <1>4. /\ t.at = "select_H" => u.at = "data_H" /\ io'.crtc = [io.crtc EXCEPT !.index = "H"]
        /\ t.at = "data_H" => /\ u.at = "select_L"
                              /\ io'.crtc = [io.crtc EXCEPT ![io.crtc.index] = Index(t.pos) \div UINT8]
        /\ t.at = "select_L" => u.at = "data_L" /\ io'.crtc = [io.crtc EXCEPT !.index = "L"]
        /\ t.at = "data_L" => /\ u.at \in {"write", "idle"}
                              /\ io'.crtc = [io.crtc EXCEPT ![io.crtc.index] = Index(t.pos) % UINT8]
    BY <1>1, DeviceEffect
  <1>5. /\ t.at \in Quiet => Followed(io)
        /\ t.at \in Stored => t.pos = io.pos
        /\ t.at = "data_H" => io.crtc.index = "H"
        /\ t.at \in {"select_L", "data_L"} => io.crtc.H = Index(io.pos) \div UINT8
        /\ t.at = "data_L" => io.crtc.index = "L"
    BY DEF Programmed
  <1>6. Index(io.pos) \in Nat
    <2>1. io.pos.row \in Byte /\ io.pos.col \in Byte BY <1>1 DEF Memory, Places
    <2>2. \A b \in Byte : b \in Nat BY Sizes DEF Byte
    <2>3. io.pos.row \in Nat /\ io.pos.col \in Nat BY <2>1, <2>2
    <2>4. io.pos.row * WIDTH \in Nat BY <2>3, Sizes
    <2> QED BY <2>3, <2>4 DEF Index
  <1>7. SUFFICES Programmed(u, io') /\ (u.at = "idle" => Followed(io')) OBVIOUS
  <1> HIDE DEF t, u
  <1> USE DEF Quiet, Stored, SetPos
  <1>8. CASE t.at \in Talk
    <2>1. Followed(io') BY <1>3, <1>5, <1>8 DEF Followed, Talk
    <2> QED BY <1>3, <1>8, <2>1 DEF Programmed
  <1>9. CASE t.at = "store"
    <2>1. io'.pos = t.pos /\ u.at = "select_H" /\ u.pos = t.pos BY <1>1, <1>9, MoveEffect DEF t, u
    <2> QED BY <2>1 DEF Programmed
  <1>10. CASE t.at = "select_H"
    <2>1. io'.crtc.index = "H" BY <1>2, <1>4, <1>10
    <2> QED BY <1>3, <1>4, <1>5, <1>10, <2>1 DEF Programmed
  <1>11. CASE t.at = "data_H"
    <2>1. t.pos = io.pos /\ io.crtc.index = "H" BY <1>5, <1>11
    <2>2. io'.crtc.H = Index(io.pos) \div UINT8
      <3> DEFINE v == Index(io.pos) \div UINT8
      <3>1. io'.crtc = [io.crtc EXCEPT !["H"] = v] BY <1>4, <1>11, <2>1
      <3> HIDE DEF v
      <3>2. io'.crtc.H = v BY <1>2, <3>1
      <3> QED BY <3>2 DEF v
    <2> QED BY <1>3, <1>4, <1>11, <2>1, <2>2 DEF Programmed
  <1>12. CASE t.at = "select_L"
    <2>1. io'.crtc.index = "L" /\ io'.crtc.H = io.crtc.H BY <1>2, <1>4, <1>12
    <2> QED BY <1>3, <1>4, <1>5, <1>12, <2>1 DEF Programmed
  <1>13. CASE t.at = "data_L"
    <2> DEFINE z == Index(io.pos)
               v == z % UINT8
    <2>1. t.pos = io.pos /\ io.crtc.index = "L" /\ io.crtc.H = z \div UINT8 BY <1>5, <1>13
    <2>2. io'.crtc.L = v /\ io'.crtc.H = io.crtc.H
      <3>1. io'.crtc = [io.crtc EXCEPT !["L"] = v] BY <1>4, <1>13, <2>1
      <3> HIDE DEF v
      <3> QED BY <1>2, <3>1
    <2>3. z \in Nat /\ UINT8 \in Nat /\ UINT8 > 0 BY <1>6, Sizes
    <2>4. (z \div UINT8) * UINT8 + (z % UINT8) = z
      <3>1. \A a \in Nat : \A m \in Nat : m > 0 => (a \div m) * m + (a % m) = a BY SMTT(30)
      <3> QED BY <2>3, <3>1
    <2>5. Followed(io') BY <1>3, <1>13, <2>1, <2>2, <2>4 DEF Followed
    <2> QED BY <1>4, <1>13, <2>5 DEF Programmed
  <1>14. CASE t.at \notin Talk \cup SetPos
    <2>1. u.at \notin Quiet \cup Stored \cup {"idle"} BY <1>3, <1>14
    <2> QED BY <2>1 DEF Programmed
  <1> QED BY <1>8, <1>9, <1>10, <1>11, <1>12, <1>13, <1>14

(* An idle thread waits for nothing. *)
LEMMA IdleIsAlone ==
    ASSUME NEW x \in Threads PROVE (Idle(x) => Alone(x)) /\ (Idle(x) => Alone(x))'
  <1>1. ASSUME NEW t, t.at = "idle", NEW m, NEW text PROVE Programmed(t, m) /\ Drawn(t, m, text)
    BY <1>1 DEF Programmed, Drawn, Quiet, Stored, SetPos
  <1>2. Idle(x) => Alone(x) BY <1>1 DEF Alone, Idle
  <1>3. (Idle(x) => Alone(x))' BY <1>1 DEF Alone, Idle
  <1> QED BY <1>2, <1>3

(* A step of a thread. *)
LEMMA StepScreen ==
    ASSUME IInv, ScreenInv, NEW x \in Threads, Step(x)
    PROVE  ScreenInv'
  <1> DEFINE t == th[x]
             u == th'[x]
  <1>1. TypesInv /\ ControlInv /\ Printing(x) /\ UNCHANGED <<k, vga>> BY DEF IInv, Step
  <1>2. t.at \notin {"idle", "spin"} /\ \A y \in Threads : y # x => th'[y] = th[y]
    BY <1>1, ColourEffect
  <1>3. k.pc \in {"main", "hlt"} BY <1>1, <1>2 DEF ControlInv, Resting, Idle, Threads
  <1>4. InTui' /\ k'.pc # "vga" BY <1>1, <1>3 DEF InTui
  <1>5. DOMAIN hist = {"text", "clean", "disturbed", "overrun"} BY <1>1 DEF TypesInv
  <1>6. hist'.clean = hist.clean BY <1>5 DEF Step
  <1>7. CASE ~hist.clean
    <2>1. hist'.text \in {hist.text, <<>>} BY <1>5, <1>7 DEF Step
    <2>2. hist'.text \in Seq(AllChars)
      <3>1. <<>> \in Seq(AllChars) OBVIOUS
      <3> QED BY <2>1, <3>1 DEF ScreenInv
    <2> QED BY <1>4, <1>6, <1>7, <2>2 DEF ScreenInv
  <1>8. CASE hist.clean
    <2>1. /\ hist.text \in Seq(AllChars) /\ ~hist.overrun /\ ~hist.disturbed
          /\ Idle("kernel") \/ Idle("handler")
          /\ Alone(x)
      BY <1>8 DEF ScreenInv
    <2>2. /\ hist'.text \in Seq(AllChars) /\ hist'.disturbed = hist.disturbed
          /\ hist'.overrun = (hist.overrun \/ (t.at = "outb" /\ io.thr_full))
          /\ Plain(hist'.text) /\ t.at # "clear" => Plain(hist.text)
      BY <1>8, <2>1, TextStays
    <2>3. ~hist'.overrun /\ ~hist'.disturbed BY <2>1, <2>2 DEF Alone
    <2>4. /\ Plain(hist'.text) => Drawn(u, io', hist'.text)
          /\ Plain(hist'.text) /\ u.at = "idle" => Settled(io', hist'.text)
      BY <1>8, <2>1, StepDrawn DEF Alone
    <2>5. Programmed(u, io') /\ (u.at = "idle" => Followed(io')) BY <2>1, StepCursor DEF Alone
    <2>6. u.at = "outb" => ~io'.thr_full BY <1>1, DeviceEffect
    <2>7. u.at = "clear" => Wiped(u.n, io'.screen)
      <3> SUFFICES ASSUME u.at = "clear" PROVE Wiped(u.n, io'.screen) OBVIOUS
      <3>1. t.at = "clear" BY <1>1, ColourEffect
      <3>2. t.n < HEIGHT * WIDTH BY <1>1, <3>1, MoveEffect
      <3>3. u.n = t.n + 1 /\ io'.screen = [io.screen EXCEPT ![t.n] = <<" ", io.color>>]
        BY <1>1, <3>1, <3>2, MoveEffect
      <3>4. t.n \in Nat /\ DOMAIN io.screen = Cells BY <1>1 DEF TypesInv, Locals, Memory
      <3>5. Wiped(t.n, io.screen) BY <2>1, <3>1 DEF Alone
      <3>6. PICK cell : cell = <<" ", io.color>> OBVIOUS
      <3>7. cell[1] = " " BY <3>6
      <3>8. io'.screen = [io.screen EXCEPT ![t.n] = cell] BY <3>3, <3>6
      <3> HIDE DEF t, u
      <3>9. Wiped(t.n + 1, io'.screen)
        <4>1. Wiped(t.n + 1, [io.screen EXCEPT ![t.n] = cell]) BY <3>4, <3>5, <3>7, WipesNext
        <4> QED BY <3>8, <4>1
      <3> QED BY <3>3, <3>9
    <2>8. Alone(x)' BY <2>4, <2>5, <2>6, <2>7 DEF Alone
    <2>9. PICK y \in Threads : y # x /\ th[y].at = "idle" /\ \A w \in Threads : w \in {x, y}
      BY <1>2, <2>1 DEF Threads, Idle
    <2>10. th'[y].at = "idle" /\ Alone(y)'
      <3>1. th'[y].at = "idle" BY <1>2, <2>9
      <3> QED BY <3>1, IdleIsAlone DEF Idle
    <2>11. (Idle("kernel") \/ Idle("handler"))' BY <2>9, <2>10 DEF Idle, Threads
    <2>12. Resting' => u.at = "idle" BY DEF Resting, Idle, Threads
    <2>13. \A w \in Threads : Alone(w)' BY <2>8, <2>9, <2>10
    <2> HIDE DEF u
    <2>14. Resting' => Followed(io)' BY <2>5, <2>12 DEF Followed
    <2>15. Resting' /\ Plain(hist'.text) => Settled(io', hist'.text) BY <2>4, <2>12
    <2> QED BY <1>4, <2>2, <2>3, <2>11, <2>13, <2>14, <2>15 DEF ScreenInv
  <1> QED BY <1>7, <1>8

-----------------------------------------------------------------------------
(* Nothing is drawn: screen, place and cursor stay. *)
LEMMA NobodyDraws ==
    ASSUME ScreenInv, UNCHANGED <<th, hist>>, InTui' = InTui,
           k'.pc = "vga" => k.pc = "vga" /\ vga' = vga,
           io'.screen = io.screen, io'.pos = io.pos, io'.crtc = io.crtc, io'.thr_full => io.thr_full
    PROVE  ScreenInv'
  <1>1. Followed(io)' = Followed(io) BY DEF Followed
  <1>2. Settled(io, hist.text)' = Settled(io, hist.text) BY DEF Settled
  <1>3. ASSUME NEW x \in Threads, Alone(x) PROVE Alone(x)'
    <2>1. Programmed(th[x], io)' = Programmed(th[x], io) BY DEF Programmed, Followed
    <2>2. Drawn(th[x], io, hist.text)' = Drawn(th[x], io, hist.text)
      BY DEF Drawn, Settled, Entering, Entered, Ahead, Broken, Scrolling
    <2> QED BY <1>3, <2>1, <2>2 DEF Alone
  <1> QED BY <1>1, <1>2, <1>3 DEF ScreenInv, Resting, Idle

(* The constructors put pos and the cursor where they already are. *)
LEMMA CppInitScreen ==
    ASSUME IInv, ScreenInv, NEW file \in {"tui.cpp", "io.cpp"}, cpp_init(file)
    PROVE  ScreenInv'
  <1>1. TypesInv /\ ControlInv BY DEF IInv
  <1>2. /\ k.pc = "cpp_init" /\ io' = Constructed(file) /\ UNCHANGED <<th, hist>>
        /\ k' = [k EXCEPT !.ctors = @ \ {file}, !.pc = IF k.ctors = {file} THEN "test_vga" ELSE @]
    BY DEF cpp_init
  <1>3. k'.pc \in {"cpp_init", "test_vga"} BY <1>1, <1>2 DEF TypesInv
  <1>4. ~InTui /\ ~InTui' /\ k'.pc # "vga" BY <1>2, <1>3 DEF InTui
  <1>5. Idle("kernel")' /\ Idle("handler")' BY <1>1, <1>2 DEF ControlInv, Resting, Idle
  <1>6. io.pos = Home /\ Followed(io) /\ hist.clean /\ ~hist.overrun /\ ~hist.disturbed /\ hist.text \in Seq(AllChars)
    BY <1>4 DEF ScreenInv
  <1>7. io'.pos = Home /\ Followed(io')
    <2>1. Index(Home) = 0 BY Sizes DEF Index, Home
    <2>2. CASE file = "tui.cpp"
      <3>1. io' = [io EXCEPT !.pos = Home, !.color = WHITE] BY <1>2, <2>2 DEF Constructed
      <3>2. io'.pos = Home /\ io'.crtc = io.crtc BY <1>1, <3>1 DEF TypesInv, Memory
      <3> QED BY <1>6, <3>2 DEF Followed
    <2>3. CASE file = "io.cpp"
      <3>1. io' = [io EXCEPT !.pos = Home, !.color = WHITE, !.crtc = CursorAt(Home)]
        BY <1>2, <2>3 DEF Constructed
      <3>2. io'.pos = Home /\ io'.crtc = CursorAt(Home) BY <1>1, <3>1 DEF TypesInv, Memory
      <3>3. 0 \div UINT8 = 0 /\ 0 % UINT8 = 0 /\ 0 * UINT8 + 0 = 0 BY Sizes
      <3>4. io'.crtc.H = 0 /\ io'.crtc.L = 0 BY <2>1, <3>2, <3>3 DEF CursorAt, Index
      <3> QED BY <2>1, <3>2, <3>3, <3>4 DEF Followed
    <2> QED BY <2>2, <2>3
  <1>8. \A x \in Threads : Alone(x)' BY <1>5, IdleIsAlone DEF Threads
  <1>9. Followed(io)' BY <1>7 DEF Followed
  <1> QED BY <1>2, <1>4, <1>5, <1>6, <1>7, <1>8, <1>9 DEF ScreenInv

(* A cleared screen shows nothing. *)
LEMMA ClearedIsEmpty ==
    ASSUME NEW screen PROVE Empty(Cleared(screen))
  <1>1. ASSUME NEW r \in 0 .. HEIGHT - 1, NEW c \in 0 .. WIDTH - 1
        PROVE  Cleared(screen)[r * WIDTH + c][1] = " "
    <2> DEFINE idx == r * WIDTH + c
               size == WIDTH * HEIGHT
    <2>1. size = HEIGHT * WIDTH BY Sizes
    <2>2. idx \in Cells /\ idx < HEIGHT * WIDTH BY CellIs
    <2>3. idx < size BY <2>1, <2>2
    <2>4. Cleared(screen) = [x \in Cells |-> IF x < size THEN <<" ", VGA_WHITE>> ELSE screen[x]]
      BY DEF Cleared
    <2> HIDE DEF idx, size
    <2>5. Cleared(screen)[idx] = <<" ", VGA_WHITE>> BY <2>2, <2>3, <2>4
    <2>6. \A a, b : <<a, b>>[1] = a OBVIOUS
    <2>7. Cleared(screen)[idx][1] = " " BY <2>5, <2>6, Zenon
    <2> QED BY <2>7 DEF idx
  <1> QED BY <1>1 DEF Empty

(* vga_init clears the screen, and the text begins again. *)
LEMMA VgaInitScreen ==
    ASSUME IInv, ScreenInv, NEW from \in {"test_vga", "clear"}, NEW to \in {"vga", "main"}, NEW todo,
           vga_init(from, to, todo)
    PROVE  ScreenInv'
  <1>1. TypesInv /\ ControlInv BY DEF IInv
  <1>2. /\ k.pc = from /\ k' = [k EXCEPT !.pc = to, !.todo = todo]
        /\ io' = [io EXCEPT !.screen = Cleared(@)] /\ vga' = [x |-> 0, y |-> 0]
        /\ hist' = [hist EXCEPT !.text = <<>>] /\ UNCHANGED th
    BY DEF vga_init
  <1>3. k'.pc = to BY <1>1, <1>2 DEF TypesInv
  <1>4. ~InTui BY <1>2 DEF InTui
  <1>5. Idle("kernel")' /\ Idle("handler")' BY <1>1, <1>2, <1>4 DEF ControlInv, InTui, Resting, Idle
  <1>6. io.pos = Home /\ Followed(io) /\ hist.clean /\ ~hist.overrun /\ ~hist.disturbed
    BY <1>4 DEF ScreenInv
  <1>7. hist'.text = <<>> /\ hist'.clean /\ ~hist'.overrun /\ ~hist'.disturbed
    BY <1>1, <1>2, <1>6 DEF TypesInv
  <1>8. io'.pos = Home /\ io'.crtc = io.crtc /\ io'.screen = Cleared(io.screen)
    BY <1>1, <1>2, <1>6 DEF TypesInv, Memory
  <1>9. Followed(io)' BY <1>6, <1>8 DEF Followed
  <1>10. Empty(io'.screen) BY <1>8, ClearedIsEmpty
  <1>11. Shows(io'.screen, Lines(<<>>)) /\ PlaceOf(Lines(<<>>)) = Home BY <1>10, EmptyShows
  <1>12. Settled(io', hist'.text) BY <1>7, <1>8, <1>11 DEF Settled
  <1>13. [col |-> vga'.x, row |-> vga'.y] = Home BY <1>2 DEF Home
  <1>14. \A x \in Threads : Alone(x)' BY <1>5, IdleIsAlone DEF Threads
  <1>15. <<>> \in Seq(AllChars) OBVIOUS
  <1>16. k'.pc = "vga" => /\ Shows(io'.screen, Lines(hist'.text))
                          /\ [col |-> vga'.x, row |-> vga'.y] = PlaceOf(Lines(hist'.text))
    BY <1>7, <1>11, <1>13
  <1> QED BY <1>5, <1>7, <1>8, <1>9, <1>12, <1>14, <1>15, <1>16 DEF ScreenInv

-----------------------------------------------------------------------------
(* vga_scroll: what was in the first line is gone, the last one is empty. *)
LEMMA ScrolledShows ==
    ASSUME NEW lines \in Seq(Seq(AllChars)), Len(lines) >= HEIGHT, NEW screen, NEW color, Shows(screen, lines)
    PROVE  Shows(Scrolled(screen, color), Append(lines, <<>>))
  <1> DEFINE all == Append(lines, <<>>)
  <1>1. ASSUME NEW r \in 0 .. HEIGHT - 1, NEW c \in 0 .. WIDTH - 1
        PROVE  Scrolled(screen, color)[r * WIDTH + c][1] = Visible(all, r, c)
    <2> DEFINE idx == r * WIDTH + c
               next == (r + 1) * WIDTH + c
               low == idx < (HEIGHT - 1) * WIDTH
               last == idx \in (HEIGHT - 1) * WIDTH .. HEIGHT * WIDTH - 1
    <2>1. /\ idx \in Cells /\ (r < HEIGHT - 1 => low /\ next = idx + WIDTH)
          /\ (~(r < HEIGHT - 1) => ~low /\ last)
      BY CellIs
    <2>2. ~(low /\ last)
      <3>1. (HEIGHT - 1) * WIDTH \in Int /\ HEIGHT * WIDTH - 1 \in Int BY Sizes
      <3> DEFINE edge == (HEIGHT - 1) * WIDTH
                 end == HEIGHT * WIDTH - 1
      <3>2. idx \in Int BY <2>1 DEF Cells
      <3> HIDE DEF edge, end, idx
      <3>3. \A i, e, f \in Int : ~(i < e /\ i \in e .. f) OBVIOUS
      <3> QED BY <3>1, <3>2, <3>3, Zenon DEF edge, end
    <2>3. Scrolled(screen, color)[idx] =
              CASE low -> screen[idx + WIDTH] [] last -> <<" ", color>> [] OTHER -> screen[idx]
      BY <2>1 DEF Scrolled
    <2>4. Visible(all, r, c) = IF r < HEIGHT - 1 THEN Visible(lines, r + 1, c) ELSE " "
      BY ScrollVisible
    <2>5. \A a, b : <<a, b>>[1] = a OBVIOUS
    <2>6. CASE r < HEIGHT - 1
      <3>1. r + 1 \in 0 .. HEIGHT - 1 BY <2>6, Sizes
      <3>2. screen[next][1] = Visible(lines, r + 1, c) BY <3>1 DEF Shows
      <3> HIDE DEF idx, next, low, last
      <3>3. Scrolled(screen, color)[idx] = screen[next] BY <2>1, <2>2, <2>3, <2>6
      <3>4. Scrolled(screen, color)[idx][1] = Visible(all, r, c) BY <2>4, <2>6, <3>2, <3>3
      <3> QED BY <3>4 DEF idx
    <2>7. CASE ~(r < HEIGHT - 1)
      <3> HIDE DEF idx, next, low, last
      <3>1. Scrolled(screen, color)[idx] = <<" ", color>> BY <2>1, <2>2, <2>3, <2>7
      <3>2. Scrolled(screen, color)[idx][1] = " " BY <2>5, <3>1, Zenon
      <3>3. Scrolled(screen, color)[idx][1] = Visible(all, r, c) BY <2>4, <2>7, <3>2
      <3> QED BY <3>3 DEF idx
    <2> QED BY <2>6, <2>7
  <1> QED BY <1>1 DEF Shows

(* A line that ends, on the last row or above it. *)
LEMMA VgaBreak ==
    ASSUME NEW lines \in Seq(Seq(AllChars)), Len(lines) >= 1, NEW screen, NEW color, Shows(screen, lines)
    PROVE  IF Row(lines) + 1 >= HEIGHT
           THEN /\ Shows(Scrolled(screen, color), Append(lines, <<>>))
                /\ PlaceOf(Append(lines, <<>>)) = [col |-> 0, row |-> HEIGHT - 1]
           ELSE /\ Shows(screen, Append(lines, <<>>))
                /\ PlaceOf(Append(lines, <<>>)) = [col |-> 0, row |-> Row(lines) + 1]
  <1>1. Len(lines) \in Nat OBVIOUS
  <1>2. PlaceOf(Append(lines, <<>>)) =
            [col |-> 0, row |-> IF Len(lines) < HEIGHT THEN Len(lines) ELSE HEIGHT - 1]
    BY <1>1, NewLineIs
  <1>3. CASE Len(lines) < HEIGHT
    <2>1. Row(lines) + 1 = Len(lines) BY <1>1, <1>3, Sizes DEF Row
    <2>2. Shows(screen, Append(lines, <<>>)) BY <1>1, <1>3, BreakShows
    <2>3. ~(Row(lines) + 1 >= HEIGHT) BY <1>1, <1>3, <2>1, Sizes
    <2> QED BY <1>2, <1>3, <2>1, <2>2, <2>3
  <1>4. CASE ~(Len(lines) < HEIGHT)
    <2>1. Len(lines) >= HEIGHT BY <1>1, <1>4, Sizes
    <2>2. Row(lines) + 1 >= HEIGHT BY <1>1, <2>1, Sizes DEF Row
    <2>3. Shows(Scrolled(screen, color), Append(lines, <<>>)) BY <1>1, <2>1, ScrolledShows
    <2> QED BY <1>2, <1>4, <2>2, <2>3
  <1> QED BY <1>3, <1>4

(* vga_putchar, whose cursor is where the lines end. *)
LEMMA VgaPutcharScreen ==
    ASSUME IInv, ScreenInv, vga_putchar
    PROVE  ScreenInv'
  <1> DEFINE c == Head(k.todo)
             next == VgaNext(vga, c)
             drawn == IF c = NL THEN io.screen
                      ELSE [io.screen EXCEPT ![vga.y * WIDTH + vga.x] = <<c, VGA_WHITE>>]
             screen == IF next.y >= HEIGHT THEN Scrolled(drawn, VGA_WHITE) ELSE drawn
             text == hist.text
             lines == Lines(text)
             more == Append(text, c)
             w == With(lines, c)
  <1>1. TypesInv /\ ControlInv BY DEF IInv
  <1>2. /\ k.pc = "vga" /\ k.todo # <<>> /\ k' = [k EXCEPT !.todo = Tail(@)]
        /\ io' = [io EXCEPT !.thr_full = TRUE, !.screen = screen]
        /\ vga' = IF next.y >= HEIGHT THEN [x |-> 0, y |-> HEIGHT - 1] ELSE next
        /\ hist' = [hist EXCEPT !.text = more]
        /\ UNCHANGED <<boot_vars, th, intr, said>>
    BY DEF vga_putchar
  <1>3. c \in AllChars
    <2>1. k.todo \in Seq(Chars) BY <1>1, <1>2 DEF TypesInv
    <2>2. c \in Chars BY <1>2, <2>1
    <2> QED BY <2>2 DEF AllChars
  <1>4. k'.pc = "vga" BY <1>1, <1>2 DEF TypesInv
  <1>5. ~InTui /\ ~InTui' BY <1>2, <1>4 DEF InTui
  <1>6. /\ text \in Seq(AllChars) /\ Shows(io.screen, lines) /\ [col |-> vga.x, row |-> vga.y] = PlaceOf(lines)
        /\ io.pos = Home /\ Followed(io) /\ hist.clean /\ ~hist.overrun /\ ~hist.disturbed
    BY <1>2, <1>5 DEF ScreenInv
  <1>7. Idle("kernel")' /\ Idle("handler")' BY <1>1, <1>2 DEF ControlInv, Resting, Idle
  <1>8. DOMAIN io.screen = Cells BY <1>1 DEF TypesInv, Memory
  <1> HIDE DEF c, screen
  <1>9. io'.pos = Home /\ io'.crtc = io.crtc /\ io'.screen = screen
    BY <1>1, <1>2, <1>6 DEF TypesInv, Memory
  <1>10. hist'.text = more /\ hist'.clean /\ ~hist'.overrun /\ ~hist'.disturbed
    BY <1>1, <1>2, <1>6 DEF TypesInv
  <1>11. IsLines(lines) BY <1>6, LinesAre
  <1>12. more \in Seq(AllChars) /\ Lines(more) = AddChar(lines, c) BY <1>3, <1>6, LinesGrow
  <1> HIDE DEF lines
  <1>13. vga.x = Len(lines[Len(lines)]) /\ vga.y = Row(lines)
    <2>1. PlaceOf(lines).row = Row(lines) /\ PlaceOf(lines).col = Len(lines[Len(lines)]) BY <1>11, PlaceIs
    <2> QED BY <1>6, <2>1
  <1>14. vga \in [x : 0 .. WIDTH - 1, y : 0 .. HEIGHT - 1] BY <1>1 DEF TypesInv
  <1>15. Shows(io'.screen, Lines(more)) /\ [col |-> vga'.x, row |-> vga'.y] = PlaceOf(Lines(more))
    <2>1. ASSUME NEW all \in Seq(Seq(AllChars)), Len(all) >= 1, Row(all) = vga.y,
                 Shows(drawn, all), c = NL \/ vga.x + 1 = WIDTH, Lines(more) = Append(all, <<>>)
          PROVE  Shows(io'.screen, Lines(more)) /\ [col |-> vga'.x, row |-> vga'.y] = PlaceOf(Lines(more))
      <3>1. next = [x |-> 0, y |-> vga.y + 1] BY <2>1 DEF VgaNext
      <3> HIDE DEF drawn
      <3>2. IF vga.y + 1 >= HEIGHT
            THEN /\ Shows(Scrolled(drawn, VGA_WHITE), Append(all, <<>>))
                 /\ PlaceOf(Append(all, <<>>)) = [col |-> 0, row |-> HEIGHT - 1]
            ELSE /\ Shows(drawn, Append(all, <<>>))
                 /\ PlaceOf(Append(all, <<>>)) = [col |-> 0, row |-> vga.y + 1]
        BY <2>1, VgaBreak
      <3>3. next.y = vga.y + 1 /\ next.x = 0 BY <3>1
      <3>4. CASE vga.y + 1 >= HEIGHT
        <4>1. screen = Scrolled(drawn, VGA_WHITE) BY <3>3, <3>4 DEF screen
        <4>2. vga' = [x |-> 0, y |-> HEIGHT - 1] BY <1>2, <3>3, <3>4
        <4>3. vga'.x = 0 /\ vga'.y = HEIGHT - 1 BY <4>2
        <4> HIDE DEF next
        <4> QED BY <1>9, <2>1, <3>2, <3>4, <4>1, <4>3
      <3>5. CASE ~(vga.y + 1 >= HEIGHT)
        <4>1. screen = drawn BY <3>3, <3>5 DEF screen
        <4>2. vga' = next BY <1>2, <3>3, <3>5
        <4>3. vga'.x = 0 /\ vga'.y = vga.y + 1 BY <3>3, <4>2
        <4> HIDE DEF next
        <4> QED BY <1>9, <2>1, <3>2, <3>5, <4>1, <4>3
      <3> QED BY <3>4, <3>5
    <2>2. CASE c = NL
      <3>1. drawn = io.screen BY <2>2
      <3>2. Lines(more) = Append(lines, <<>>) BY <1>12, <2>2 DEF AddChar
      <3>3. Shows(drawn, lines) BY <1>6, <3>1 DEF lines
      <3> HIDE DEF drawn, next
      <3>4. lines \in Seq(Seq(AllChars)) /\ Len(lines) >= 1 BY <1>11 DEF IsLines
      <3> QED BY <1>13, <2>1, <2>2, <3>2, <3>3, <3>4
    <2>3. CASE c # NL
      <3>1. drawn = [io.screen EXCEPT ![Row(lines) * WIDTH + Len(lines[Len(lines)])] = <<c, VGA_WHITE>>]
        BY <1>13, <2>3
      <3>2. Shows(io.screen, lines) BY <1>6 DEF lines
      <3>3. Shows(drawn, w) 
        <4>1. Shows([io.screen EXCEPT ![Row(lines) * WIDTH + Len(lines[Len(lines)])] = <<c, VGA_WHITE>>], w)
          BY <1>3, <1>8, <1>11, <3>2, DrawingShows
        <4> QED BY <3>1, <4>1
      <3>4. Lines(more) = IF vga.x + 1 = WIDTH THEN Append(w, <<>>) ELSE w
        BY <1>3, <1>11, <1>12, <1>13, <2>3, AddCharIs
      <3>5. /\ w \in Seq(Seq(AllChars)) /\ Len(w) = Len(lines) /\ Len(w) >= 1
            /\ w[Len(w)] = Append(lines[Len(lines)], c)
        <4>1. lines \in Seq(Seq(AllChars)) /\ Len(lines) >= 1 BY <1>11 DEF IsLines
        <4>2. /\ w \in Seq(Seq(AllChars)) /\ Len(w) = Len(lines)
              /\ w[Len(lines)] = Append(lines[Len(lines)], c)
          BY <1>3, <4>1, WithIs, Zenon
        <4> HIDE DEF w
        <4> QED BY <4>1, <4>2, Zenon
      <3>6. Row(w) = vga.y BY <1>13, <3>5 DEF Row
      <3> HIDE DEF drawn, w
      <3>7. CASE vga.x + 1 = WIDTH
        <4>1. Lines(more) = Append(w, <<>>) BY <3>4, <3>7
        <4> QED BY <2>1, <3>3, <3>5, <3>6, <3>7, <4>1
      <3>8. CASE vga.x + 1 # WIDTH
        <4>1. Lines(more) = w BY <3>4, <3>8
        <4>2. next = [vga EXCEPT !.x = @ + 1] BY <2>3, <3>8 DEF VgaNext
        <4>3. next.x = vga.x + 1 /\ next.y = vga.y BY <1>14, <4>2
        <4>4. ~(next.y >= HEIGHT) BY <1>14, <4>3, Sizes
        <4>5. screen = drawn /\ vga' = next BY <1>2, <4>4 DEF screen
        <4> HIDE DEF next
        <4>6. IsLines(w) BY <1>11, <1>12, <1>3, <4>1, AddCharIs
        <4>7. PlaceOf(w) = [col |-> vga.x + 1, row |-> vga.y]
          <5>1. Last(w) = w[Len(w)] BY DEF Last
          <5>2. lines[Len(lines)] \in Seq(AllChars) BY <1>11 DEF IsLines
          <5>3. Len(Append(lines[Len(lines)], c)) = Len(lines[Len(lines)]) + 1 BY <1>3, <5>2
          <5> QED BY <1>13, <3>5, <3>6, <5>1, <5>3 DEF PlaceOf
        <4> QED BY <1>9, <3>3, <4>1, <4>3, <4>5, <4>7
      <3> QED BY <3>7, <3>8
    <2> QED BY <2>2, <2>3
  <1>16. Followed(io)' BY <1>6, <1>9 DEF Followed
  <1>17. \A x \in Threads : Alone(x)' BY <1>7, IdleIsAlone DEF Threads
  <1> HIDE DEF more, text
  <1> QED BY <1>4, <1>5, <1>7, <1>9, <1>10, <1>12, <1>15, <1>16, <1>17 DEF ScreenInv

-----------------------------------------------------------------------------
(* A message begins on a screen that is settled. *)
LEMMA BeginsAlone ==
    ASSUME NEW x \in Threads, Resting, hist.clean, InTui, ScreenInv,
           th'[x].at \in {"get_color", "format", "clear"}, th'[x].n = 0,
           UNCHANGED io, hist'.text = hist.text
    PROVE  Alone(x)'
  <1>1. Followed(io) /\ (Plain(hist.text) => Settled(io, hist.text)) BY DEF ScreenInv
  <1>2. Followed(io)' /\ (Plain(hist.text)' => Settled(io, hist.text)') BY <1>1 DEF Followed, Settled
  <1>3. Programmed(th[x], io)' BY <1>2 DEF Programmed, Quiet, Stored, SetPos
  <1>4. Plain(hist.text)' => Drawn(th[x], io, hist.text)' BY <1>2 DEF Drawn, Quiet, Stored, SetPos
  <1>5. Wiped(0, io.screen)'
    <2>1. ASSUME NEW r \in 0 .. HEIGHT - 1, NEW c \in 0 .. WIDTH - 1 PROVE ~(r * WIDTH + c < 0)
      <3> DEFINE idx == r * WIDTH + c
      <3>1. idx \in Nat BY CellIs, StaysBelow
      <3> HIDE DEF idx
      <3>2. ~(idx < 0) BY <3>1
      <3> QED BY <3>2 DEF idx
    <2> QED BY <2>1 DEF Wiped
  <1> QED BY <1>3, <1>4, <1>5 DEF Alone

(* kernel_main begins a message, or turns interrupts on. *)
LEMMA NextCallScreen ==
    ASSUME IInv, ScreenInv, NextCall
    PROVE  ScreenInv'
  <1> DEFINE call == Head(k.todo)
             new == Call(call.fn, call.text, EntryOf(call.fn))
  <1>1. TypesInv /\ ControlInv BY DEF IInv
  <1>2. /\ Resting /\ k.pc = "main" /\ k' = [k EXCEPT !.todo = Tail(@)]
        /\ UNCHANGED <<boot_vars, io, vga>>
    BY DEF NextCall
  <1>3. k'.pc = "main" BY <1>1, <1>2 DEF TypesInv
  <1>4. InTui /\ InTui' BY <1>2, <1>3 DEF InTui
  <1>5. CASE call.fn = "sti"
    <2>1. UNCHANGED <<th, hist>> BY <1>5 DEF NextCall
    <2> QED BY <1>2, <1>3, <1>4, <2>1, NobodyDraws
  <1>6. CASE call.fn # "sti"
    <2>1. /\ th' = [th EXCEPT !["kernel"] = new] /\ hist' = [hist EXCEPT !.disturbed = FALSE]
      BY <1>6 DEF NextCall
    <2>2. new.at \in {"get_color", "format", "clear"} /\ new.n = 0 BY DEF Call, EntryOf
    <2> HIDE DEF new, call
    <2>3. /\ th'["kernel"] = new /\ th'["handler"] = th["handler"] /\ th["handler"].at = "idle"
      BY <1>1, <1>2, <2>1 DEF TypesInv, Threads, Resting, Idle
    <2>4. /\ hist'.text = hist.text /\ hist'.clean = hist.clean
          /\ ~hist'.disturbed /\ hist'.overrun = hist.overrun
      BY <1>1, <2>1 DEF TypesInv
    <2>5. hist'.text \in Seq(AllChars) BY <2>4 DEF ScreenInv
    <2>6. Idle("handler")' /\ ~Resting' BY <2>2, <2>3 DEF Idle, Resting
    <2>7. ASSUME hist.clean PROVE ~hist'.overrun /\ \A x \in Threads : Alone(x)'
      <3>1. Alone("handler")' BY <2>6, IdleIsAlone DEF Threads
      <3>2. Alone("kernel")' BY <1>2, <1>4, <2>2, <2>3, <2>4, <2>7, BeginsAlone DEF Threads
      <3>3. ~hist.overrun BY <2>7 DEF ScreenInv
      <3> QED BY <2>4, <3>1, <3>2, <3>3 DEF Threads
    <2> QED BY <1>3, <1>4, <2>4, <2>5, <2>6, <2>7 DEF ScreenInv
  <1> QED BY <1>5, <1>6

(* A handler begins: between two messages, or inside one, which ends the claim. *)
LEMMA InterruptScreen ==
    ASSUME IInv, ScreenInv, Tick \/ Unhandled
    PROVE  ScreenInv'
  <1>1. TypesInv /\ ControlInv BY DEF IInv
  <1>2. PICK text \in {TickText, UnhandledText} : Interrupt(text) BY DEF Tick, Unhandled
  <1> DEFINE new == Call("info", text, "get_color")
  <1>3. /\ th' = [th EXCEPT !["handler"] = new]
        /\ hist' = IF Idle("kernel") THEN hist
                   ELSE [hist EXCEPT !.disturbed = TRUE, !.clean = FALSE, !.text = <<>>]
        /\ UNCHANGED <<io, vga, k>>
    BY <1>2 DEF Interrupt
  <1>4. Idle("handler") BY DEF Tick, Unhandled
  <1>5. k.pc \in {"main", "hlt"} BY <1>1 DEF Tick, Unhandled, ControlInv
  <1>6. InTui /\ InTui' /\ k'.pc # "vga" BY <1>3, <1>5 DEF InTui
  <1>7. new.at = "get_color" /\ new.n = 0 BY DEF Call
  <1> HIDE DEF new
  <1>8. th'["handler"] = new /\ th'["kernel"] = th["kernel"] BY <1>1, <1>3 DEF TypesInv, Threads
  <1>9. ~Resting' BY <1>7, <1>8 DEF Resting, Idle
  <1>10. CASE Idle("kernel")
    <2>1. hist' = hist /\ Resting BY <1>3, <1>4, <1>10 DEF Resting
    <2>2. Idle("kernel")' BY <1>8, <1>10 DEF Idle
    <2>3. ASSUME hist.clean PROVE \A x \in Threads : Alone(x)'
      <3>1. Alone("kernel")' BY <2>2, IdleIsAlone DEF Threads
      <3>2. Alone("handler")' BY <1>3, <1>6, <1>7, <1>8, <2>1, <2>3, BeginsAlone DEF Threads
      <3> QED BY <3>1, <3>2 DEF Threads
    <2> QED BY <1>6, <1>9, <2>1, <2>2, <2>3 DEF ScreenInv
  <1>11. CASE ~Idle("kernel")
    <2>1. hist' = [hist EXCEPT !.disturbed = TRUE, !.clean = FALSE, !.text = <<>>] BY <1>3, <1>11
    <2>2. hist'.text = <<>> /\ ~hist'.clean BY <1>1, <2>1 DEF TypesInv
    <2>3. <<>> \in Seq(AllChars) OBVIOUS
    <2> QED BY <1>6, <2>2, <2>3 DEF ScreenInv
  <1> QED BY <1>10, <1>11

LEMMA ScreenInitially == Init => ScreenInv
  <1> SUFFICES ASSUME Init PROVE ScreenInv OBVIOUS
  <1>1. io = Blank /\ k.pc = "cpp_init" BY DEF Init
  <1>2. hist.text = <<>> /\ hist.clean /\ ~hist.disturbed /\ ~hist.overrun BY DEF Init
  <1>3. Idle("kernel") /\ Idle("handler") BY DEF Init, Idle, Call, Threads
  <1>4. io.pos = Home /\ io.crtc.H = 0 /\ io.crtc.L = 0 BY <1>1 DEF Blank
  <1>5. Followed(io)
    <2>1. Index(Home) = 0 /\ 0 * UINT8 + 0 = 0 BY Sizes DEF Index, Home
    <2> QED BY <1>4, <2>1 DEF Followed
  <1>6. <<>> \in Seq(AllChars) OBVIOUS
  <1>7. \A x \in Threads : Alone(x) BY <1>3, IdleIsAlone DEF Threads
  <1>8. ~InTui BY <1>1 DEF InTui
  <1> QED BY <1>1, <1>2, <1>3, <1>4, <1>5, <1>6, <1>7, <1>8 DEF ScreenInv

LEMMA ScreenGoesOn == IInv /\ ScreenInv /\ [Next]_vars => ScreenInv'
  <1> SUFFICES ASSUME IInv, ScreenInv, [Next]_vars PROVE ScreenInv' OBVIOUS
  <1>1. TypesInv BY DEF IInv
  <1>2. CASE UNCHANGED con_vars
    <2>1. UNCHANGED <<io, vga, th, k, hist>> BY <1>2 DEF con_vars
    <2>2. InTui' = InTui BY <2>1 DEF InTui
    <2> QED BY <2>1, <2>2, NobodyDraws
  <1>3. CASE \E file \in {"tui.cpp", "io.cpp"} : cpp_init(file) BY <1>3, CppInitScreen
  <1>4. CASE TestVga BY <1>4, VgaInitScreen DEF TestVga
  <1>5. CASE StartTui BY <1>5, VgaInitScreen DEF StartTui
  <1>6. CASE vga_putchar BY <1>6, VgaPutcharScreen
  <1>7. CASE VgaDone \/ Halt \/ Transmit
    <2>1. UNCHANGED <<th, hist, vga>> BY <1>7 DEF VgaDone, Halt, Transmit
    <2>2. io' = io \/ io' = [io EXCEPT !.thr_full = FALSE] BY <1>7 DEF VgaDone, Halt, Transmit
    <2>3. /\ io'.screen = io.screen /\ io'.pos = io.pos /\ io'.crtc = io.crtc
          /\ io'.thr_full => io.thr_full
      BY <1>1, <2>2 DEF TypesInv, Memory
    <2>4. \/ k' = k
          \/ k.pc = "vga" /\ k' = [k EXCEPT !.pc = "clear"]
          \/ k.pc = "main" /\ k' = [k EXCEPT !.pc = "hlt"]
      BY <1>7 DEF VgaDone, Halt, Transmit
    <2>5. k' = k \/ (k.pc = "vga" /\ k'.pc = "clear") \/ (k.pc = "main" /\ k'.pc = "hlt")
      BY <1>1, <2>4 DEF TypesInv
    <2>6. InTui' = InTui /\ (k'.pc = "vga" => k.pc = "vga") BY <2>5 DEF InTui
    <2> QED BY <2>1, <2>3, <2>6, NobodyDraws
  <1>8. CASE NextCall BY <1>8, NextCallScreen
  <1>9. CASE Tick \/ Unhandled BY <1>9, InterruptScreen
  <1>10. CASE \E x \in Threads : Step(x) BY <1>10, StepScreen
  <1>11. CASE UNCHANGED vars BY <1>2, <1>11 DEF vars
  <1> QED
    BY <1>2, <1>3, <1>4, <1>5, <1>6, <1>7, <1>8, <1>9, <1>10, <1>11 DEF Next, EarlyBoot

(* Until a handler has cut into a message, the screen shows the end of     *)
(* what was printed, wrapped at the right edge and scrolled at the bottom: *)
(* what vga_putchar drew during boot (vgaprint.cpp:38) and what put_char,  *)
(* scroll and clear draw afterwards (tui.cpp:130, tui.cpp:169); the        *)
(* cursor registers hold the place of the next character (tui.cpp:65), and *)
(* no character is written to a serial line that is full                   *)
(* (vgaprint.cpp:77).                                                      *)
THEOREM ScreenIsRight == Spec => []ScreenShows
  <1>1. ScreenInv => ScreenShows
    <2> SUFFICES ASSUME ScreenInv PROVE ScreenShows OBVIOUS
    <2>1. Showing(io.screen, hist.text) = Shows(io.screen, Lines(hist.text)) BY DEF Showing, Shows
    <2>2. CursorFollows = Followed(io) BY DEF CursorFollows, Followed
    <2>3. k.pc = "vga" => Showing(io.screen, hist.text) BY <2>1 DEF ScreenInv
    <2>4. ASSUME k.pc \in {"main", "hlt"}, Resting, hist.clean, Plain(hist.text)
          PROVE  Showing(io.screen, hist.text)
      BY <2>1, <2>4 DEF ScreenInv, InTui, Settled
    <2>5. ASSUME hist.clean PROVE ~hist.overrun /\ (Resting => CursorFollows) BY <2>2, <2>5 DEF ScreenInv
    <2> QED BY <2>3, <2>4, <2>5 DEF ScreenShows
  <1>2. Spec => []ScreenInv
    <2>1. Init => ScreenInv BY ScreenInitially
    <2>2. IInv /\ ScreenInv /\ [Next]_vars => ScreenInv' BY ScreenGoesOn
    <2> QED BY <2>1, <2>2, Inductive, PTL DEF Spec
  <1> QED BY <1>1, <1>2, PTL
=============================================================================
