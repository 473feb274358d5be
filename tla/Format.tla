------------------------------- MODULE Format -------------------------------
(***************************************************************************)
(* _vsnprintf (libc/src/stdio/vsprintf.c), which writes the formatted text *)
(* of every message, and the formatter inside vga_printf                   *)
(* (libk/src/vgaprint.cpp), which prints the early ones.  A format is a    *)
(* sequence of characters; behind it is its terminator.  An argument is    *)
(* what each conversion would take it for: a machine word, the character   *)
(* with that code, the string at that address.  A step is one round of a   *)
(* loop of _vsnprintf over its format.                                     *)
(***************************************************************************)
EXTENDS Integers, SequencesExt, FiniteSetsExt

CONSTANTS CHAR_BITS, SHORT_BITS, INT_BITS, LONG_BITS,   \* 8, 16, 32, 64
          PRINTF_NTOA_BUFFER_SIZE,                      \* 32
          SIZE_MAX,                                     \* (size_t)-1
          BufBytes,         \* the bytes of the caller's buffer and behind it
          FormatCalls       \* the calls: function, buffer, size, format, arguments

VARIABLE fmt                \* the locals of _vsnprintf, see Entered

Zero == "NUL"
Junk == "junk"              \* what the buffer held before
Digits == <<"0", "1", "2", "3", "4", "5", "6", "7", "8", "9">>
_is_digit(c) == c \in Range(Digits)
ValueOf(c) == CHOOSE d \in 0 .. 9 : Digits[d + 1] = c
HexDigit(d, upper) ==
    IF d < 10 THEN Digits[d + 1]
    ELSE (IF upper THEN <<"A", "B", "C", "D", "E", "F">> ELSE <<"a", "b", "c", "d", "e", "f">>)[d - 9]

(* Conversions of a machine word to a type of so many bits. *)
Unsigned(word, bits) == word % 2 ^ bits
ToSigned(word, bits) == LET u == Unsigned(word, bits) IN IF u >= 2 ^ (bits - 1) THEN u - 2 ^ bits ELSE u

(* text is all that was put out so far: Len(text) is idx.  number is the   *)
(* last number converted.                                                  *)
NoNumber == [value |-> 0, base |-> 10, text |-> <<>>]
Entered(c, format) ==
    [call |-> c, format |-> format, va |-> c.va, at |-> "loop", pos |-> 1, flags |-> {}, width |-> 0,
     precision |-> 0, text |-> <<>>, number |-> NoNumber, buffer |-> [x \in 0 .. BufBytes - 1 |-> Junk], ret |-> -1]

(* sprintf_ ignores its format. *)
TestFormat == <<"T", "E", "S", "T", ":", "%", "d", "NL">>
FormatOf(c) == IF c.fn = "sprintf_" THEN TestFormat ELSE c.format
_maxlen(c) == IF c.fn = "sprintf_" THEN SIZE_MAX ELSE c.count

(* A call has as many arguments as any format of that length could take:   *)
(* behind those of the caller, va_arg takes what the stack holds.          *)
Args == [word : Nat, char : STRING, str : Seq(STRING)]
ASSUME FormatAssumption ==
    /\ {CHAR_BITS, SHORT_BITS, INT_BITS, LONG_BITS, PRINTF_NTOA_BUFFER_SIZE} \subseteq Nat \ {0}
    /\ 2 ^ INT_BITS \in Nat \ {0} /\ 2 ^ (INT_BITS - 1) \in Nat \ {0}
    /\ 2 ^ INT_BITS = 2 * 2 ^ (INT_BITS - 1)
    /\ LONG_BITS % 4 = 0 /\ LONG_BITS \div 4 < 2 ^ INT_BITS /\ SIZE_MAX \in Nat /\ BufBytes \in Nat
    /\ FormatCalls \subseteq [fn : {"sprintf_", "snprintf_", "vsnprintf_"}, null : BOOLEAN,
                              count : 0 .. SIZE_MAX, format : Seq(STRING), va : Seq(Args)]
    /\ \A c \in FormatCalls : Len(c.va) >= Len(FormatOf(c))

NoFormat == [at |-> "none"]
FormatInit == fmt = NoFormat
FormatCall == fmt = NoFormat /\ \E c \in FormatCalls : fmt' = Entered(c, FormatOf(c))

-----------------------------------------------------------------------------
At(label) == fmt.at = label
Char == IF fmt.pos <= Len(fmt.format) THEN fmt.format[fmt.pos] ELSE Zero
Here(chars) == Char \in chars
Maxlen == _maxlen(fmt.call)

(* _out_buffer for each character of text, or _out_null when there is no   *)
(* buffer.                                                                 *)
_out_buffer_Late(buffer, text, idx) ==      \* mutation: <= for <
    [x \in DOMAIN buffer |-> IF x - idx + 1 \in DOMAIN text /\ x <= Maxlen THEN text[x - idx + 1] ELSE buffer[x]]
_out_buffer(buffer, text, idx) ==
    [x \in DOMAIN buffer |-> IF x - idx + 1 \in DOMAIN text /\ x < Maxlen THEN text[x - idx + 1] ELSE buffer[x]]
_out_null(buffer, text, idx) == buffer
out(buffer, text, idx) == IF fmt.call.null THEN _out_null(buffer, text, idx) ELSE _out_buffer(buffer, text, idx)

Out(text) ==
    [fmt EXCEPT !.text = @ \o text, !.pos = @ + 1, !.at = "loop", !.buffer = out(@, text, Len(fmt.text))]
Repeat(c, n) == [i \in 1 .. n |-> c]
Padding(len, width) == Repeat(" ", IF len < width THEN width - len ELSE 0)

Literal == At("loop") /\ fmt.pos <= Len(fmt.format) /\ ~Here({"%"}) /\ fmt' = Out(<<Char>>)
Directive ==
    /\ At("loop") /\ Here({"%"})
    /\ fmt' = [fmt EXCEPT !.at = "flags", !.pos = @ + 1, !.flags = {}, !.width = 0, !.precision = 0]

FlagOf(c) == CASE c = "0" -> "ZEROPAD" [] c = "-" -> "LEFT" [] c = "+" -> "PLUS"
               [] c = " " -> "SPACE" [] c = "#" -> "HASH"
Flags_Stays ==              \* mutation: a flag does not move the pointer
    /\ At("flags")
    /\ fmt' = IF Here({"0", "-", "+", " ", "#"}) THEN [fmt EXCEPT !.flags = @ \cup {FlagOf(Char)}]
              ELSE [fmt EXCEPT !.at = "width"]
Flags ==
    /\ At("flags")
    /\ fmt' = IF Here({"0", "-", "+", " ", "#"})
              THEN [fmt EXCEPT !.flags = @ \cup {FlagOf(Char)}, !.pos = @ + 1]
              ELSE [fmt EXCEPT !.at = "width"]

(* One round of _atoi, in an unsigned int. *)
_atoi(i) == Unsigned(i * 10 + ValueOf(Char), INT_BITS)

Arg == Head(fmt.va)
Star == ToSigned(Arg.word, INT_BITS)
Width ==
    /\ At("width")
    /\ fmt' = CASE _is_digit(Char) -> [fmt EXCEPT !.at = "width_digits"]
                [] Here({"*"}) ->
                       [fmt EXCEPT !.at = "precision", !.pos = @ + 1, !.va = Tail(@),
                                   !.flags = IF Star < 0 THEN @ \cup {"LEFT"} ELSE @,
                                   !.width = Unsigned(IF Star < 0 THEN -Star ELSE Star, INT_BITS)]
                [] OTHER -> [fmt EXCEPT !.at = "precision"]
WidthDigits ==
    /\ At("width_digits")
    /\ fmt' = IF _is_digit(Char) THEN [fmt EXCEPT !.width = _atoi(@), !.pos = @ + 1]
              ELSE [fmt EXCEPT !.at = "precision"]

Precision ==
    /\ At("precision")
    /\ fmt' = CASE Here({"."}) /\ "PRECISION" \notin fmt.flags ->
                       [fmt EXCEPT !.flags = @ \cup {"PRECISION"}, !.pos = @ + 1]
                [] "PRECISION" \in fmt.flags /\ _is_digit(Char) -> [fmt EXCEPT !.at = "precision_digits"]
                [] "PRECISION" \in fmt.flags /\ Here({"*"}) ->
                       [fmt EXCEPT !.at = "length", !.pos = @ + 1, !.va = Tail(@),
                                   !.precision = IF Star > 0 THEN Star ELSE 0]
                [] OTHER -> [fmt EXCEPT !.at = "length"]
PrecisionDigits ==
    /\ At("precision_digits")
    /\ fmt' = IF _is_digit(Char) THEN [fmt EXCEPT !.precision = _atoi(@), !.pos = @ + 1]
              ELSE [fmt EXCEPT !.at = "length"]

(* ptrdiff_t, intmax_t and size_t are as long as a long. *)
Twice(c) == fmt.pos < Len(fmt.format) /\ fmt.format[fmt.pos] = c /\ fmt.format[fmt.pos + 1] = c
Length ==
    /\ At("length")
    /\ LET Longer(flags, n) == [fmt EXCEPT !.at = "specifier", !.flags = @ \cup flags, !.pos = @ + n] IN
       fmt' = CASE Twice("l") -> Longer({"LONG", "LONG_LONG"}, 2)
                [] Twice("h") -> Longer({"SHORT", "CHAR"}, 2)
                [] Here({"h"}) /\ ~Twice("h") -> Longer({"SHORT"}, 1)
                [] Here({"l", "t", "j", "z"}) /\ ~Twice("l") -> Longer({"LONG"}, 1)
                [] OTHER -> Longer({}, 0)

-----------------------------------------------------------------------------
(* A number, least significant digit first, in a buffer of its own. *)
Room(buf) == Len(buf) < PRINTF_NTOA_BUFFER_SIZE
Put(buf, c) == IF Room(buf) THEN Append(buf, c) ELSE buf
Zeros(buf, len) ==
    LET to == Min({len, PRINTF_NTOA_BUFFER_SIZE}) IN
    buf \o Repeat("0", IF to > Len(buf) THEN to - Len(buf) ELSE 0)

_out_rev(buf, width, flags) ==
    CASE "LEFT" \in flags -> Reverse(buf) \o Padding(Len(buf), width)
      [] "LEFT" \notin flags /\ "ZEROPAD" \in flags -> Reverse(buf)
      [] OTHER -> Padding(Len(buf), width) \o Reverse(buf)

(* Where the zeros end: a sign takes one place of a zero-padded width. *)
ZeroWidth(width, negative, flags) ==
    IF /\ width # 0 /\ "ZEROPAD" \in flags /\ "LEFT" \notin flags
       /\ negative \/ {"PLUS", "SPACE"} \cap flags # {}
    THEN width - 1 ELSE width

(* The prefix of #: it takes the place of one or two leading digits when   *)
(* the number is as long as the width.                                     *)
Hashed(buf, base, prec, width, flags) ==
    LET overlaps == "PRECISION" \notin flags /\ buf # <<>> /\ Len(buf) \in {prec, width}
        rest == SubSeq(buf, 1, Len(buf) - (IF ~overlaps THEN 0 ELSE IF base = 16 /\ Len(buf) > 1 THEN 2 ELSE 1))
        letter == CASE base = 16 -> <<IF "UPPERCASE" \in flags THEN "X" ELSE "x">>
                    [] base = 2 -> <<"b">> [] OTHER -> <<>>
    IN IF "HASH" \notin flags THEN buf
       ELSE Put(IF letter = <<>> THEN rest ELSE Put(rest, letter[1]), "0")

_ntoa_format(buf, negative, base, prec, width, flags) ==
    LET w      == ZeroWidth(width, negative, flags)
        padded == CASE "LEFT" \in flags -> buf
                    [] "LEFT" \notin flags /\ "ZEROPAD" \in flags -> Zeros(Zeros(buf, prec), w)
                    [] OTHER -> Zeros(buf, prec)
        hashed == Hashed(padded, base, prec, w, flags)
        signed == CASE negative -> Put(hashed, "-")
                    [] ~negative /\ "PLUS" \in flags -> Put(hashed, "+")
                    [] ~negative /\ "PLUS" \notin flags /\ "SPACE" \in flags -> Put(hashed, " ")
                    [] OTHER -> hashed
    IN _out_rev(signed, w, flags)

(* _ntoa_long and _ntoa_long_long, which differ in their types only. *)
MoreDigits_Greater(value, base, len) == value > base /\ len + 1 < PRINTF_NTOA_BUFFER_SIZE   \* mutation
MoreDigits(value, base, len) == value \div base # 0 /\ len + 1 < PRINTF_NTOA_BUFFER_SIZE
Left(value, base, round) == value \div base ^ (round - 1)  \* of value, before that round of the loop
Rounds(value, base) == Min({n \in 1 .. PRINTF_NTOA_BUFFER_SIZE : ~MoreDigits(Left(value, base, n), base, n - 1)})
_ntoa_long(value, negative, base, prec, width, flags) ==
    LET digits == [n \in 1 .. Rounds(value, base) |-> HexDigit(Left(value, base, n) % base, "UPPERCASE" \in flags)]
        buf == IF "PRECISION" \notin flags \/ value # 0 THEN digits ELSE <<>>
    IN _ntoa_format(buf, negative, base, prec, width, IF value = 0 THEN flags \ {"HASH"} ELSE flags)

(* The flags a conversion drops or adds. *)
BaseOf(c) == CASE c \in {"x", "X"} -> 16 [] c = "o" -> 8 [] c = "b" -> 2 [] OTHER -> 10
IntegerFlags(c, flags) ==
    (flags \cup (IF c = "X" THEN {"UPPERCASE"} ELSE {}))
    \ UNION {IF BaseOf(c) = 10 THEN {"HASH"} ELSE {},
             IF c \notin {"i", "d"} THEN {"PLUS", "SPACE"} ELSE {},
             IF "PRECISION" \in flags THEN {"ZEROPAD"} ELSE {}}
BitsOf(flags) == CASE "LONG" \in flags -> LONG_BITS [] "CHAR" \in flags -> CHAR_BITS
                   [] "SHORT" \in flags /\ "CHAR" \notin flags -> SHORT_BITS [] OTHER -> INT_BITS

(* 0 - value overflows for the least int and long, and gives it again,     *)
(* which is its absolute value as an unsigned.                             *)
Integer ==
    /\ At("specifier") /\ Here({"d", "i", "u", "x", "X", "o", "b"})
    /\ LET flags == IntegerFlags(Char, fmt.flags)
           value == IF Here({"d", "i"}) THEN ToSigned(Arg.word, BitsOf(flags))
                    ELSE Unsigned(Arg.word, BitsOf(flags))
           text  == _ntoa_long(IF value < 0 THEN -value ELSE value, value < 0, BaseOf(Char),
                               fmt.precision, fmt.width, flags)
       IN fmt' = [Out(text) EXCEPT !.va = Tail(@), !.flags = flags,
                                   !.number = [value |-> value, base |-> BaseOf(Char), text |-> text]]

Character ==
    /\ At("specifier") /\ Here({"c"})
    /\ LET pad == Padding(1, fmt.width) IN
       fmt' = [Out(IF "LEFT" \in fmt.flags THEN <<Arg.char>> \o pad ELSE pad \o <<Arg.char>>)
                  EXCEPT !.va = Tail(@)]

_strnlen_s(str, maxsize) == Min({Len(str), maxsize})
String ==
    /\ At("specifier") /\ Here({"s"})
    /\ LET str  == Arg.str
           l    == _strnlen_s(str, IF fmt.precision # 0 THEN fmt.precision ELSE SIZE_MAX)
           used == IF "PRECISION" \in fmt.flags THEN Min({l, fmt.precision}) ELSE l
           text == SubSeq(str, 1, used)
           pad  == Padding(used, fmt.width)
       IN fmt' = [Out(IF "LEFT" \in fmt.flags THEN text \o pad ELSE pad \o text) EXCEPT !.va = Tail(@)]

Pointer ==
    /\ At("specifier") /\ Here({"p"})
    /\ LET flags == fmt.flags \cup {"ZEROPAD", "UPPERCASE"}
           value == Unsigned(Arg.word, LONG_BITS)
           width == LONG_BITS \div 4
           text  == _ntoa_long(value, FALSE, 16, fmt.precision, width, flags)
       IN fmt' = [Out(text) EXCEPT !.va = Tail(@), !.flags = flags, !.width = width,
                                   !.number = [value |-> value, base |-> 16, text |-> text]]

(* %% and characters that are no conversion; the terminator is one, and    *)
(* the format pointer moves past it.                                       *)
Specifiers == {"d", "i", "u", "x", "X", "o", "b", "c", "s", "p"}
Other == At("specifier") /\ ~Here(Specifiers) /\ fmt' = Out(<<Char>>)

TerminatorIndex(idx) == IF idx < Maxlen THEN idx ELSE (Maxlen - 1) % (SIZE_MAX + 1)
Terminate ==
    /\ At("loop") /\ fmt.pos = Len(fmt.format) + 1
    /\ fmt' = [fmt EXCEPT !.at = "done", !.ret = ToSigned(Len(fmt.text), INT_BITS),
                   !.buffer = out(@, <<Zero>>, TerminatorIndex(Len(fmt.text)))]

_vsnprintf == Literal \/ Directive \/ Flags \/ Width \/ WidthDigits \/ Precision \/ PrecisionDigits
              \/ Length \/ Integer \/ Character \/ String \/ Pointer \/ Other \/ Terminate

-----------------------------------------------------------------------------
(* What vga_printf prints for the same format and arguments: the text of   *)
(* one directive and how many characters and arguments it takes.           *)
VgaDigits(value, base) ==
    LET digits[v \in Nat] ==
            (IF v \div base # 0 THEN digits[v \div base] ELSE <<>>) \o <<HexDigit(v % base, FALSE)>>
    IN digits[value]
(* -v of the least int is negative again, and so are its digits. *)
VgaSigned(word, bits) ==
    LET v == ToSigned(word, bits) IN
    CASE v >= 0 -> VgaDigits(v, 10)
      [] v < 0 /\ v # -(2 ^ (bits - 1)) -> <<"-">> \o VgaDigits(-v, 10)
      [] OTHER -> <<"-", Junk>>
VgaNumber_Int(c, word, bits) ==             \* mutation: %l reads an int
    IF c = "d" THEN VgaSigned(word, INT_BITS) ELSE VgaDigits(Unsigned(word, INT_BITS), IF c = "x" THEN 16 ELSE 10)
VgaNumber(c, word, bits) ==
    IF c = "d" THEN VgaSigned(word, bits) ELSE VgaDigits(Unsigned(word, bits), IF c = "x" THEN 16 ELSE 10)
(* Half of the digits of a pointer. *)
VgaPointer(word) ==
    <<"0", "x">> \o [i \in 1 .. LONG_BITS \div 8 |-> HexDigit((word \div 16 ^ (LONG_BITS \div 8 - i)) % 16, FALSE)]

VgaDirective(c, after, arg) ==
    CASE c \in {"d", "u", "x"} -> [text |-> VgaNumber(c, arg.word, INT_BITS), chars |-> 1, args |-> 1]
      [] c = "p" -> [text |-> VgaPointer(arg.word), chars |-> 1, args |-> 1]
      [] c = "l" -> IF after \in {"d", "u", "x"}
                    THEN [text |-> VgaNumber(after, arg.word, LONG_BITS), chars |-> 2, args |-> 1]
                    ELSE [text |-> <<>>, chars |-> 2, args |-> 0]
      [] c = "c" -> [text |-> <<arg.char>>, chars |-> 1, args |-> 1]
      [] c = "s" -> [text |-> arg.str, chars |-> 1, args |-> 1]
      [] OTHER   -> [text |-> <<"%", c>>, chars |-> 1, args |-> 0]

vga_printf(format, va) ==
    LET CharAt(p) == IF p <= Len(format) THEN format[p] ELSE Zero
        run[p \in Nat, a \in Nat] ==
            IF p > Len(format) THEN <<>>
            ELSE IF format[p] # "%" THEN <<format[p]>> \o run[p + 1, a]
            ELSE LET d == VgaDirective(CharAt(p + 1), CharAt(p + 2), va[a]) IN
                 d.text \o run[p + 1 + d.chars, a + d.args]
    IN run[1, 1]

-----------------------------------------------------------------------------
Labels == {"none", "loop", "flags", "width", "width_digits", "precision",
           "precision_digits", "length", "specifier", "done"}

(* The buffer holds as much of the text as fits and ends with a zero,      *)
(* nothing is written behind its size or without a buffer, and the answer  *)
(* tells how long the whole text is, cut or not (stdio.h:33-41,            *)
(* vsprintf.c:921), as long as an int can: of a longer text the code       *)
(* answers the length modulo 2^32 (vsprintf.c:924), which says nothing of  *)
(* what was written.  A text has as many characters as a size_t counts.    *)
FormatTruncates ==
    At("done") /\ Len(fmt.text) <= SIZE_MAX =>
        LET len == Len(fmt.text)
            end == IF len < Maxlen THEN len ELSE Maxlen - 1
        IN /\ len < 2 ^ (INT_BITS - 1) => fmt.ret = len
           /\ \A i \in DOMAIN fmt.buffer :
                  fmt.buffer[i] = CASE fmt.call.null \/ i > end -> Junk
                                    [] ~fmt.call.null /\ i = end -> Zero
                                    [] OTHER -> fmt.text[i + 1]

(* The number a reader sees in a field. *)
NumberIn(text, base) ==
    LET trimmed == SelectSeq(text, LAMBDA c : c \notin {" ", "+", "-", "x", "X"})
        digits  == IF base = 2 THEN SelectSeq(trimmed, LAMBDA c : c # "b") ELSE trimmed
        Of(c)   == CHOOSE d \in 0 .. 15 : c \in {HexDigit(d, TRUE), HexDigit(d, FALSE)}
        size[n \in Nat] == IF n = 0 THEN 0 ELSE size[n - 1] * base + Of(digits[n])
    IN IF "-" \in Range(text) THEN -size[Len(digits)] ELSE size[Len(digits)]
Abs(n) == IF n < 0 THEN -n ELSE n
DigitCount(n, base) == CHOOSE d \in 1 .. LONG_BITS + 1 : Abs(n) < base ^ d /\ (d = 1 \/ Abs(n) >= base ^ (d - 1))

(* A number fills its width, however sign, prefix, precision and zeros     *)
(* share it, while the conversion buffer can hold the zeros                *)
(* (vsprintf.c:151, vsprintf.c:179-189).                                   *)
FieldFilled ==
    \/ Len(fmt.number.text) >= fmt.width
    \/ "ZEROPAD" \in fmt.flags /\ fmt.width > PRINTF_NTOA_BUFFER_SIZE

(* The digits printed are those of the argument, converted to the type the *)
(* length says, the least int included, in every combination of flags,     *)
(* width and precision, while the number and its sign fit the conversion   *)
(* buffer and # does not find the number as long as the width; and the     *)
(* number fills its field (vsprintf.c:183-199, vsprintf.c:253,             *)
(* vsprintf.c:776).                                                        *)
NumberReadsBack ==
    At("loop") /\ fmt.number # NoNumber =>
        /\ FieldFilled
        /\ LET number == fmt.number
               count  == DigitCount(number.value, number.base)
           IN \/ number.value = NumberIn(number.text, number.base)
              \/ count > PRINTF_NTOA_BUFFER_SIZE
              \/ /\ number.value < 0
                 /\ \/ fmt.precision >= PRINTF_NTOA_BUFFER_SIZE
                    \/ "ZEROPAD" \in fmt.flags /\ fmt.width > PRINTF_NTOA_BUFFER_SIZE
              \/ /\ "HASH" \in fmt.flags /\ "PRECISION" \notin fmt.flags
                 /\ fmt.width - count \in 0 .. 1

(* The format pointer passes the terminator only when the format ends      *)
(* inside a directive (vsprintf.c:913-915).                                *)
Modifiers == Range(Digits) \cup {"-", "+", " ", "#", "*", ".", "l", "h", "t", "j", "z"}
MayStart(format, i) ==      \* a % behind another one starts a directive only if that one ended one
    \/ i = 1 \/ format[i - 1] # "%"
    \/ \E j \in 1 .. i - 2 : format[j] = "%" /\ \A m \in j + 1 .. i - 2 : format[m] \in Modifiers
EndsInDirective(format) ==
    \E i \in DOMAIN format : /\ format[i] = "%" /\ MayStart(format, i)
                             /\ \A j \in i + 1 .. Len(format) : format[j] \in Modifiers
FormatInside == At("none") \/ fmt.pos <= Len(fmt.format) + 1 \/ EndsInDirective(fmt.format)

(* The formats both formatters understand, and arguments they can print. *)
Shared(format) ==
    \A i \in DOMAIN format : format[i] = "%" =>
        LET rest == SubSeq(format, i + 1, Len(format)) IN
        rest # <<>> /\ (rest[1] \in {"d", "u", "x", "c", "s"}
                        \/ (Len(rest) > 1 /\ rest[1] = "l" /\ rest[2] \in {"d", "u", "x"}))
PrintsLeast(format, va) ==
    LET starts == SetToSortSeq({i \in DOMAIN format : format[i] = "%"}, LAMBDA a, b : a < b) IN
    \E k \in DOMAIN starts : LET i == starts[k] IN
        \/ format[i + 1] = "d" /\ va[k].word % 2 ^ INT_BITS = 2 ^ (INT_BITS - 1)
        \/ format[i + 1] = "l" /\ format[i + 2] = "d" /\ va[k].word = 2 ^ (LONG_BITS - 1)

(* A message reads the same whether it is printed before or after the TUI  *)
(* is up: on the directives both know, vga_printf prints what _vsnprintf   *)
(* formats, but for the least int (vgaprint.cpp:85).                       *)
VgaAgrees ==
    At("done") /\ Shared(fmt.format) /\ ~PrintsLeast(fmt.format, fmt.call.va)
        => vga_printf(fmt.format, fmt.call.va) = fmt.text

(* A variant of the loops: the characters left, then the part of the       *)
(* directive the call is at.                                               *)
Stage == [loop |-> 8, flags |-> 7, width |-> 6, width_digits |-> 5, precision |-> 4,
          precision_digits |-> 3, length |-> 2, specifier |-> 1, done |-> 0][fmt.at]
Variant == 9 * (Len(fmt.format) + 2 - fmt.pos) + Stage

(* Every call comes to an end: each step moves the format pointer on or    *)
(* goes to a later part of the directive, there is no other way back to    *)
(* the outer loop, and the pointer passes the terminator only when the     *)
(* format ends inside a directive (vsprintf.c:591, 606, 913-915).          *)
LoopsEnd == [][(fmt.at # "none" => Variant' < Variant /\ Variant' >= 0) /\ FormatInside']_fmt
=============================================================================
