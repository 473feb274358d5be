--------------------------- MODULE Runtime_proofs ---------------------------
(***************************************************************************)
(* Proofs about the libraries the kernel is linked with (module Runtime):  *)
(* the guards of static objects and the table of destructors (module       *)
(* CxxAbi), for every set of statics and every size of the table;          *)
(* _vsnprintf (module Format), for every format; and the functions of      *)
(* string.c (module CString), for every memory and longword.               *)
(*                                                                         *)
(* The guard is not a lock: two threads inside get_instance of the same    *)
(* static would both construct it.  What saves the kernel is that          *)
(* interrupts come on only when every static that a handler gets has its   *)
(* guard (TIMER::init calls INTERRUPTS::get_instance before its sti), so a *)
(* handler is never seen inside a get_instance.  GuardInv says so.         *)
(***************************************************************************)
EXTENDS Runtime, FiniteSetTheorems, Recursion_proofs

Stages == [step : {"out", "construct", "release"}, s : Statics \cup {"none"}]

GuardInv ==
    /\ guard \in [Statics -> BOOLEAN] /\ built \in [Statics -> {0, 1}]
    /\ at \in [kernel : Stages, handler : Stages, sti : BOOLEAN]
    /\ at.handler = Outside
    /\ at.sti => \A s \in HandlerStatics : guard[s]
    /\ at.kernel.step # "out" => at.kernel.s \in Statics /\ ~guard[at.kernel.s]
    /\ \A s \in Statics :
          built[s] = IF guard[s] \/ (at.kernel.step = "release" /\ at.kernel.s = s) THEN 1 ELSE 0

-----------------------------------------------------------------------------
LEMMA GuardInitially == Init => GuardInv
  <1> SUFFICES ASSUME Init PROVE GuardInv OBVIOUS
  <1>1. Outside \in Stages /\ Outside.step = "out" BY DEF Outside, Stages
  <1>2. /\ guard = [s \in Statics |-> FALSE] /\ built = [s \in Statics |-> 0]
        /\ at = [kernel |-> Outside, handler |-> Outside, sti |-> FALSE]
    BY DEF Init, CxxInit
  <1> HIDE DEF Outside
  <1> QED BY <1>1, <1>2 DEF GuardInv

(* Nothing but get_instance and TIMER::init touches the guards. *)
LEMMA OthersLeaveGuards ==
    ASSUME UseStrings \/ UseFormat \/ Formatting \/ UseTable \/ UNCHANGED vars
    PROVE  UNCHANGED guard_vars
  <1>1. CASE UseTable
    <2>1. TableStep BY <1>1 DEF UseTable
    <2> QED BY <2>1 DEF TableStep, FinalizeEntry, DestructorReturns, FinalizeReturn, __cxa_finalize, __aeabi_atexit
  <1>2. CASE UseStrings \/ UseFormat \/ Formatting \/ UNCHANGED vars
    BY <1>2 DEF UseStrings, UseFormat, Formatting, vars, cxx_vars, guard_vars
  <1> QED BY <1>1, <1>2

LEMMA GuardGoesOn == GuardInv /\ [Next]_vars => GuardInv'
  <1> SUFFICES ASSUME GuardInv, [Next]_vars PROVE GuardInv' OBVIOUS
  <1>1. CASE UNCHANGED guard_vars BY <1>1 DEF GuardInv, guard_vars
  <1>2. Outside \in Stages /\ Outside.step = "out" BY DEF Outside, Stages
  <1>3. CASE TurnOn BY <1>3 DEF TurnOn, GuardInv
  <1>4. CASE Construct("kernel")
    <2>1. /\ at.kernel.step = "construct" /\ at' = [at EXCEPT !["kernel"].step = "release"]
          /\ built' = [built EXCEPT ![at.kernel.s] = @ + 1] /\ guard' = guard
      BY <1>4 DEF Construct
    <2>2. at.kernel.s \in Statics /\ ~guard[at.kernel.s] /\ built[at.kernel.s] = 0 BY <2>1 DEF GuardInv
    <2>3. built' = [built EXCEPT ![at.kernel.s] = 1] BY <2>1, <2>2
    <2>4. /\ at' \in [kernel : Stages, handler : Stages, sti : BOOLEAN] /\ at'.handler = at.handler
          /\ at'.sti = at.sti /\ at'.kernel.step = "release" /\ at'.kernel.s = at.kernel.s
      BY <2>1 DEF GuardInv, Stages
    <2> QED BY <2>1, <2>2, <2>3, <2>4 DEF GuardInv
  <1>5. CASE __cxa_guard_release("kernel")
    <2>1. /\ at.kernel.step = "release" /\ at' = [at EXCEPT !["kernel"] = Outside]
          /\ guard' = [guard EXCEPT ![at.kernel.s] = TRUE] /\ built' = built
      BY <1>5 DEF __cxa_guard_release
    <2>2. at.kernel.s \in Statics /\ built[at.kernel.s] = 1 BY <2>1 DEF GuardInv
    <2>3. /\ at' \in [kernel : Stages, handler : Stages, sti : BOOLEAN] /\ at'.handler = at.handler
          /\ at'.sti = at.sti /\ at'.kernel = Outside
      BY <1>2, <2>1 DEF GuardInv
    <2> QED BY <1>2, <2>1, <2>2, <2>3, CxxAbiAssumption DEF GuardInv
  <1>6. ASSUME NEW s \in Statics, GetInstance("kernel", s) PROVE GuardInv'
    <2>1. /\ at.kernel = Outside /\ UNCHANGED <<guard, built>>
          /\ at' = [at EXCEPT !["kernel"] = [step |-> IF ~guard[s] THEN "construct" ELSE "out",
                                             s |-> IF ~guard[s] THEN s ELSE "none"]]
      BY <1>6 DEF GetInstance, __cxa_guard_acquire
    <2>2. /\ at' \in [kernel : Stages, handler : Stages, sti : BOOLEAN] /\ at'.handler = at.handler
          /\ at'.sti = at.sti /\ at'.kernel.step = (IF ~guard[s] THEN "construct" ELSE "out")
          /\ at'.kernel.s = (IF ~guard[s] THEN s ELSE "none")
      BY <2>1 DEF GuardInv, Stages
    <2> QED BY <1>2, <2>1, <2>2 DEF GuardInv
  (* A handler finds every guard it asks for. *)
  <1>7. ASSUME NEW s \in Statics, GetInstance("handler", s) PROVE GuardInv'
    <2>1. at.sti /\ s \in HandlerStatics /\ guard[s] BY <1>7 DEF GetInstance, GuardInv
    <2>2. at' = [at EXCEPT !["handler"] = [step |-> "out", s |-> "none"]] /\ UNCHANGED <<guard, built>>
      BY <1>7, <2>1 DEF GetInstance, __cxa_guard_acquire
    <2>3. at' = at BY <2>2 DEF GuardInv, Outside
    <2> QED BY <2>2, <2>3 DEF GuardInv
  <1>8. ~Construct("handler") /\ ~__cxa_guard_release("handler")
    BY <1>2 DEF Construct, __cxa_guard_release, GuardInv
  <1>9. CASE UseStatics
    <2>1. GuardStep BY <1>9 DEF UseStatics
    <2> QED BY <1>3, <1>4, <1>5, <1>6, <1>7, <1>8, <2>1 DEF GuardStep
  <1> QED BY <1>1, <1>9, OthersLeaveGuards DEF Next

(* A static is constructed once, however kernel_main and the handlers that *)
(* interrupt it get it, and nobody gets it unfinished (cxxabi.cpp:222,     *)
(* cxxabi.cpp:226, timer.cpp:46-50).                                       *)
THEOREM StaticsBuiltOnce == Spec => []BuiltOnce
  <1>1. Init => GuardInv BY GuardInitially
  <1>2. GuardInv /\ [Next]_vars => GuardInv' BY GuardGoesOn
  <1>3. GuardInv => BuiltOnce
    <2> SUFFICES ASSUME GuardInv, NEW s \in Statics
                 PROVE  built[s] <= 1 /\ (guard[s] => built[s] = 1)
      BY DEF BuiltOnce
    <2>1. built[s] = 0 \/ built[s] = 1 BY DEF GuardInv
    <2> QED BY <2>1 DEF GuardInv
  <1> QED BY <1>1, <1>2, <1>3, PTL DEF Spec

-----------------------------------------------------------------------------
(***************************************************************************)
(* _vsnprintf, for every format, every argument and every size of the      *)
(* buffer.  The invariant has three parts: the locals; the format pointer, *)
(* which inside a directive has passed only modifiers since the %; and the *)
(* buffer, which holds what fits of the text put out so far.  A step moves *)
(* past modifiers (Moves) or puts out a text (Puts).                       *)
(*                                                                         *)
(* Texts are sequences of whatever the conversions put into them: which    *)
(* digits a number has plays no part in where they are written.            *)
(***************************************************************************)
IsText(t) == t \in Seq(Range(t))

LEMMA TextOf ==
    ASSUME NEW S, NEW t \in Seq(S)
    PROVE  IsText(t)
  BY DEF IsText, Range

LEMMA Concatenation ==
    ASSUME NEW s, NEW t, IsText(s), IsText(t)
    PROVE  /\ IsText(s \o t) /\ Len(s \o t) = Len(s) + Len(t)
           /\ \A n \in 1 .. Len(s) : (s \o t)[n] = s[n]
           /\ \A n \in 1 .. Len(t) : (s \o t)[Len(s) + n] = t[n]
  <1> DEFINE R == Range(s) \cup Range(t)
  <1>1. s \in Seq(R) /\ t \in Seq(R)
    BY DEF IsText
  <1> HIDE DEF R
  <1>2. s \o t \in Seq(R) BY <1>1
  <1>3. IsText(s \o t) BY <1>2, TextOf
  <1> QED BY <1>1, <1>3

LEMMA Constant ==
    ASSUME NEW c, NEW n \in Nat
    PROVE  IsText(Repeat(c, n)) /\ Len(Repeat(c, n)) = n
  <1>1. Repeat(c, n) \in Seq({c}) /\ Len(Repeat(c, n)) = n BY DEF Repeat
  <1> QED BY <1>1, TextOf

LEMMA Single ==
    ASSUME NEW c
    PROVE  IsText(<<c>>) /\ Len(<<c>>) = 1 /\ <<c>>[1] = c
  <1>1. <<c>> \in Seq({c}) OBVIOUS
  <1> QED BY <1>1, TextOf

LEMMA Appended ==
    ASSUME NEW t, NEW c, IsText(t)
    PROVE  IsText(Append(t, c)) /\ Len(Append(t, c)) = Len(t) + 1
  <1> DEFINE R == Range(t) \cup {c}
  <1>1. t \in Seq(R) BY DEF IsText
  <1> HIDE DEF R
  <1>2. c \in R BY DEF R
  <1>3. Append(t, c) \in Seq(R) /\ Len(Append(t, c)) = Len(t) + 1 BY <1>1, <1>2
  <1> QED BY <1>3, TextOf

LEMMA Prefix ==
    ASSUME NEW t, IsText(t), NEW n \in 0 .. Len(t)
    PROVE  IsText(SubSeq(t, 1, n)) /\ Len(SubSeq(t, 1, n)) = n
  <1>1. t \in Seq(Range(t)) BY DEF IsText
  <1>2. SubSeq(t, 1, n) \in Seq(Range(t)) /\ Len(SubSeq(t, 1, n)) = n BY <1>1
  <1> QED BY <1>2, TextOf

LEMMA Reversed ==
    ASSUME NEW t, IsText(t)
    PROVE  IsText(Reverse(t)) /\ Len(Reverse(t)) = Len(t)
  <1> DEFINE R == Range(t)
  <1>1. t \in Seq(R) BY DEF IsText
  <1> HIDE DEF R
  <1>2. Reverse(t) \in Seq(R) /\ Len(Reverse(t)) = Len(t) BY <1>1 DEF Reverse
  <1> QED BY <1>2, TextOf

LEMMA LengthIsNat ==
    ASSUME NEW t, IsText(t)
    PROVE  Len(t) \in Nat
  BY DEF IsText

LEMMA PaddingIsText ==
    ASSUME NEW len \in Nat, NEW width \in Nat
    PROVE  IsText(Padding(len, width))
  <1>1. (IF len < width THEN width - len ELSE 0) \in Nat OBVIOUS
  <1> QED BY <1>1, Constant DEF Padding

LEMMA MinOfTwo ==
    ASSUME NEW a \in Nat, NEW b \in Nat
    PROVE  Min({a, b}) \in {a, b} /\ Min({a, b}) <= a /\ Min({a, b}) <= b
  <1>1. \E x \in {a, b} : \A y \in {a, b} : x <= y
    <2>1. CASE a <= b BY <2>1
    <2>2. CASE b <= a BY <2>2
    <2> QED BY <2>1, <2>2
  <1> QED BY <1>1 DEF Min

-----------------------------------------------------------------------------
(* The text of a number. *)
LEMMA ZerosIsText ==
    ASSUME NEW t, IsText(t), NEW len \in Nat
    PROVE  IsText(Zeros(t, len))
  <1> DEFINE to == Min({len, PRINTF_NTOA_BUFFER_SIZE})
             n == IF to > Len(t) THEN to - Len(t) ELSE 0
  <1>1. to \in Nat BY MinOfTwo, FormatAssumption
  <1>2. Len(t) \in Nat BY LengthIsNat
  <1>3. n \in Nat
    <2> HIDE DEF to
    <2> QED BY <1>1, <1>2
  <1> HIDE DEF n
  <1>4. IsText(Repeat("0", n)) BY <1>3, Constant
  <1>5. IsText(t \o Repeat("0", n)) BY <1>4, Concatenation
  <1> QED BY <1>5 DEF Zeros, n

LEMMA PutIsText ==
    ASSUME NEW t, IsText(t), NEW c
    PROVE  IsText(Put(t, c))
  BY Appended DEF Put

LEMMA HashedIsText ==
    ASSUME NEW t, IsText(t), NEW base, NEW prec, NEW width, NEW flags
    PROVE  IsText(Hashed(t, base, prec, width, flags))
  <1> DEFINE overlaps == "PRECISION" \notin flags /\ t # <<>> /\ Len(t) \in {prec, width}
             n == Len(t) - (IF ~overlaps THEN 0 ELSE IF base = 16 /\ Len(t) > 1 THEN 2 ELSE 1)
             rest == SubSeq(t, 1, n)
             letter == CASE base = 16 -> <<IF "UPPERCASE" \in flags THEN "X" ELSE "x">>
                         [] base = 2 -> <<"b">> [] OTHER -> <<>>
  <1>1. Len(t) \in Nat /\ (t # <<>> => Len(t) > 0) BY DEF IsText
  <1>2. n \in 0 .. Len(t)
    <2>1. CASE ~overlaps BY <1>1, <2>1
    <2>2. CASE overlaps BY <1>1, <2>2
    <2> QED BY <2>1, <2>2
  <1> HIDE DEF n
  <1>3. IsText(rest) BY <1>2, Prefix
  <1> HIDE DEF rest, letter
  <1>4. IsText(Put(IF letter = <<>> THEN rest ELSE Put(rest, letter[1]), "0")) BY <1>3, PutIsText
  <1> QED BY <1>4 DEF Hashed, rest, letter, n, overlaps

LEMMA NumberIsText ==
    ASSUME NEW buf, IsText(buf), NEW negative, NEW base, NEW prec \in Nat, NEW width \in Nat, NEW flags
    PROVE  IsText(_ntoa_format(buf, negative, base, prec, width, flags))
  <1> DEFINE w == ZeroWidth(width, negative, flags)
             padded == CASE "LEFT" \in flags -> buf
                         [] "LEFT" \notin flags /\ "ZEROPAD" \in flags -> Zeros(Zeros(buf, prec), w)
                         [] OTHER -> Zeros(buf, prec)
             hashed == Hashed(padded, base, prec, w, flags)
             signed == CASE negative -> Put(hashed, "-")
                         [] ~negative /\ "PLUS" \in flags -> Put(hashed, "+")
                         [] ~negative /\ "PLUS" \notin flags /\ "SPACE" \in flags -> Put(hashed, " ")
                         [] OTHER -> hashed
  <1>1. w \in Nat BY DEF ZeroWidth
  <1> HIDE DEF w
  <1>2. IsText(padded)
    <2>1. IsText(Zeros(buf, prec)) BY ZerosIsText
    <2>2. IsText(Zeros(Zeros(buf, prec), w)) BY <2>1, <1>1, ZerosIsText
    <2> QED BY <2>1, <2>2
  <1> HIDE DEF padded
  <1>3. IsText(hashed) BY <1>2, HashedIsText
  <1> HIDE DEF hashed
  <1>4. IsText(signed)
    <2>1. \A c : IsText(Put(hashed, c)) BY <1>3, PutIsText
    <2> QED BY <2>1, <1>3
  <1> HIDE DEF signed
  <1>5. IsText(Reverse(signed)) /\ Len(signed) \in Nat BY <1>4, Reversed, LengthIsNat
  <1>6. IsText(Padding(Len(signed), w)) BY <1>1, <1>5, PaddingIsText
  <1>7. IsText(_out_rev(signed, w, flags)) BY <1>5, <1>6, Concatenation DEF _out_rev
  <1> QED BY <1>7 DEF _ntoa_format, w, padded, hashed, signed

LEMMA DigitsAreText ==
    ASSUME NEW value, NEW negative, NEW base, NEW prec \in Nat, NEW width \in Nat, NEW flags
    PROVE  IsText(_ntoa_long(value, negative, base, prec, width, flags))
  <1> DEFINE N == PRINTF_NTOA_BUFFER_SIZE
             T == {n \in 1 .. N : ~MoreDigits(Left(value, base, n), base, n - 1)}
             k == Rounds(value, base)
             Of(n) == HexDigit(Left(value, base, n) % base, "UPPERCASE" \in flags)
             digits == [n \in 1 .. k |-> Of(n)]
             buf == IF "PRECISION" \notin flags \/ value # 0 THEN digits ELSE <<>>
  <1>1. N \in Nat /\ N > 0 BY FormatAssumption
  <1>2. N \in T BY <1>1 DEF MoreDigits
  <1>3. T \in SUBSET Nat BY <1>1
  <1>4. Min(T) \in T BY <1>2, <1>3, MinOfSome
  <1>5. k \in Nat BY <1>3, <1>4 DEF Rounds
  <1> HIDE DEF k, Of
  <1>6. digits \in Seq({Of(n) : n \in 1 .. k}) BY <1>5
  <1>7. IsText(digits) BY <1>6, TextOf
  <1>8. <<>> \in Seq({}) OBVIOUS
  <1>9. IsText(buf) BY <1>7, <1>8, TextOf
  <1> HIDE DEF buf
  <1>10. IsText(_ntoa_format(buf, negative, base, prec, width, IF value = 0 THEN flags \ {"HASH"} ELSE flags))
    BY <1>9, NumberIsText
  <1> QED BY <1>10, Zenon DEF _ntoa_long, buf, digits, Of, k

-----------------------------------------------------------------------------
(* The inductive invariant: the locals; where the format pointer can be;   *)
(* and what the buffer holds.                                              *)
Parts == {"flags", "width", "width_digits", "precision", "precision_digits", "length", "specifier"}
Fields == {"call", "format", "va", "at", "pos", "flags", "width", "precision", "text", "number",
           "buffer", "ret"}

(* What an unsigned int holds. *)
UInts == 0 .. 2 ^ INT_BITS - 1

LocalsInv ==
    /\ DOMAIN fmt = Fields
    /\ fmt.call \in FormatCalls /\ fmt.format = FormatOf(fmt.call)
    /\ fmt.at \in Parts \cup {"loop", "done"}
    /\ fmt.pos \in Nat \ {0}
    /\ fmt.va \in Seq(Args) /\ Len(fmt.va) >= Len(fmt.format) + 1 - fmt.pos
    /\ fmt.width \in UInts /\ fmt.precision \in UInts
    /\ IsText(fmt.text)
    /\ DOMAIN fmt.buffer = 0 .. BufBytes - 1

(* Inside a directive, all since its % are modifiers. *)
PointerInv ==
    /\ fmt.at \in Parts =>
          /\ fmt.pos <= Len(fmt.format) + 1
          /\ \E i \in 1 .. fmt.pos - 1 :
                /\ fmt.format[i] = "%" /\ MayStart(fmt.format, i)
                /\ \A j \in i + 1 .. fmt.pos - 1 : fmt.format[j] \in Modifiers
    /\ fmt.at = "loop" =>
          \/ fmt.pos <= Len(fmt.format) + 1 /\ MayStart(fmt.format, fmt.pos)
          \/ fmt.pos = Len(fmt.format) + 2 /\ EndsInDirective(fmt.format)
    /\ fmt.at = "done" => fmt.pos = Len(fmt.format) + 1

OutputInv ==
    /\ fmt.at # "done" =>
          \A x \in 0 .. BufBytes - 1 :
             fmt.buffer[x] = IF fmt.call.null \/ x >= Len(fmt.text) \/ x >= Maxlen
                             THEN Junk ELSE fmt.text[x + 1]
    /\ FormatTruncates

FormatInv == fmt = NoFormat \/ (LocalsInv /\ PointerInv /\ OutputInv)

(* What a call is given. *)
LEMMA CallsAre ==
    ASSUME NEW c \in FormatCalls
    PROVE  /\ c.null \in BOOLEAN /\ _maxlen(c) \in 0 .. SIZE_MAX /\ IsText(FormatOf(c))
           /\ c.va \in Seq(Args) /\ Len(c.va) >= Len(FormatOf(c)) /\ Len(FormatOf(c)) \in Nat
  <1>1. /\ c.null \in BOOLEAN /\ c.count \in 0 .. SIZE_MAX /\ c.format \in Seq(STRING)
        /\ c.va \in Seq(Args) /\ Len(c.va) >= Len(FormatOf(c)) /\ SIZE_MAX \in Nat
    BY FormatAssumption
  <1>2. _maxlen(c) \in 0 .. SIZE_MAX BY <1>1 DEF _maxlen
  <1>3. IsText(TestFormat)
    <2>1. TestFormat \in Seq({"T", "E", "S", ":", "%", "d", "NL"}) BY DEF TestFormat
    <2> QED BY <2>1, TextOf
  <1>4. IsText(FormatOf(c)) BY <1>1, <1>3, TextOf DEF FormatOf
  <1> QED BY <1>1, <1>2, <1>4, LengthIsNat

LEMMA FormatInitially == Init => FormatInv
  BY DEF Init, FormatInit, FormatInv

LEMMA CallEnters ==
    ASSUME FormatCall
    PROVE  FormatInv' /\ FormatInside'
  <1>1. PICK c \in FormatCalls : fmt' = Entered(c, FormatOf(c)) BY DEF FormatCall
  <1>2. /\ DOMAIN fmt' = Fields /\ fmt'.call = c /\ fmt'.format = FormatOf(c) /\ fmt'.va = c.va
        /\ fmt'.at = "loop" /\ fmt'.pos = 1 /\ fmt'.width = 0 /\ fmt'.precision = 0 /\ fmt'.text = <<>>
        /\ fmt'.buffer = [x \in 0 .. BufBytes - 1 |-> Junk]
    BY <1>1 DEF Entered, Fields
  <1>3. /\ c.va \in Seq(Args) /\ Len(c.va) >= Len(FormatOf(c)) /\ Len(FormatOf(c)) \in Nat BY CallsAre
  <1>4. IsText(<<>>)
    <2>1. <<>> \in Seq({}) OBVIOUS
    <2> QED BY <2>1, TextOf
  <1>0. 0 \in UInts
    <2>1. 2 ^ INT_BITS \in Nat \ {0} BY FormatAssumption
    <2> QED BY <2>1 DEF UInts
  <1>5. LocalsInv' BY <1>0, <1>2, <1>3, <1>4 DEF LocalsInv
  <1>6. PointerInv' BY <1>2, <1>3 DEF PointerInv, Parts, MayStart
  <1>7. OutputInv' BY <1>2 DEF OutputInv, FormatTruncates, At
  <1>8. FormatInside' BY <1>2, <1>3 DEF FormatInside, At
  <1> QED BY <1>5, <1>6, <1>7, <1>8 DEF FormatInv

-----------------------------------------------------------------------------
(* The character at the format pointer. *)
LEMMA CharInside ==
    ASSUME LocalsInv, Char # Zero
    PROVE  /\ fmt.pos \in 1 .. Len(fmt.format) /\ fmt.format[fmt.pos] = Char
           /\ Len(fmt.format) \in Nat /\ Len(fmt.va) >= 1
  <1>1. Len(fmt.format) \in Nat BY CallsAre DEF LocalsInv
  <1>2. fmt.pos <= Len(fmt.format) /\ fmt.format[fmt.pos] = Char BY DEF Char
  <1> QED BY <1>1, <1>2 DEF LocalsInv

LEMMA DigitIsDigit ==
    ASSUME NEW c, _is_digit(c)
    PROVE  c # Zero /\ c # "%" /\ c \in Modifiers /\ ValueOf(c) \in 0 .. 9
  <1>1. c \in {"0", "1", "2", "3", "4", "5", "6", "7", "8", "9"} BY DEF _is_digit, Range, Digits
  <1>2. \E d \in 0 .. 9 : Digits[d + 1] = c
    <2>1. PICK n \in DOMAIN Digits : Digits[n] = c BY DEF _is_digit, Range
    <2>2. n \in 1 .. 10 BY <2>1 DEF Digits
    <2>3. n - 1 \in 0 .. 9 /\ Digits[(n - 1) + 1] = c BY <2>1, <2>2
    <2> QED BY <2>3
  <1>3. ValueOf(c) \in 0 .. 9 BY <1>2 DEF ValueOf
  <1> QED BY <1>1, <1>3 DEF _is_digit, Modifiers, Zero

LEMMA UnsignedInt ==
    ASSUME NEW n \in Int
    PROVE  /\ Unsigned(n, INT_BITS) \in UInts
           /\ ToSigned(n, INT_BITS) \in Int /\ ToSigned(n, INT_BITS) < 2 ^ INT_BITS
  <1> DEFINE m == 2 ^ INT_BITS
  <1>1. m \in Nat /\ m > 0 BY FormatAssumption
  <1>2. ToSigned(n, INT_BITS) = (n % m) - m \/ ToSigned(n, INT_BITS) = n % m BY DEF ToSigned, Unsigned
  <1>3. Unsigned(n, INT_BITS) = n % m /\ UInts = 0 .. m - 1 BY DEF Unsigned, UInts
  <1> HIDE DEF m
  <1>4. n % m \in 0 .. m - 1 BY <1>1
  <1>5. ToSigned(n, INT_BITS) \in Int /\ ToSigned(n, INT_BITS) < m BY <1>1, <1>2, <1>4
  <1> QED BY <1>3, <1>4, <1>5 DEF m

(* What an int holds is converted to itself. *)
LEMMA AsSigned == \A n \in Nat : n < 2 ^ (INT_BITS - 1) => ToSigned(n, INT_BITS) = n
  <1> SUFFICES ASSUME NEW n \in Nat, n < 2 ^ (INT_BITS - 1) PROVE ToSigned(n, INT_BITS) = n OBVIOUS
  <1> DEFINE m == 2 ^ INT_BITS  h == 2 ^ (INT_BITS - 1)
  <1>1. m \in Nat /\ h \in Nat /\ h > 0 /\ m = 2 * h BY FormatAssumption
  <1>2. ToSigned(n, INT_BITS) = IF n % m >= h THEN (n % m) - m ELSE n % m BY DEF ToSigned, Unsigned
  <1> HIDE DEF m, h
  <1>3. n < h BY DEF h
  <1>4. n % m = n BY <1>1, <1>3
  <1> QED BY <1>1, <1>2, <1>3, <1>4

LEMMA UIntsAre ==
    /\ 0 \in UInts /\ UInts \subseteq Nat
    /\ \A n \in Nat : n < 2 ^ INT_BITS => n \in UInts
    /\ LocalsInv => fmt.width \in Nat /\ fmt.precision \in Nat
  <1> DEFINE m == 2 ^ INT_BITS
  <1>1. m \in Nat /\ m > 0 BY FormatAssumption
  <1>2. UInts = 0 .. m - 1 BY DEF UInts
  <1> HIDE DEF m
  <1>3. 0 \in UInts /\ UInts \subseteq Nat /\ (\A n \in Nat : n < m => n \in UInts) BY <1>1, <1>2
  <1>4. LocalsInv => fmt.width \in Nat /\ fmt.precision \in Nat BY <1>3 DEF LocalsInv
  <1> QED BY <1>3, <1>4 DEF m

LEMMA NextArgument ==
    ASSUME LocalsInv, Char # Zero
    PROVE  /\ Arg \in Args /\ Star \in Int /\ Star < 2 ^ INT_BITS
           /\ Tail(fmt.va) \in Seq(Args)
           /\ Len(Tail(fmt.va)) >= Len(fmt.format) + 1 - (fmt.pos + 1)
  <1>1. /\ fmt.va \in Seq(Args) /\ Len(fmt.va) >= 1 /\ Len(fmt.format) \in Nat /\ fmt.pos \in Nat
        /\ Len(fmt.va) >= Len(fmt.format) + 1 - fmt.pos
    BY CharInside DEF LocalsInv
  <1>2. fmt.va # <<>> BY <1>1
  <1>3. Arg \in Args BY <1>1, <1>2 DEF Arg
  <1>4. Tail(fmt.va) \in Seq(Args) /\ Len(Tail(fmt.va)) = Len(fmt.va) - 1 BY <1>1, <1>2
  <1>5. Arg.word \in Int BY <1>3 DEF Args
  <1>6. Star \in Int /\ Star < 2 ^ INT_BITS BY <1>5, UnsignedInt DEF Star
  <1>7. Len(Tail(fmt.va)) >= Len(fmt.format) + 1 - (fmt.pos + 1) BY <1>1, <1>4
  <1> QED BY <1>3, <1>4, <1>6, <1>7

-----------------------------------------------------------------------------
(* What the steps do.  Inside a directive they move the pointer past       *)
(* modifiers; outside, and at the end of a directive, they put out a text. *)
GoesOn ==
    /\ DOMAIN fmt' = Fields /\ fmt'.call = fmt.call /\ fmt'.format = fmt.format
    /\ fmt'.width \in UInts /\ fmt'.precision \in UInts
    /\ fmt'.va \in Seq(Args) /\ Len(fmt'.va) >= Len(fmt.format) + 1 - fmt'.pos

Moves(n) ==
    /\ GoesOn /\ fmt'.text = fmt.text /\ fmt'.buffer = fmt.buffer
    /\ fmt.at \in Parts /\ fmt'.at \in Parts /\ fmt'.pos = fmt.pos + n
    /\ \A j \in fmt.pos .. fmt.pos + n - 1 : j <= Len(fmt.format) /\ fmt.format[j] \in Modifiers
    /\ (n > 0) \/ (Stage' < Stage)

Puts(t) ==
    /\ GoesOn /\ fmt'.text = fmt.text \o t /\ fmt'.buffer = out(fmt.buffer, t, Len(fmt.text))
    /\ fmt'.at = "loop" /\ fmt'.pos = fmt.pos + 1 /\ IsText(t)

LEMMA StageIs ==
    /\ (fmt.at = "loop") => (Stage = 8)
    /\ (fmt.at = "flags") => (Stage = 7)
    /\ (fmt.at = "width") => (Stage = 6)
    /\ (fmt.at = "width_digits") => (Stage = 5)
    /\ (fmt.at = "precision") => (Stage = 4)
    /\ (fmt.at = "precision_digits") => (Stage = 3)
    /\ (fmt.at = "length") => (Stage = 2)
    /\ (fmt.at = "specifier") => (Stage = 1)
    /\ (fmt.at = "done") => (Stage = 0)
  BY DEF Stage

LEMMA NextStageIs ==
    /\ (fmt'.at = "loop") => (Stage' = 8)
    /\ (fmt'.at = "flags") => (Stage' = 7)
    /\ (fmt'.at = "width") => (Stage' = 6)
    /\ (fmt'.at = "width_digits") => (Stage' = 5)
    /\ (fmt'.at = "precision") => (Stage' = 4)
    /\ (fmt'.at = "precision_digits") => (Stage' = 3)
    /\ (fmt'.at = "length") => (Stage' = 2)
    /\ (fmt'.at = "specifier") => (Stage' = 1)
    /\ (fmt'.at = "done") => (Stage' = 0)
  BY DEF Stage

(* A step that leaves the pointer where it is. *)
LEMMA StaysHere ==
    ASSUME LocalsInv, NEW label \in Parts, fmt' = [fmt EXCEPT !.at = label], fmt.at \in Parts,
           Stage' < Stage
    PROVE  Moves(0)
  <1>1. /\ DOMAIN fmt' = Fields /\ fmt'.call = fmt.call /\ fmt'.format = fmt.format
        /\ fmt'.width = fmt.width /\ fmt'.precision = fmt.precision /\ fmt'.va = fmt.va
        /\ fmt'.text = fmt.text /\ fmt'.buffer = fmt.buffer /\ fmt'.pos = fmt.pos /\ fmt'.at = label
    BY DEF LocalsInv, Fields
  <1>2. fmt'.pos = fmt.pos + 0 /\ fmt.pos .. fmt.pos + 0 - 1 = {} BY <1>1 DEF LocalsInv
  <1> QED BY <1>1, <1>2 DEF Moves, GoesOn, LocalsInv

(* A step that takes one modifier, and an argument or none. *)
LEMMA TakesOne ==
    ASSUME LocalsInv, fmt.at \in Parts, Char \in Modifiers, Char # Zero,
           DOMAIN fmt' = Fields, fmt'.call = fmt.call, fmt'.format = fmt.format,
           fmt'.width \in UInts, fmt'.precision \in UInts, fmt'.va \in {fmt.va, Tail(fmt.va)},
           fmt'.text = fmt.text, fmt'.buffer = fmt.buffer, fmt'.pos = fmt.pos + 1, fmt'.at \in Parts
    PROVE  Moves(1)
  <1>1. fmt.pos \in 1 .. Len(fmt.format) /\ fmt.format[fmt.pos] = Char /\ Len(fmt.format) \in Nat
    BY CharInside
  <1>2. \A j \in fmt.pos .. fmt.pos + 1 - 1 : j <= Len(fmt.format) /\ fmt.format[j] \in Modifiers
    BY <1>1
  <1>3. fmt'.va \in Seq(Args) /\ Len(fmt'.va) >= Len(fmt.format) + 1 - fmt'.pos
    <2>1. CASE fmt'.va = Tail(fmt.va) BY <2>1, NextArgument
    <2>2. CASE fmt'.va = fmt.va BY <2>2, <1>1 DEF LocalsInv
    <2> QED BY <2>1, <2>2
  <1> QED BY <1>2, <1>3 DEF Moves, GoesOn

LEMMA FlagsMoves ==
    ASSUME LocalsInv, Flags
    PROVE  \E n \in {0, 1} : Moves(n)
  <1>1. CASE Here({"0", "-", "+", " ", "#"})
    <2>1. fmt' = [fmt EXCEPT !.flags = @ \cup {FlagOf(Char)}, !.pos = @ + 1] /\ fmt.at = "flags"
      BY <1>1 DEF Flags, At
    <2>2. _is_digit("0")
      <3>1. 1 \in DOMAIN Digits /\ Digits[1] = "0" BY DEF Digits
      <3> QED BY <3>1 DEF _is_digit, Range
    <2>3. Char \in Modifiers /\ Char # Zero BY <1>1, <2>2, DigitIsDigit DEF Here, Modifiers, Zero
    <2>4. /\ DOMAIN fmt' = Fields /\ fmt'.call = fmt.call /\ fmt'.format = fmt.format
          /\ fmt'.width = fmt.width /\ fmt'.precision = fmt.precision /\ fmt'.va = fmt.va
          /\ fmt'.text = fmt.text /\ fmt'.buffer = fmt.buffer /\ fmt'.pos = fmt.pos + 1 /\ fmt'.at = "flags"
      BY <2>1 DEF LocalsInv, Fields
    <2> QED BY <2>1, <2>3, <2>4, TakesOne DEF LocalsInv, Parts
  <1>2. CASE ~Here({"0", "-", "+", " ", "#"})
    <2>1. fmt' = [fmt EXCEPT !.at = "width"] /\ fmt.at = "flags" BY <1>2 DEF Flags, At
    <2>2. fmt'.at = "width" BY <2>1 DEF LocalsInv, Fields
    <2> QED BY <2>1, <2>2, StageIs, NextStageIs, StaysHere DEF Parts
  <1> QED BY <1>1, <1>2

LEMMA DigitsMove ==
    ASSUME LocalsInv, WidthDigits \/ PrecisionDigits
    PROVE  \E n \in {0, 1} : Moves(n)
  <1>1. CASE _is_digit(Char)
    <2>1. \/ fmt' = [fmt EXCEPT !.width = _atoi(@), !.pos = @ + 1] /\ fmt.at = "width_digits"
          \/ fmt' = [fmt EXCEPT !.precision = _atoi(@), !.pos = @ + 1] /\ fmt.at = "precision_digits"
      BY <1>1 DEF WidthDigits, PrecisionDigits, At
    <2>2. Char \in Modifiers /\ Char # Zero /\ ValueOf(Char) \in 0 .. 9 BY <1>1, DigitIsDigit
    <2>3. _atoi(fmt.width) \in UInts /\ _atoi(fmt.precision) \in UInts
      <3>1. \A w \in Nat, v \in 0 .. 9 : w * 10 + v \in Int OBVIOUS
      <3>2. fmt.width * 10 + ValueOf(Char) \in Int /\ fmt.precision * 10 + ValueOf(Char) \in Int
        BY <2>2, <3>1, UIntsAre, Zenon
      <3> QED BY <3>2, UnsignedInt DEF _atoi
    <2>4. /\ DOMAIN fmt' = Fields /\ fmt'.call = fmt.call /\ fmt'.format = fmt.format
          /\ fmt'.width \in UInts /\ fmt'.precision \in UInts /\ fmt'.va = fmt.va /\ fmt'.at = fmt.at
          /\ fmt'.text = fmt.text /\ fmt'.buffer = fmt.buffer /\ fmt'.pos = fmt.pos + 1
      <3>1. CASE fmt' = [fmt EXCEPT !.width = _atoi(@), !.pos = @ + 1]
        BY <3>1, <2>3 DEF LocalsInv, Fields
      <3>2. CASE fmt' = [fmt EXCEPT !.precision = _atoi(@), !.pos = @ + 1]
        BY <3>2, <2>3 DEF LocalsInv, Fields
      <3> QED BY <2>1, <3>1, <3>2
    <2>5. fmt.at \in Parts BY <2>1 DEF Parts
    <2> QED BY <2>2, <2>4, <2>5, TakesOne
  <1>2. CASE ~_is_digit(Char)
    <2>1. \/ fmt' = [fmt EXCEPT !.at = "precision"] /\ fmt.at = "width_digits"
          \/ fmt' = [fmt EXCEPT !.at = "length"] /\ fmt.at = "precision_digits"
      BY <1>2 DEF WidthDigits, PrecisionDigits, At
    <2>2. CASE fmt' = [fmt EXCEPT !.at = "precision"] /\ fmt.at = "width_digits"
      <3>1. fmt'.at = "precision" BY <2>2 DEF LocalsInv, Fields
      <3> QED BY <2>2, <3>1, StageIs, NextStageIs, StaysHere DEF Parts
    <2>3. CASE fmt' = [fmt EXCEPT !.at = "length"] /\ fmt.at = "precision_digits"
      <3>1. fmt'.at = "length" BY <2>3 DEF LocalsInv, Fields
      <3> QED BY <2>3, <3>1, StageIs, NextStageIs, StaysHere DEF Parts
    <2> QED BY <2>1, <2>2, <2>3
  <1> QED BY <1>1, <1>2

LEMMA WidthMoves ==
    ASSUME LocalsInv, Width
    PROVE  \E n \in {0, 1} : Moves(n)
  <1>1. fmt.at = "width" BY DEF Width, At
  <1>2. ~(_is_digit(Char) /\ Here({"*"}))
    BY DEF Here, _is_digit, Range, Digits
  <1>3. \/ fmt' = [fmt EXCEPT !.at = "width_digits"]
        \/ fmt' = [fmt EXCEPT !.at = "precision"]
        \/ /\ Here({"*"})
           /\ fmt' = [fmt EXCEPT !.at = "precision", !.pos = @ + 1, !.va = Tail(@),
                                 !.flags = IF Star < 0 THEN @ \cup {"LEFT"} ELSE @,
                                 !.width = Unsigned(IF Star < 0 THEN -Star ELSE Star, INT_BITS)]
    BY <1>2, Zenon DEF Width
  <1>4. CASE fmt' = [fmt EXCEPT !.at = "width_digits"]
    <2>1. fmt'.at = "width_digits" BY <1>4 DEF LocalsInv, Fields
    <2> QED BY <1>1, <1>4, <2>1, StageIs, NextStageIs, StaysHere DEF Parts
  <1>5. CASE fmt' = [fmt EXCEPT !.at = "precision"]
    <2>1. fmt'.at = "precision" BY <1>5 DEF LocalsInv, Fields
    <2> QED BY <1>1, <1>5, <2>1, StageIs, NextStageIs, StaysHere DEF Parts
  <1>6. ASSUME Here({"*"}), NEW flags, NEW w,
               w = Unsigned(IF Star < 0 THEN -Star ELSE Star, INT_BITS),
               fmt' = [fmt EXCEPT !.at = "precision", !.pos = @ + 1, !.va = Tail(@),
                                  !.flags = flags, !.width = w]
        PROVE  Moves(1)
    <2>1. Char \in Modifiers /\ Char # Zero BY <1>6 DEF Here, Modifiers, Zero
    <2>2. (IF Star < 0 THEN -Star ELSE Star) \in Int BY <2>1, NextArgument
    <2>3. w \in UInts BY <1>6, <2>2, UnsignedInt
    <2>4. /\ DOMAIN fmt' = Fields /\ fmt'.call = fmt.call /\ fmt'.format = fmt.format
          /\ fmt'.width = w /\ fmt'.precision = fmt.precision /\ fmt'.va = Tail(fmt.va)
          /\ fmt'.text = fmt.text /\ fmt'.buffer = fmt.buffer /\ fmt'.pos = fmt.pos + 1
          /\ fmt'.at = "precision"
      BY <1>6 DEF LocalsInv, Fields
    <2> QED BY <1>1, <2>1, <2>3, <2>4, TakesOne DEF LocalsInv, Parts
  <1> QED BY <1>3, <1>4, <1>5, <1>6

LEMMA PrecisionMoves ==
    ASSUME LocalsInv, Precision
    PROVE  \E n \in {0, 1} : Moves(n)
  <1>1. fmt.at = "precision" BY DEF Precision, At
  <1>2. ~(_is_digit(Char) /\ Here({"*"}))
    BY DEF Here, _is_digit, Range, Digits
  <1>3. \/ fmt' = [fmt EXCEPT !.at = "precision_digits"]
        \/ fmt' = [fmt EXCEPT !.at = "length"]
        \/ Here({"."}) /\ fmt' = [fmt EXCEPT !.flags = @ \cup {"PRECISION"}, !.pos = @ + 1]
        \/ /\ Here({"*"})
           /\ fmt' = [fmt EXCEPT !.at = "length", !.pos = @ + 1, !.va = Tail(@),
                                 !.precision = IF Star > 0 THEN Star ELSE 0]
    BY <1>2, Zenon DEF Precision
  <1>4. CASE fmt' = [fmt EXCEPT !.at = "precision_digits"]
    <2>1. fmt'.at = "precision_digits" BY <1>4 DEF LocalsInv, Fields
    <2> QED BY <1>1, <1>4, <2>1, StageIs, NextStageIs, StaysHere DEF Parts
  <1>5. CASE fmt' = [fmt EXCEPT !.at = "length"]
    <2>1. fmt'.at = "length" BY <1>5 DEF LocalsInv, Fields
    <2> QED BY <1>1, <1>5, <2>1, StageIs, NextStageIs, StaysHere DEF Parts
  <1>6. CASE Here({"."}) /\ fmt' = [fmt EXCEPT !.flags = @ \cup {"PRECISION"}, !.pos = @ + 1]
    <2>1. Char \in Modifiers /\ Char # Zero BY <1>6 DEF Here, Modifiers, Zero
    <2>2. /\ DOMAIN fmt' = Fields /\ fmt'.call = fmt.call /\ fmt'.format = fmt.format
          /\ fmt'.width = fmt.width /\ fmt'.precision = fmt.precision /\ fmt'.va = fmt.va
          /\ fmt'.text = fmt.text /\ fmt'.buffer = fmt.buffer /\ fmt'.pos = fmt.pos + 1
          /\ fmt'.at = "precision"
      BY <1>1, <1>6 DEF LocalsInv, Fields
    <2> QED BY <1>1, <2>1, <2>2, TakesOne DEF LocalsInv, Parts
  <1>7. ASSUME Here({"*"}), NEW p, p = IF Star > 0 THEN Star ELSE 0,
               fmt' = [fmt EXCEPT !.at = "length", !.pos = @ + 1, !.va = Tail(@), !.precision = p]
        PROVE  Moves(1)
    <2>1. Char \in Modifiers /\ Char # Zero BY <1>7 DEF Here, Modifiers, Zero
    <2>2. p \in UInts
      <3> DEFINE m == 2 ^ INT_BITS
      <3>1. Star \in Int /\ Star < m BY <2>1, NextArgument
      <3>2. m \in Nat /\ m > 0 BY FormatAssumption
      <3> HIDE DEF m
      <3>3. p \in Nat /\ p < m BY <1>7, <3>1, <3>2
      <3> QED BY <3>3, UIntsAre DEF m
    <2>3. /\ DOMAIN fmt' = Fields /\ fmt'.call = fmt.call /\ fmt'.format = fmt.format
          /\ fmt'.width = fmt.width /\ fmt'.precision = p /\ fmt'.va = Tail(fmt.va)
          /\ fmt'.text = fmt.text /\ fmt'.buffer = fmt.buffer /\ fmt'.pos = fmt.pos + 1
          /\ fmt'.at = "length"
      BY <1>7 DEF LocalsInv, Fields
    <2> QED BY <1>1, <2>1, <2>2, <2>3, TakesOne DEF LocalsInv, Parts
  <1> QED BY <1>3, <1>4, <1>5, <1>6, <1>7

LEMMA LengthMoves ==
    ASSUME LocalsInv, Length
    PROVE  \E n \in {0, 1, 2} : Moves(n)
  <1> DEFINE Longer(flags, n) == [fmt EXCEPT !.at = "specifier", !.flags = @ \cup flags, !.pos = @ + n]
  <1>1. fmt.at = "length" BY DEF Length, At
  <1>2. \/ fmt' = Longer({}, 0)
        \/ Here({"h"}) /\ fmt' = Longer({"SHORT"}, 1)
        \/ Here({"l", "t", "j", "z"}) /\ fmt' = Longer({"LONG"}, 1)
        \/ Twice("l") /\ fmt' = Longer({"LONG", "LONG_LONG"}, 2)
        \/ Twice("h") /\ fmt' = Longer({"SHORT", "CHAR"}, 2)
    BY DEF Length
  <1>3. ASSUME NEW flags, NEW n \in 0 .. 2, fmt' = Longer(flags, n)
        PROVE  /\ DOMAIN fmt' = Fields /\ fmt'.call = fmt.call /\ fmt'.format = fmt.format
               /\ fmt'.width = fmt.width /\ fmt'.precision = fmt.precision /\ fmt'.va = fmt.va
               /\ fmt'.text = fmt.text /\ fmt'.buffer = fmt.buffer /\ fmt'.pos = fmt.pos + n
               /\ fmt'.at = "specifier" /\ Stage' < Stage
    <2>1. /\ DOMAIN fmt' = Fields /\ fmt'.call = fmt.call /\ fmt'.format = fmt.format
          /\ fmt'.width = fmt.width /\ fmt'.precision = fmt.precision /\ fmt'.va = fmt.va
          /\ fmt'.text = fmt.text /\ fmt'.buffer = fmt.buffer /\ fmt'.pos = fmt.pos + n
          /\ fmt'.at = "specifier"
      BY <1>3 DEF LocalsInv, Fields
    <2> QED BY <1>1, <2>1, StageIs, NextStageIs
  <1> HIDE DEF Longer
  <1>4. ASSUME NEW flags, NEW n \in 0 .. 2, fmt' = Longer(flags, n),
               \A j \in fmt.pos .. fmt.pos + n - 1 : j <= Len(fmt.format) /\ fmt.format[j] \in Modifiers
        PROVE  Moves(n)
    <2>1. /\ DOMAIN fmt' = Fields /\ fmt'.call = fmt.call /\ fmt'.format = fmt.format
          /\ fmt'.width = fmt.width /\ fmt'.precision = fmt.precision /\ fmt'.va = fmt.va
          /\ fmt'.text = fmt.text /\ fmt'.buffer = fmt.buffer /\ fmt'.pos = fmt.pos + n
          /\ fmt'.at = "specifier" /\ Stage' < Stage
      BY <1>3, <1>4
    <2>2. Len(fmt.format) \in Nat BY CallsAre DEF LocalsInv
    <2>3. Len(fmt.va) >= Len(fmt.format) + 1 - fmt'.pos
      <3>1. fmt.pos \in Nat /\ Len(fmt.va) \in Nat /\ Len(fmt.va) >= Len(fmt.format) + 1 - fmt.pos BY DEF LocalsInv
      <3>2. fmt'.pos \in Nat /\ fmt'.pos >= fmt.pos BY <2>1, <3>1
      <3> QED BY <2>2, <3>1, <3>2
    <2> QED BY <1>1, <1>4, <2>1, <2>3 DEF Moves, GoesOn, LocalsInv, Parts
  <1>5. CASE fmt' = Longer({}, 0)
    <2>1. fmt.pos .. fmt.pos + 0 - 1 = {} BY DEF LocalsInv
    <2> QED BY <1>4, <1>5, <2>1
  <1>6. ASSUME NEW flags, Here({"h", "l", "t", "j", "z"}), fmt' = Longer(flags, 1)
        PROVE  Moves(1)
    <2>1. Char \in Modifiers /\ Char # Zero BY <1>6 DEF Here, Modifiers, Zero
    <2>2. fmt.pos \in 1 .. Len(fmt.format) /\ fmt.format[fmt.pos] = Char /\ Len(fmt.format) \in Nat
      BY <2>1, CharInside
    <2>3. \A j \in fmt.pos .. fmt.pos + 1 - 1 : j <= Len(fmt.format) /\ fmt.format[j] \in Modifiers
      BY <2>1, <2>2
    <2> QED BY <1>4, <1>6, <2>3
  <1>7. ASSUME NEW flags, NEW c \in {"l", "h"}, Twice(c), fmt' = Longer(flags, 2)
        PROVE  Moves(2)
    <2>1. c \in Modifiers BY <1>7 DEF Modifiers
    <2>2. Len(fmt.format) \in Nat BY CallsAre DEF LocalsInv
    <2>3. \A j \in fmt.pos .. fmt.pos + 2 - 1 : j <= Len(fmt.format) /\ fmt.format[j] \in Modifiers
      <3> TAKE j \in fmt.pos .. fmt.pos + 2 - 1
      <3>1. j = fmt.pos \/ j = fmt.pos + 1 BY DEF LocalsInv
      <3> QED BY <1>7, <2>1, <2>2, <3>1 DEF Twice, LocalsInv
    <2> QED BY <1>4, <1>7, <2>3
  <1> QED BY <1>2, <1>5, <1>6, <1>7 DEF Here

(* Every step inside a directive but its last. *)
LEMMA ModifierMoves ==
    ASSUME LocalsInv, Flags \/ Width \/ WidthDigits \/ Precision \/ PrecisionDigits \/ Length
    PROVE  \E n \in {0, 1, 2} : Moves(n)
  BY FlagsMoves, WidthMoves, DigitsMove, PrecisionMoves, LengthMoves

LEMMA OutIs ==
    ASSUME LocalsInv, NEW t
    PROVE  /\ DOMAIN Out(t) = Fields /\ Out(t).call = fmt.call /\ Out(t).format = fmt.format
           /\ Out(t).va = fmt.va /\ Out(t).width = fmt.width /\ Out(t).precision = fmt.precision
           /\ Out(t).text = fmt.text \o t /\ Out(t).buffer = out(fmt.buffer, t, Len(fmt.text))
           /\ Out(t).at = "loop" /\ Out(t).pos = fmt.pos + 1
  BY DEF Out, LocalsInv, Fields

(* A step that puts out a text, and takes an argument or none. *)
LEMMA PutsText ==
    ASSUME LocalsInv, NEW t, IsText(t),
           DOMAIN fmt' = Fields, fmt'.call = fmt.call, fmt'.format = fmt.format,
           fmt'.width \in UInts, fmt'.precision \in UInts,
           fmt'.va = fmt.va \/ (Char # Zero /\ fmt'.va = Tail(fmt.va)),
           fmt'.text = fmt.text \o t, fmt'.buffer = out(fmt.buffer, t, Len(fmt.text)),
           fmt'.at = "loop", fmt'.pos = fmt.pos + 1
    PROVE  Puts(t)
  <1>1. Len(fmt.format) \in Nat BY CallsAre DEF LocalsInv
  <1>2. fmt'.va \in Seq(Args) /\ Len(fmt'.va) >= Len(fmt.format) + 1 - fmt'.pos
    <2>1. CASE fmt'.va = fmt.va BY <1>1, <2>1 DEF LocalsInv
    <2>2. CASE Char # Zero /\ fmt'.va = Tail(fmt.va) BY <2>2, NextArgument
    <2> QED BY <2>1, <2>2
  <1> QED BY <1>2 DEF Puts, GoesOn

LEMMA OneCharacter ==
    ASSUME LocalsInv, fmt' = Out(<<Char>>)
    PROVE  Puts(<<Char>>)
  <1> DEFINE t == <<Char>>
  <1>1. IsText(t) BY Single
  <1>2. fmt' = Out(t) OBVIOUS
  <1> HIDE DEF t
  <1>3. Puts(t) BY <1>1, <1>2, OutIs, PutsText DEF LocalsInv
  <1> QED BY <1>3 DEF t

LEMMA IntegerPuts ==
    ASSUME LocalsInv, Integer
    PROVE  \E t : Puts(t)
  <1> DEFINE flags == IntegerFlags(Char, fmt.flags)
             value == IF Here({"d", "i"}) THEN ToSigned(Arg.word, BitsOf(flags))
                      ELSE Unsigned(Arg.word, BitsOf(flags))
             t == _ntoa_long(IF value < 0 THEN -value ELSE value, value < 0, BaseOf(Char),
                             fmt.precision, fmt.width, flags)
             number == [value |-> value, base |-> BaseOf(Char), text |-> t]
  <1>1. fmt' = [Out(t) EXCEPT !.va = Tail(@), !.flags = flags, !.number = number] BY Zenon DEF Integer
  <1>2. Char # Zero BY DEF Integer, Here, Zero
  <1> HIDE DEF flags, value
  <1>3. IsText(t) BY UIntsAre, DigitsAreText
  <1> HIDE DEF t, number
  <1>4. /\ DOMAIN fmt' = Fields /\ fmt'.call = fmt.call /\ fmt'.format = fmt.format
        /\ fmt'.width = fmt.width /\ fmt'.precision = fmt.precision /\ fmt'.va = Tail(fmt.va)
        /\ fmt'.text = fmt.text \o t /\ fmt'.buffer = out(fmt.buffer, t, Len(fmt.text))
        /\ fmt'.at = "loop" /\ fmt'.pos = fmt.pos + 1
    BY <1>1, OutIs DEF Fields
  <1> QED BY <1>2, <1>3, <1>4, PutsText DEF LocalsInv

LEMMA PointerPuts ==
    ASSUME LocalsInv, Pointer
    PROVE  \E t : Puts(t)
  <1> DEFINE flags == fmt.flags \cup {"ZEROPAD", "UPPERCASE"}
             value == Unsigned(Arg.word, LONG_BITS)
             width == LONG_BITS \div 4
             t == _ntoa_long(value, FALSE, 16, fmt.precision, width, flags)
             number == [value |-> value, base |-> 16, text |-> t]
  <1>1. fmt' = [Out(t) EXCEPT !.va = Tail(@), !.flags = flags, !.width = width, !.number = number]
    BY Zenon DEF Pointer
  <1>2. Char # Zero BY DEF Pointer, Here, Zero
  <1>3. width \in Nat /\ width \in UInts
    <2>1. LONG_BITS \div 4 \in Nat /\ LONG_BITS \div 4 < 2 ^ INT_BITS BY FormatAssumption
    <2> QED BY <2>1, UIntsAre
  <1> HIDE DEF flags, value, width
  <1>4. IsText(t) BY <1>3, UIntsAre, DigitsAreText
  <1> HIDE DEF t, number
  <1>5. /\ DOMAIN fmt' = Fields /\ fmt'.call = fmt.call /\ fmt'.format = fmt.format
        /\ fmt'.width = width /\ fmt'.precision = fmt.precision /\ fmt'.va = Tail(fmt.va)
        /\ fmt'.text = fmt.text \o t /\ fmt'.buffer = out(fmt.buffer, t, Len(fmt.text))
        /\ fmt'.at = "loop" /\ fmt'.pos = fmt.pos + 1
    BY <1>1, OutIs DEF Fields
  <1> QED BY <1>2, <1>3, <1>4, <1>5, PutsText DEF LocalsInv

LEMMA CharacterPuts ==
    ASSUME LocalsInv, Character
    PROVE  \E t : Puts(t)
  <1> DEFINE pad == Padding(1, fmt.width)
             t == IF "LEFT" \in fmt.flags THEN <<Arg.char>> \o pad ELSE pad \o <<Arg.char>>
  <1>1. fmt' = [Out(t) EXCEPT !.va = Tail(@)] BY Zenon DEF Character
  <1>2. Char # Zero BY DEF Character, Here, Zero
  <1>3. IsText(t)
    <2>1. IsText(pad) BY UIntsAre, PaddingIsText
    <2>2. IsText(<<Arg.char>>) BY Single
    <2> HIDE DEF pad
    <2> QED BY <2>1, <2>2, Concatenation
  <1> HIDE DEF t
  <1>4. /\ DOMAIN fmt' = Fields /\ fmt'.call = fmt.call /\ fmt'.format = fmt.format
        /\ fmt'.width = fmt.width /\ fmt'.precision = fmt.precision /\ fmt'.va = Tail(fmt.va)
        /\ fmt'.text = fmt.text \o t /\ fmt'.buffer = out(fmt.buffer, t, Len(fmt.text))
        /\ fmt'.at = "loop" /\ fmt'.pos = fmt.pos + 1
    BY <1>1, OutIs DEF Fields
  <1> QED BY <1>2, <1>3, <1>4, PutsText DEF LocalsInv

LEMMA StringPuts ==
    ASSUME LocalsInv, String
    PROVE  \E t : Puts(t)
  <1> DEFINE str == Arg.str
             maxsize == IF fmt.precision # 0 THEN fmt.precision ELSE SIZE_MAX
             l == _strnlen_s(str, maxsize)
             used == IF "PRECISION" \in fmt.flags THEN Min({l, fmt.precision}) ELSE l
             text == SubSeq(str, 1, used)
             pad == Padding(used, fmt.width)
             t == IF "LEFT" \in fmt.flags THEN text \o pad ELSE pad \o text
  <1>1. fmt' = [Out(t) EXCEPT !.va = Tail(@)] BY Zenon DEF String
  <1>2. Char # Zero BY DEF String, Here, Zero
  <1>3. IsText(t)
    <2>1. str \in Seq(STRING) BY <1>2, NextArgument DEF Args
    <2>2. IsText(str) /\ Len(str) \in Nat BY <2>1, TextOf
    <2>3. maxsize \in Nat BY FormatAssumption, UIntsAre
    <2> HIDE DEF str, maxsize
    <2>4. l \in 0 .. Len(str) BY <2>2, <2>3, MinOfTwo DEF _strnlen_s
    <2> HIDE DEF l
    <2>5. used \in 0 .. Len(str)
      <3>1. l \in Nat /\ fmt.precision \in Nat BY <2>2, <2>4, UIntsAre
      <3>2. Min({l, fmt.precision}) \in Nat /\ Min({l, fmt.precision}) <= l BY <3>1, MinOfTwo
      <3> DEFINE m == Min({l, fmt.precision})
      <3> HIDE DEF m
      <3>3. m \in 0 .. Len(str) BY <2>2, <2>4, <3>1, <3>2 DEF m
      <3> QED BY <2>4, <3>3 DEF m
    <2> HIDE DEF used
    <2>6. IsText(text) BY <2>2, <2>5, Prefix
    <2>7. IsText(pad) BY <2>2, <2>5, UIntsAre, PaddingIsText
    <2> HIDE DEF text, pad
    <2> QED BY <2>6, <2>7, Concatenation
  <1> HIDE DEF t
  <1>4. /\ DOMAIN fmt' = Fields /\ fmt'.call = fmt.call /\ fmt'.format = fmt.format
        /\ fmt'.width = fmt.width /\ fmt'.precision = fmt.precision /\ fmt'.va = Tail(fmt.va)
        /\ fmt'.text = fmt.text \o t /\ fmt'.buffer = out(fmt.buffer, t, Len(fmt.text))
        /\ fmt'.at = "loop" /\ fmt'.pos = fmt.pos + 1
    BY <1>1, OutIs DEF Fields
  <1> QED BY <1>2, <1>3, <1>4, PutsText DEF LocalsInv

(* The last step of a directive. *)
LEMMA SpecifierPuts ==
    ASSUME LocalsInv, Integer \/ Character \/ String \/ Pointer \/ Other
    PROVE  fmt.at = "specifier" /\ \E t : Puts(t)
  <1>1. fmt.at = "specifier" BY DEF Integer, Character, String, Pointer, Other, At
  <1>2. CASE Other BY <1>1, <1>2, OneCharacter DEF Other
  <1> QED BY <1>1, <1>2, IntegerPuts, CharacterPuts, StringPuts, PointerPuts

-----------------------------------------------------------------------------
(* The pointer stays inside the format or inside a directive that the      *)
(* format ends in, and each step takes the call nearer to its end.         *)
LEMMA StageBounds ==
    /\ LocalsInv => (Stage \in 0 .. 8)
    /\ LocalsInv' => (Stage' \in 0 .. 8)
  BY StageIs, NextStageIs DEF LocalsInv, Parts

Nearer == Variant' < Variant /\ Variant' >= 0

LEMMA VariantFalls ==
    ASSUME LocalsInv, LocalsInv', PointerInv', fmt'.format = fmt.format,
           \/ fmt'.pos > fmt.pos
           \/ fmt'.pos = fmt.pos /\ Stage' < Stage
    PROVE  Nearer
  <1>1. /\ Len(fmt.format) \in Nat /\ fmt.pos \in Nat /\ fmt'.pos \in Nat
        /\ Stage \in 0 .. 8 /\ Stage' \in 0 .. 8
    BY CallsAre, StageBounds DEF LocalsInv
  <1>2. fmt'.pos <= Len(fmt.format) + 2 BY <1>1 DEF PointerInv, LocalsInv
  <1>3. Variant = 9 * (Len(fmt.format) + 2 - fmt.pos) + Stage BY DEF Variant
  <1>4. Variant' = 9 * (Len(fmt.format) + 2 - fmt'.pos) + Stage' BY DEF Variant
  <1> DEFINE a == Len(fmt.format)  p == fmt.pos  q == fmt'.pos  s == Stage  r == Stage'
             v == Variant  w == Variant'
  <1> HIDE DEF a, p, q, s, r, v, w
  <1>5. /\ a \in Nat /\ p \in Nat /\ q \in Nat /\ s \in 0 .. 8 /\ r \in 0 .. 8
        /\ q <= a + 2 /\ v = 9 * (a + 2 - p) + s /\ w = 9 * (a + 2 - q) + r
        /\ q > p \/ (q = p /\ r < s)
    BY <1>1, <1>2, <1>3, <1>4 DEF a, p, q, s, r, v, w
  <1>6. w < v /\ w >= 0 BY <1>5
  <1> QED BY <1>6 DEF Nearer, v, w

LEMMA NextInside ==
    ASSUME LocalsInv', PointerInv'
    PROVE  FormatInside'
  <1>1. Len(fmt'.format) \in Nat /\ fmt'.pos \in Nat BY CallsAre DEF LocalsInv
  <1> QED BY <1>1 DEF LocalsInv, PointerInv, FormatInside

LEMMA MovesKeep ==
    ASSUME LocalsInv, PointerInv, OutputInv, NEW n \in {0, 1, 2}, Moves(n)
    PROVE  LocalsInv' /\ PointerInv' /\ OutputInv' /\ Nearer
  <1>1. /\ GoesOn /\ fmt'.text = fmt.text /\ fmt'.buffer = fmt.buffer
        /\ fmt.at \in Parts /\ fmt'.at \in Parts /\ fmt'.pos = fmt.pos + n
        /\ \A j \in fmt.pos .. fmt.pos + n - 1 : j <= Len(fmt.format) /\ fmt.format[j] \in Modifiers
        /\ (n > 0) \/ (Stage' < Stage)
    BY Zenon DEF Moves
  <1>2. /\ fmt'.call = fmt.call /\ fmt'.format = fmt.format /\ Len(fmt.format) \in Nat /\ fmt.pos \in Nat
    BY <1>1, CallsAre DEF GoesOn, LocalsInv
  <1>3. LocalsInv'
    <2>1. fmt'.pos \in Nat \ {0} BY <1>1 DEF LocalsInv
    <2>2. /\ DOMAIN fmt' = Fields /\ fmt'.width \in UInts /\ fmt'.precision \in UInts
          /\ fmt'.va \in Seq(Args) /\ Len(fmt'.va) >= Len(fmt'.format) + 1 - fmt'.pos
      BY <1>1, <1>2, Zenon DEF GoesOn
    <2>3. /\ fmt'.call \in FormatCalls /\ fmt'.format = FormatOf(fmt'.call)
          /\ IsText(fmt'.text) /\ DOMAIN fmt'.buffer = 0 .. BufBytes - 1
      BY <1>1, <1>2 DEF LocalsInv
    <2> QED BY <1>1, <2>1, <2>2, <2>3, Zenon DEF LocalsInv
  <1>4. fmt'.at # "loop" /\ fmt'.at # "done" /\ fmt.at # "done" BY <1>1 DEF Parts
  <1>5. PointerInv'
    <2>1. fmt.pos <= Len(fmt.format) + 1 BY <1>1 DEF PointerInv
    <2>2. PICK i \in 1 .. fmt.pos - 1 :
             /\ fmt.format[i] = "%" /\ MayStart(fmt.format, i)
             /\ \A j \in i + 1 .. fmt.pos - 1 : fmt.format[j] \in Modifiers
      BY <1>1 DEF PointerInv
    <2>3. fmt'.pos <= Len(fmt.format) + 1
      <3>1. CASE n = 0 BY <1>1, <1>2, <2>1, <3>1
      <3>2. CASE n > 0
        <4>1. fmt.pos + n - 1 \in fmt.pos .. fmt.pos + n - 1 BY <1>2, <3>2
        <4>2. fmt.pos + n - 1 <= Len(fmt.format) BY <1>1, <4>1
        <4> QED BY <1>1, <1>2, <4>2
      <3> QED BY <3>1, <3>2
    <2>4. \A j \in i + 1 .. fmt'.pos - 1 : fmt.format[j] \in Modifiers
      <3> TAKE j \in i + 1 .. fmt'.pos - 1
      <3>1. j \in i + 1 .. fmt.pos - 1 \/ j \in fmt.pos .. fmt.pos + n - 1 BY <1>1, <1>2
      <3> QED BY <1>1, <2>2, <3>1
    <2>5. i \in 1 .. fmt'.pos - 1 BY <1>1, <1>2
    <2>6. \E k \in 1 .. fmt'.pos - 1 :
             /\ fmt'.format[k] = "%" /\ MayStart(fmt'.format, k)
             /\ \A j \in k + 1 .. fmt'.pos - 1 : fmt'.format[j] \in Modifiers
      BY <1>2, <2>2, <2>4, <2>5
    <2> QED BY <1>2, <1>4, <2>3, <2>6 DEF PointerInv
  <1>6. OutputInv'
    <2>1. FormatTruncates' BY <1>4 DEF FormatTruncates, At
    <2> QED BY <1>1, <1>2, <1>4, <2>1 DEF OutputInv, Maxlen
  <1>7. fmt'.pos > fmt.pos \/ (fmt'.pos = fmt.pos /\ Stage' < Stage) BY <1>1, <1>2
  <1>8. Nearer BY <1>2, <1>3, <1>5, <1>7, VariantFalls
  <1> QED BY <1>3, <1>5, <1>6, <1>8

LEMMA DirectiveKeeps ==
    ASSUME LocalsInv, PointerInv, OutputInv, Directive
    PROVE  LocalsInv' /\ PointerInv' /\ OutputInv' /\ Nearer
  <1>1. /\ fmt.at = "loop" /\ Char = "%"
        /\ fmt' = [fmt EXCEPT !.at = "flags", !.pos = @ + 1, !.flags = {}, !.width = 0, !.precision = 0]
    BY DEF Directive, At, Here
  <1>2. /\ DOMAIN fmt' = Fields /\ fmt'.call = fmt.call /\ fmt'.format = fmt.format
        /\ fmt'.width = 0 /\ fmt'.precision = 0 /\ fmt'.va = fmt.va
        /\ fmt'.text = fmt.text /\ fmt'.buffer = fmt.buffer /\ fmt'.pos = fmt.pos + 1 /\ fmt'.at = "flags"
    BY <1>1 DEF LocalsInv, Fields
  <1>3. fmt.pos \in 1 .. Len(fmt.format) /\ fmt.format[fmt.pos] = "%" /\ Len(fmt.format) \in Nat
    BY <1>1, CharInside DEF Zero
  <1>4. LocalsInv'
    <2>1. fmt'.pos \in Nat \ {0} BY <1>2, <1>3
    <2>2. Len(fmt'.va) >= Len(fmt'.format) + 1 - fmt'.pos BY <1>2, <1>3 DEF LocalsInv
    <2>3. /\ fmt'.call \in FormatCalls /\ fmt'.format = FormatOf(fmt'.call) /\ fmt'.va \in Seq(Args)
          /\ IsText(fmt'.text) /\ DOMAIN fmt'.buffer = 0 .. BufBytes - 1
          /\ fmt'.width \in UInts /\ fmt'.precision \in UInts /\ fmt'.at \in Parts
      BY <1>2, UIntsAre DEF LocalsInv, Parts
    <2> QED BY <1>2, <2>1, <2>2, <2>3, Zenon DEF LocalsInv
  <1>5. PointerInv'
    <2>1. MayStart(fmt.format, fmt.pos) BY <1>1, <1>3 DEF PointerInv
    <2>2. fmt.pos \in 1 .. fmt'.pos - 1 /\ fmt.pos + 1 .. fmt'.pos - 1 = {} BY <1>2, <1>3
    <2>3. \E i \in 1 .. fmt'.pos - 1 :
             /\ fmt'.format[i] = "%" /\ MayStart(fmt'.format, i)
             /\ \A j \in i + 1 .. fmt'.pos - 1 : fmt'.format[j] \in Modifiers
      BY <1>2, <1>3, <2>1, <2>2
    <2>4. fmt'.pos <= Len(fmt'.format) + 1 BY <1>2, <1>3
    <2> QED BY <1>2, <2>3, <2>4 DEF PointerInv
  <1>6. OutputInv'
    <2>1. FormatTruncates' BY <1>2 DEF FormatTruncates, At
    <2> QED BY <1>1, <1>2, <2>1 DEF OutputInv, Maxlen
  <1>7. fmt'.pos > fmt.pos BY <1>2, <1>3
  <1>8. Nearer BY <1>2, <1>4, <1>5, <1>7, VariantFalls
  <1> QED BY <1>4, <1>5, <1>6, <1>8

LEMMA PutsKeepOutput ==
    ASSUME LocalsInv, OutputInv, fmt.at # "done", NEW t, Puts(t)
    PROVE  LocalsInv' /\ OutputInv'
  <1>1. /\ GoesOn /\ fmt'.text = fmt.text \o t /\ fmt'.buffer = out(fmt.buffer, t, Len(fmt.text))
        /\ fmt'.at = "loop" /\ fmt'.pos = fmt.pos + 1 /\ IsText(t)
    BY Zenon DEF Puts
  <1>2. /\ fmt'.call = fmt.call /\ fmt'.format = fmt.format /\ fmt.pos \in Nat
        /\ fmt.call.null \in BOOLEAN /\ Maxlen \in Nat /\ BufBytes \in Nat /\ Maxlen' = Maxlen
    <2>1. fmt'.call = fmt.call /\ fmt'.format = fmt.format BY <1>1, Zenon DEF GoesOn
    <2>2. Maxlen' = Maxlen BY <2>1 DEF Maxlen
    <2>3. fmt.call \in FormatCalls /\ fmt.pos \in Nat BY DEF LocalsInv
    <2>4. fmt.call.null \in BOOLEAN /\ Maxlen \in 0 .. SIZE_MAX BY <2>3, CallsAre, Zenon DEF Maxlen
    <2>5. SIZE_MAX \in Nat /\ BufBytes \in Nat BY FormatAssumption
    <2>6. Maxlen \in Nat BY <2>4, <2>5
    <2> QED BY <2>1, <2>2, <2>3, <2>4, <2>5, <2>6
  <1>3. DOMAIN fmt.buffer = 0 .. BufBytes - 1 /\ IsText(fmt.text) BY DEF LocalsInv
  <1> DEFINE L == Len(fmt.text)  B == 0 .. BufBytes - 1
  <1>4. L \in Nat /\ Len(t) \in Nat /\ t \in Seq(Range(t)) BY <1>1, <1>3, LengthIsNat DEF IsText
  <1>5. /\ IsText(fmt'.text) /\ Len(fmt'.text) = L + Len(t)
        /\ \A n \in 1 .. L : fmt'.text[n] = fmt.text[n]
        /\ \A n \in 1 .. Len(t) : fmt'.text[L + n] = t[n]
    BY <1>1, <1>3, Concatenation
  <1>6. DOMAIN t = 1 .. Len(t) BY <1>4
  <1>7. DOMAIN fmt'.buffer = B BY <1>1, <1>2, <1>3 DEF out, _out_null, _out_buffer
  <1>8. LocalsInv'
    <2>1. /\ DOMAIN fmt' = Fields /\ fmt'.width \in UInts /\ fmt'.precision \in UInts
          /\ fmt'.va \in Seq(Args) /\ Len(fmt'.va) >= Len(fmt'.format) + 1 - fmt'.pos
      BY <1>1, <1>2, Zenon DEF GoesOn
    <2>2. fmt'.pos \in Nat \ {0} BY <1>1, <1>2
    <2>3. fmt'.call \in FormatCalls /\ fmt'.format = FormatOf(fmt'.call) BY <1>2 DEF LocalsInv
    <2> QED BY <1>1, <1>5, <1>7, <2>1, <2>2, <2>3, Zenon DEF LocalsInv
  <1> HIDE DEF L
  <1>9. ASSUME NEW x \in B
        PROVE  fmt'.buffer[x] = IF fmt.call.null \/ x >= Len(fmt'.text) \/ x >= Maxlen
                                THEN Junk ELSE fmt'.text[x + 1]
    <2>1. x \in Nat BY <1>2
    <2>2. fmt.buffer[x] = IF fmt.call.null \/ x >= L \/ x >= Maxlen THEN Junk ELSE fmt.text[x + 1]
      BY <1>2 DEF OutputInv, L
    <2>3. CASE fmt.call.null
      <3>1. fmt'.buffer[x] = fmt.buffer[x] BY <1>1, <2>3 DEF out, _out_null
      <3> QED BY <2>2, <2>3, <3>1
    <2>4. CASE ~fmt.call.null
      <3>1. fmt'.buffer = [y \in B |-> IF y - L + 1 \in DOMAIN t /\ y < Maxlen
                                       THEN t[y - L + 1] ELSE fmt.buffer[y]]
        BY <1>1, <1>3, <2>4 DEF out, _out_buffer, L
      <3>2. fmt'.buffer[x] = IF x - L + 1 \in 1 .. Len(t) /\ x < Maxlen
                             THEN t[x - L + 1] ELSE fmt.buffer[x]
        BY <1>6, <3>1
      <3>3. CASE x >= Maxlen BY <1>2, <2>1, <2>2, <3>2, <3>3
      <3>4. CASE x < Maxlen /\ x < L
        <4>1. x - L + 1 \notin 1 .. Len(t) BY <1>4, <2>1, <3>4
        <4>2. x + 1 \in 1 .. L /\ ~(x >= L) /\ ~(x >= Maxlen) /\ ~(x >= Len(fmt'.text))
          BY <1>2, <1>4, <1>5, <2>1, <3>4
        <4>3. fmt'.text[x + 1] = fmt.text[x + 1] BY <1>5, <4>2
        <4> QED BY <2>2, <2>4, <3>2, <4>1, <4>2, <4>3
      <3>5. CASE x < Maxlen /\ x >= L /\ x < L + Len(t)
        <4>1. x - L + 1 \in 1 .. Len(t) /\ L + (x - L + 1) = x + 1 BY <1>4, <2>1, <3>5
        <4>2. ~(x >= Maxlen) /\ ~(x >= Len(fmt'.text)) BY <1>2, <1>4, <1>5, <2>1, <3>5
        <4>3. fmt'.text[x + 1] = t[x - L + 1] BY <1>5, <4>1
        <4> QED BY <2>4, <3>2, <3>5, <4>1, <4>2, <4>3
      <3>6. CASE x < Maxlen /\ x >= L + Len(t)
        <4>1. x - L + 1 \notin 1 .. Len(t) /\ x >= L BY <1>4, <2>1, <3>6
        <4> QED BY <1>5, <2>2, <3>2, <3>6, <4>1
      <3> QED BY <1>2, <1>4, <2>1, <3>3, <3>4, <3>5, <3>6
    <2> QED BY <1>2, <2>3, <2>4
  <1>10. FormatTruncates' BY <1>1 DEF FormatTruncates, At
  <1>11. OutputInv'
    <2>1. fmt'.at # "done" BY <1>1
    <2>2. \A x \in B : fmt'.buffer[x] = IF fmt'.call.null \/ x >= Len(fmt'.text) \/ x >= Maxlen'
                                        THEN Junk ELSE fmt'.text[x + 1]
      BY <1>2, <1>9
    <2> QED BY <1>10, <2>2 DEF OutputInv
  <1> QED BY <1>8, <1>11

LEMMA LiteralKeeps ==
    ASSUME LocalsInv, PointerInv, OutputInv, Literal
    PROVE  LocalsInv' /\ PointerInv' /\ OutputInv' /\ Nearer
  <1>1. /\ fmt.at = "loop" /\ fmt.pos <= Len(fmt.format) /\ Char # "%" /\ Puts(<<Char>>)
    BY OneCharacter DEF Literal, At, Here
  <1>2. /\ fmt.pos \in Nat \ {0} /\ Len(fmt.format) \in Nat /\ fmt.format[fmt.pos] # "%"
    BY <1>1, CallsAre DEF LocalsInv, Char
  <1>3. /\ fmt'.at = "loop" /\ fmt'.pos = fmt.pos + 1 /\ fmt'.format = fmt.format
    BY <1>1 DEF Puts, GoesOn
  <1>4. LocalsInv' /\ OutputInv' BY <1>1, PutsKeepOutput
  <1>5. PointerInv'
    <2>1. (fmt.pos + 1) - 1 = fmt.pos BY <1>2
    <2>2. MayStart(fmt.format, fmt.pos + 1) BY <1>2, <2>1 DEF MayStart
    <2>3. fmt'.pos <= Len(fmt'.format) + 1 BY <1>1, <1>2, <1>3
    <2> QED BY <1>3, <2>2, <2>3 DEF PointerInv, Parts
  <1>6. fmt'.pos > fmt.pos BY <1>2, <1>3
  <1>7. Nearer BY <1>3, <1>4, <1>5, <1>6, VariantFalls
  <1> QED BY <1>4, <1>5, <1>7

LEMMA SpecifierKeeps ==
    ASSUME LocalsInv, PointerInv, OutputInv, Integer \/ Character \/ String \/ Pointer \/ Other
    PROVE  LocalsInv' /\ PointerInv' /\ OutputInv' /\ Nearer
  <1>1. PICK t : Puts(t) BY SpecifierPuts
  <1>2. fmt.at = "specifier" BY SpecifierPuts
  <1>3. fmt.pos \in Nat \ {0} /\ Len(fmt.format) \in Nat BY CallsAre DEF LocalsInv
  <1>4. /\ fmt'.at = "loop" /\ fmt'.pos = fmt.pos + 1 /\ fmt'.format = fmt.format
    BY <1>1 DEF Puts, GoesOn
  <1>5. LocalsInv' /\ OutputInv' BY <1>1, <1>2, PutsKeepOutput
  <1>6. PointerInv'
    <2>1. fmt.pos <= Len(fmt.format) + 1 BY <1>2 DEF PointerInv, Parts
    <2>2. PICK i \in 1 .. fmt.pos - 1 :
             /\ fmt.format[i] = "%" /\ MayStart(fmt.format, i)
             /\ \A j \in i + 1 .. fmt.pos - 1 : fmt.format[j] \in Modifiers
      BY <1>2 DEF PointerInv, Parts
    <2>3. CASE fmt.pos <= Len(fmt.format)
      <3>1. (fmt.pos + 1) - 2 = fmt.pos - 1 BY <1>3
      <3>2. MayStart(fmt.format, fmt.pos + 1) BY <2>2, <3>1 DEF MayStart
      <3>3. fmt'.pos <= Len(fmt'.format) + 1 BY <1>3, <1>4, <2>3
      <3> QED BY <1>4, <3>2, <3>3 DEF PointerInv, Parts
    <2>4. CASE fmt.pos = Len(fmt.format) + 1
      <3>1. fmt.pos - 1 = Len(fmt.format) BY <1>3, <2>4
      <3>2. DOMAIN fmt.format = 1 .. Len(fmt.format) BY CallsAre DEF LocalsInv, IsText
      <3>3. EndsInDirective(fmt.format) BY <2>2, <3>1, <3>2 DEF EndsInDirective
      <3>4. fmt'.pos = Len(fmt'.format) + 2 BY <1>3, <1>4, <2>4
      <3> QED BY <1>4, <3>3, <3>4 DEF PointerInv, Parts
    <2> QED BY <1>3, <2>1, <2>3, <2>4
  <1>7. fmt'.pos > fmt.pos BY <1>3, <1>4
  <1>8. Nearer BY <1>4, <1>5, <1>6, <1>7, VariantFalls
  <1> QED BY <1>5, <1>6, <1>8

(* The zero goes behind the text, or to the last byte of a shorter buffer; *)
(* the index wraps for a buffer of no bytes, and nothing is written.       *)
LEMMA ZeroIndex ==
    ASSUME NEW idx \in Nat, LocalsInv
    PROVE  /\ Maxlen \in Nat
           /\ idx < Maxlen => TerminatorIndex(idx) = idx
           /\ idx >= Maxlen /\ Maxlen > 0 => TerminatorIndex(idx) = Maxlen - 1
           /\ TerminatorIndex(idx) \in Nat
  <1>1. Maxlen \in 0 .. SIZE_MAX /\ SIZE_MAX \in Nat BY CallsAre, FormatAssumption DEF LocalsInv, Maxlen
  <1>2. TerminatorIndex(idx) = IF idx < Maxlen THEN idx ELSE (Maxlen - 1) % (SIZE_MAX + 1)
    BY DEF TerminatorIndex
  <1> DEFINE m == Maxlen  s == SIZE_MAX + 1
  <1> HIDE DEF m, s
  <1>3. m \in Nat /\ s \in Nat /\ m < s BY <1>1 DEF m, s
  <1>4. m > 0 => (m - 1) % s = m - 1 BY <1>3
  <1>5. (m - 1) % s \in Nat BY <1>3
  <1> QED BY <1>2, <1>3, <1>4, <1>5 DEF m, s

LEMMA TerminateKeeps ==
    ASSUME LocalsInv, PointerInv, OutputInv, Terminate
    PROVE  LocalsInv' /\ PointerInv' /\ OutputInv' /\ Nearer
  <1> DEFINE L == Len(fmt.text)  z == TerminatorIndex(L)  B == 0 .. BufBytes - 1
  <1>1. /\ fmt.at = "loop" /\ fmt.pos = Len(fmt.format) + 1
        /\ fmt' = [fmt EXCEPT !.at = "done", !.ret = ToSigned(L, INT_BITS), !.buffer = out(@, <<Zero>>, z)]
    BY DEF Terminate, At
  <1> HIDE DEF z
  <1>2. /\ DOMAIN fmt' = Fields /\ fmt'.call = fmt.call /\ fmt'.format = fmt.format
        /\ fmt'.width = fmt.width /\ fmt'.precision = fmt.precision /\ fmt'.va = fmt.va
        /\ fmt'.text = fmt.text /\ fmt'.buffer = out(fmt.buffer, <<Zero>>, z) /\ fmt'.pos = fmt.pos
        /\ fmt'.at = "done" /\ fmt'.ret = ToSigned(L, INT_BITS)
    BY <1>1 DEF LocalsInv, Fields
  <1>3. /\ L \in Nat /\ BufBytes \in Nat /\ DOMAIN fmt.buffer = B /\ fmt.call.null \in BOOLEAN
    BY LengthIsNat, CallsAre, FormatAssumption DEF LocalsInv
  <1>4. /\ Maxlen \in Nat /\ z \in Nat
        /\ L < Maxlen => z = L
        /\ L >= Maxlen /\ Maxlen > 0 => z = Maxlen - 1
    BY <1>3, ZeroIndex DEF z
  <1>5. DOMAIN fmt'.buffer = B BY <1>2, <1>3 DEF out, _out_null, _out_buffer
  <1>6. LocalsInv' BY <1>2, <1>5 DEF LocalsInv
  <1>7. PointerInv' BY <1>1, <1>2 DEF PointerInv, Parts
  <1> DEFINE end == IF L < Maxlen THEN L ELSE Maxlen - 1
  <1>8. end \in Int /\ end < Maxlen /\ end <= L /\ (Maxlen > 0 => z = end) /\ (Maxlen = 0 => end = -1)
    BY <1>3, <1>4
  <1> HIDE DEF L, end
  <1>9. ASSUME NEW x \in B
        PROVE  fmt'.buffer[x] = CASE fmt.call.null \/ x > end -> Junk
                                  [] ~fmt.call.null /\ x = end -> Zero
                                  [] OTHER -> fmt.text[x + 1]
    <2>1. x \in Nat BY <1>3
    <2>2. fmt.buffer[x] = IF fmt.call.null \/ x >= L \/ x >= Maxlen THEN Junk ELSE fmt.text[x + 1]
      BY <1>1 DEF OutputInv, L
    <2>3. CASE fmt.call.null
      <3>1. fmt'.buffer[x] = fmt.buffer[x] BY <1>2, <2>3 DEF out, _out_null
      <3> QED BY <2>2, <2>3, <3>1
    <2>4. CASE ~fmt.call.null
      <3>1. DOMAIN <<Zero>> = {1} /\ <<Zero>>[1] = Zero OBVIOUS
      <3>2. fmt'.buffer = [y \in B |-> IF y - z + 1 \in DOMAIN <<Zero>> /\ y < Maxlen
                                       THEN <<Zero>>[y - z + 1] ELSE fmt.buffer[y]]
        BY <1>2, <1>3, <2>4 DEF out, _out_buffer
      <3>3. fmt'.buffer[x] = IF x - z + 1 = 1 /\ x < Maxlen THEN Zero ELSE fmt.buffer[x]
        BY <3>1, <3>2
      <3>4. x - z + 1 = 1 <=> x = z BY <1>4, <2>1
      <3>5. CASE x > end
        <4>1. ~(x = z /\ x < Maxlen) BY <1>4, <1>8, <2>1, <3>5
        <4>2. x >= L \/ x >= Maxlen BY <1>3, <1>4, <2>1, <3>5 DEF end
        <4> QED BY <2>2, <2>4, <3>3, <3>4, <3>5, <4>1, <4>2
      <3>6. CASE x = end
        <4>1. x = z /\ x < Maxlen BY <1>4, <1>8, <2>1, <3>6
        <4>2. ~(x > end) BY <2>1, <3>6
        <4> QED BY <2>4, <3>3, <3>4, <3>6, <4>1, <4>2
      <3>7. CASE x < end
        <4>1. ~(x = z /\ x < Maxlen) /\ ~(x >= L) /\ ~(x >= Maxlen) /\ ~(x > end) /\ ~(x = end)
          BY <1>3, <1>4, <1>8, <2>1, <3>7
        <4> QED BY <2>2, <2>4, <3>3, <3>4, <4>1
      <3> QED BY <1>8, <2>1, <3>5, <3>6, <3>7
    <2> QED BY <1>3, <2>3, <2>4
  <1>10. Maxlen' = Maxlen BY <1>2 DEF Maxlen
  <1>11. FormatTruncates'
    <2>1. Len(fmt'.text) = L /\ (L < 2 ^ (INT_BITS - 1) => fmt'.ret = L) BY <1>2, <1>3, AsSigned DEF L
    <2>2. \A i \in DOMAIN fmt'.buffer :
             fmt'.buffer[i] = CASE fmt'.call.null \/ i > end -> Junk
                                [] ~fmt'.call.null /\ i = end -> Zero
                                [] OTHER -> fmt'.text[i + 1]
      BY <1>2, <1>5, <1>9, Zenon
    <2> QED BY <1>2, <1>10, <2>1, <2>2, Zenon DEF FormatTruncates, end
  <1>12. OutputInv' BY <1>2, <1>11 DEF OutputInv
  <1>13. Nearer
    <2>1. Stage' < Stage BY <1>1, <1>2, StageIs, NextStageIs
    <2> QED BY <1>2, <1>6, <1>7, <2>1, VariantFalls
  <1> QED BY <1>6, <1>7, <1>12, <1>13

(* One step of a call, and of the libraries. *)
LEMMA CallGoesOn ==
    ASSUME FormatInv, _vsnprintf
    PROVE  FormatInv' /\ Nearer /\ FormatInside'
  <1>1. fmt # NoFormat
    <2>1. fmt.at # "none"
      BY DEF _vsnprintf, Literal, Directive, Flags, Width, WidthDigits, Precision, PrecisionDigits,
             Length, Integer, Character, String, Pointer, Other, Terminate, At
    <2> QED BY <2>1 DEF NoFormat
  <1>2. LocalsInv /\ PointerInv /\ OutputInv BY <1>1 DEF FormatInv
  <1>3. CASE Flags \/ Width \/ WidthDigits \/ Precision \/ PrecisionDigits \/ Length
    <2>1. PICK n \in {0, 1, 2} : Moves(n) BY <1>2, <1>3, ModifierMoves
    <2> QED BY <1>2, <2>1, MovesKeep, NextInside DEF FormatInv
  <1>4. CASE Integer \/ Character \/ String \/ Pointer \/ Other
    BY <1>2, <1>4, SpecifierKeeps, NextInside DEF FormatInv
  <1>5. CASE Literal BY <1>2, <1>5, LiteralKeeps, NextInside DEF FormatInv
  <1>6. CASE Directive BY <1>2, <1>6, DirectiveKeeps, NextInside DEF FormatInv
  <1>7. CASE Terminate BY <1>2, <1>7, TerminateKeeps, NextInside DEF FormatInv
  <1> QED BY <1>3, <1>4, <1>5, <1>6, <1>7, Zenon DEF _vsnprintf

LEMMA FormatGoesOn ==
    ASSUME FormatInv, [Next]_vars
    PROVE  /\ FormatInv'
           /\ [(fmt.at # "none" => Variant' < Variant /\ Variant' >= 0) /\ FormatInside']_fmt
  <1>1. CASE UNCHANGED fmt
    BY <1>1 DEF FormatInv, LocalsInv, PointerInv, OutputInv, FormatTruncates, At, Maxlen
  <1>2. CASE UseFormat
    <2>1. FormatCall /\ fmt.at = "none" BY <1>2 DEF UseFormat, FormatCall, NoFormat
    <2> QED BY <2>1, CallEnters
  <1>3. CASE Formatting
    <2>1. _vsnprintf BY <1>3 DEF Formatting
    <2> QED BY <2>1, CallGoesOn DEF Nearer
  <1>4. UNCHANGED fmt \/ UseFormat \/ Formatting
    BY DEF Next, UseStrings, UseTable, UseStatics, vars
  <1> QED BY <1>1, <1>2, <1>3, <1>4

(* Whatever the format, its arguments and the size of the buffer, what is  *)
(* in the buffer at the end is as much of the text as fits, with a zero    *)
(* behind it; nothing is written behind the size, or without a buffer, and *)
(* the answer is the length of the whole text, when that is an int; the    *)
(* cast of a longer one is not (vsprintf.c:921, vsprintf.c:924,            *)
(* stdio.h:33-41).                                                         *)
THEOREM OutputTruncated == Spec => []FormatTruncates
  <1>1. Init => FormatInv BY FormatInitially
  <1>2. FormatInv /\ [Next]_vars => FormatInv' BY FormatGoesOn
  <1>3. FormatInv => FormatTruncates
    BY DEF FormatInv, OutputInv, FormatTruncates, At, NoFormat
  <1> QED BY <1>1, <1>2, <1>3, PTL DEF Spec

(* Every step of a call takes it nearer to its end, so that no format      *)
(* keeps _vsnprintf in one of its loops, and the format pointer passes the *)
(* terminator only behind a format that ends inside a directive            *)
(* (vsprintf.c:591, vsprintf.c:606, vsprintf.c:913-915).                   *)
THEOREM FormattingEnds == Spec => LoopsEnd
  <1>1. Init => FormatInv BY FormatInitially
  <1>2. FormatInv /\ [Next]_vars => FormatInv' BY FormatGoesOn
  <1>3. FormatInv /\ [Next]_vars
           => [(fmt.at # "none" => Variant' < Variant /\ Variant' >= 0) /\ FormatInside']_fmt
    BY FormatGoesOn
  <1> QED BY <1>1, <1>2, <1>3, PTL DEF Spec, LoopsEnd

-----------------------------------------------------------------------------
(* __cxa_finalize, for every size of the table, every set of destructors   *)
(* and every sequence of calls, out of destructors too.                    *)
(*                                                                         *)
(* FinalizeRight speaks of a call at its end.  While it is under way, an   *)
(* entry it is to destroy is still ahead of its loop, and matches, or was  *)
(* destroyed since the call began: an entry below i is cleared only by an  *)
(* inner call whose destructor for it has returned, and what destructors   *)
(* register comes behind.  For DestroyedOnce, an entry destroyed for a     *)
(* function is cleared or its destructor is still running, and then it is  *)
(* one of those the new call of a destructor is inside of.                 *)

Entries == [f : Destructors \cup {All}, obj : Objects \cup {All}]
Frames == [f : Destructors \cup {All}, i : 0 .. ATEXIT_MAX_FUNCS, n : Nat, since : Nat,
           log : Seq(Table), want : SUBSET Table]
Destructions == [i : Table, f : Destructors \cup {All}, inside : SUBSET Nat]

TableTypes ==
    /\ __atexit_func_count \in 0 .. ATEXIT_MAX_FUNCS /\ __atexit_funcs \in [Table -> Entries]
    /\ fin \in Seq(Frames) /\ destroyed \in Seq(Destructions)

Ahead(fr, j) == j < fr.i /\ Matches(fr.f, __atexit_funcs[j])
LoopInv(fr) ==
    /\ fr.i <= __atexit_func_count /\ fr.since <= Len(destroyed)
    /\ fr.n # 0 => /\ fr.n \in fr.since + 1 .. Len(destroyed)
                   /\ destroyed[fr.n].i = fr.i /\ destroyed[fr.n].f = fr.f
    /\ \A m \in DOMAIN fr.log : fr.log[m] >= fr.i
    /\ LastFirst(fr.log) /\ Range(fr.log) \subseteq fr.want
    /\ \A j \in Table : /\ Ahead(fr, j) => j \in fr.want
                        /\ j \in fr.want => Ahead(fr, j) \/ DestroyedSince(fr.since, j)
StackInv ==
    /\ \A k \in DOMAIN fin : LoopInv(fin[k])
    /\ \A k, l \in DOMAIN fin : k < l => fin[k].n # 0 /\ fin[k].since <= fin[l].since

Running(n) == \E k \in DOMAIN fin : fin[k].n = n
OnceInv ==
    /\ \A n \in DOMAIN destroyed :
          /\ destroyed[n].i < __atexit_func_count
          /\ destroyed[n].f = All \/ __atexit_funcs[destroyed[n].i].f = All \/ Running(n)
    /\ DestroyedOnce

TableInv == TableTypes /\ StackInv /\ OnceInv

LEMMA TypesAre ==
    ASSUME TableTypes
    PROVE  /\ ATEXIT_MAX_FUNCS \in Nat /\ Table \subseteq Nat /\ Table = 0 .. ATEXIT_MAX_FUNCS - 1
           /\ __atexit_func_count \in Nat /\ __atexit_func_count <= ATEXIT_MAX_FUNCS
           /\ Len(fin) \in Nat /\ DOMAIN fin = 1 .. Len(fin)
           /\ Len(destroyed) \in Nat /\ DOMAIN destroyed = 1 .. Len(destroyed)
           /\ \A k \in DOMAIN fin : fin[k] \in Frames
           /\ \A n \in DOMAIN destroyed : destroyed[n] \in Destructions
  <1>1. ATEXIT_MAX_FUNCS \in Nat BY CxxAbiAssumption
  <1>2. fin \in Seq(Frames) /\ destroyed \in Seq(Destructions) BY DEF TableTypes
  <1>3. __atexit_func_count \in 0 .. ATEXIT_MAX_FUNCS BY DEF TableTypes
  <1> QED BY <1>1, <1>2, <1>3 DEF Table

LEMMA FrameIs ==
    ASSUME NEW fr \in Frames
    PROVE  /\ fr.f \in Destructors \cup {All} /\ fr.i \in Nat /\ fr.i <= ATEXIT_MAX_FUNCS
           /\ fr.n \in Nat /\ fr.since \in Nat /\ fr.log \in Seq(Table) /\ fr.want \subseteq Table
  <1>1. ATEXIT_MAX_FUNCS \in Nat BY CxxAbiAssumption
  <1> QED BY <1>1 DEF Frames

(* destroyed only grows. *)
Grows == /\ Len(destroyed') \in Nat /\ Len(destroyed) <= Len(destroyed')
         /\ \A n \in DOMAIN destroyed : destroyed'[n] = destroyed[n]

LEMMA SinceGrows ==
    ASSUME TableTypes, Grows, NEW m \in Nat, NEW j, DestroyedSince(m, j)
    PROVE  DestroyedSince(m, j)'
  <1>1. PICK n \in m + 1 .. Len(destroyed) : destroyed[n].i = j BY DEF DestroyedSince
  <1>2. n \in DOMAIN destroyed /\ n \in m + 1 .. Len(destroyed') BY TypesAre DEF Grows
  <1>3. destroyed'[n].i = j BY <1>1, <1>2 DEF Grows
  <1> QED BY <1>2, <1>3 DEF DestroyedSince

(* A call that takes no part in a step is as right as before. *)
LEMMA LoopStays ==
    ASSUME TableTypes, Grows, NEW fr \in Frames, LoopInv(fr),
           __atexit_func_count' \in Nat, __atexit_func_count <= __atexit_func_count',
           \A j \in Table : j < fr.i =>
               \/ __atexit_funcs'[j].f = __atexit_funcs[j].f
               \/ __atexit_funcs'[j].f = All /\ DestroyedSince(fr.since, j)
    PROVE  LoopInv(fr)'
  <1>1. fr.i \in Nat /\ fr.n \in Nat /\ fr.since \in Nat BY FrameIs
  <1>2. fr.i <= __atexit_func_count' /\ fr.since <= Len(destroyed')
    BY <1>1, TypesAre DEF LoopInv, Grows
  <1>3. ASSUME fr.n # 0
        PROVE  /\ fr.n \in fr.since + 1 .. Len(destroyed')
               /\ destroyed'[fr.n].i = fr.i /\ destroyed'[fr.n].f = fr.f
    <2>1. fr.n \in DOMAIN destroyed /\ fr.n \in fr.since + 1 .. Len(destroyed')
      BY <1>1, <1>3, TypesAre DEF LoopInv, Grows
    <2>2. destroyed'[fr.n] = destroyed[fr.n] BY <2>1 DEF Grows
    <2> QED BY <1>3, <2>1, <2>2 DEF LoopInv
  <1>4. ASSUME NEW j \in Table
        PROVE  /\ Ahead(fr, j)' => j \in fr.want
               /\ j \in fr.want => Ahead(fr, j)' \/ DestroyedSince(fr.since, j)'
    <2>1. Ahead(fr, j) => j \in fr.want BY DEF LoopInv
    <2>2. j \in fr.want => Ahead(fr, j) \/ DestroyedSince(fr.since, j) BY DEF LoopInv
    <2>3. DestroyedSince(fr.since, j) => DestroyedSince(fr.since, j)' BY <1>1, SinceGrows
    <2>4. CASE j < fr.i /\ __atexit_funcs'[j].f # __atexit_funcs[j].f
      <3>1. __atexit_funcs'[j].f = All /\ DestroyedSince(fr.since, j) BY <2>4
      <3>2. ~ Matches(fr.f, __atexit_funcs[j])' BY <3>1 DEF Matches
      <3> QED BY <2>3, <3>1, <3>2 DEF Ahead
    <2>5. CASE ~ (j < fr.i) \/ __atexit_funcs'[j].f = __atexit_funcs[j].f
      <3>1. Ahead(fr, j)' <=> Ahead(fr, j) BY <2>5 DEF Ahead, Matches
      <3> QED BY <2>1, <2>2, <2>3, <3>1
    <2> QED BY <2>4, <2>5
  <1> QED BY <1>2, <1>3, <1>4 DEF LoopInv

LEMMA LoopOf ==
    ASSUME NEW k, NEW fr, fr = fin'[k], LoopInv(fr)'
    PROVE  LoopInv(fin[k])'
  BY DEF LoopInv, Ahead, Matches, DestroyedSince, LastFirst, Range

LEMMA TableInitially == Init => TableInv
  <1> SUFFICES ASSUME Init PROVE TableInv OBVIOUS
  <1>1. /\ __atexit_funcs = [i \in Table |-> [f |-> All, obj |-> All]] /\ __atexit_func_count = 0
        /\ fin = <<>> /\ destroyed = <<>>
    BY DEF Init, CxxInit
  <1>2. ATEXIT_MAX_FUNCS \in Nat \ {0} BY CxxAbiAssumption
  <1>3. TableTypes BY <1>1, <1>2 DEF TableTypes, Entries
  <1>4. DOMAIN fin = {} /\ DOMAIN destroyed = {} BY <1>1
  <1> QED BY <1>3, <1>4 DEF TableInv, StackInv, OnceInv, DestroyedOnce

LEMMA RegisterKeeps ==
    ASSUME TableInv, NEW f \in Destructors, NEW obj \in Objects, __aeabi_atexit(f, obj)
    PROVE  TableInv'
  <1> DEFINE c == __atexit_func_count
  <1>1. fin' = fin /\ destroyed' = destroyed BY DEF __aeabi_atexit
  <1>2. CASE UNCHANGED <<__atexit_funcs, __atexit_func_count>>
    BY <1>1, <1>2 DEF TableInv, TableTypes, StackInv, LoopInv, Ahead, Matches, DestroyedSince,
                      OnceInv, Running, DestroyedOnce
  <1>3. CASE /\ ~(c >= ATEXIT_MAX_FUNCS) /\ c' = c + 1
             /\ __atexit_funcs' = [__atexit_funcs EXCEPT ![c] = [f |-> f, obj |-> obj]]
    <2>1. TableTypes BY DEF TableInv
    <2>2. /\ ATEXIT_MAX_FUNCS \in Nat /\ c \in Nat /\ c \in Table /\ c < ATEXIT_MAX_FUNCS
          /\ DOMAIN destroyed = 1 .. Len(destroyed) /\ Len(destroyed) \in Nat /\ Table \subseteq Nat
      BY <1>3, <2>1, TypesAre
    <2>3. [f |-> f, obj |-> obj] \in Entries BY DEF Entries
    <2>4. /\ __atexit_funcs' \in [Table -> Entries]
          /\ \A j \in Table : j # c => __atexit_funcs'[j] = __atexit_funcs[j]
      BY <1>3, <2>1, <2>2, <2>3 DEF TableTypes
    <2>5. TableTypes' BY <1>1, <1>3, <2>1, <2>2, <2>4 DEF TableTypes
    <2>6. Grows BY <1>1, <2>2 DEF Grows
    <2>7. ASSUME NEW k \in DOMAIN fin PROVE LoopInv(fin[k])'
      <3> DEFINE fr == fin[k]
      <3>1. fr \in Frames BY <2>1, TypesAre
      <3>2. LoopInv(fr) BY DEF TableInv, StackInv
      <3>3. fr.i <= c /\ fr.i \in Nat BY <3>1, <3>2, FrameIs DEF LoopInv
      <3>4. ASSUME NEW j \in Table, j < fr.i PROVE __atexit_funcs'[j].f = __atexit_funcs[j].f
        <4>1. j \in Nat BY <2>2
        <4>2. j # c BY <2>2, <3>3, <3>4, <4>1
        <4> QED BY <2>4, <4>2
      <3>5. fin'[k] = fr BY <1>1
      <3>6. c' \in Nat /\ c <= c' BY <1>3, <2>2
      <3>7. PICK x : x = fr OBVIOUS
      <3> HIDE DEF fr
      <3>8. LoopInv(x)' BY <2>1, <2>6, <3>1, <3>2, <3>4, <3>6, <3>7, LoopStays
      <3> QED BY <3>5, <3>7, <3>8, LoopOf
    <2>8. StackInv' BY <1>1, <2>7 DEF TableInv, StackInv
    <2>9. OnceInv'
      <3>1. ASSUME NEW n \in DOMAIN destroyed
            PROVE  /\ destroyed[n].i < c'
                   /\ destroyed[n].f = All \/ __atexit_funcs'[destroyed[n].i].f = All \/ Running(n)
        <4>1. PICK j \in Table : j = destroyed[n].i BY <2>1, TypesAre DEF Destructions
        <4>2. j < c /\ j \in Nat BY <2>2, <4>1 DEF TableInv, OnceInv
        <4>3. j # c /\ j < c' BY <1>3, <2>2, <4>2
        <4>4. __atexit_funcs'[j] = __atexit_funcs[j] BY <2>4, <4>3
        <4> QED BY <4>1, <4>3, <4>4 DEF TableInv, OnceInv
      <3> QED BY <1>1, <3>1 DEF TableInv, OnceInv, Running, DestroyedOnce
    <2> QED BY <2>5, <2>8, <2>9 DEF TableInv
  <1> QED BY <1>2, <1>3 DEF __aeabi_atexit

(* A call begins: outside of the others, or in the destructor that the     *)
(* innermost one runs.                                                     *)
LEMMA FinalizeKeeps ==
    ASSUME TableInv, NEW f \in Destructors \cup {All}, __cxa_finalize(f)
    PROVE  TableInv'
  <1> DEFINE c == __atexit_func_count
             L == Len(fin)
  <1>1. /\ Calling /\ fin' = Append(fin, Frame(f))
        /\ UNCHANGED <<__atexit_funcs, __atexit_func_count, destroyed>>
    BY DEF __cxa_finalize
  <1>2. TableTypes BY DEF TableInv
  <1>3. /\ ATEXIT_MAX_FUNCS \in Nat /\ c \in Nat /\ c <= ATEXIT_MAX_FUNCS /\ L \in Nat /\ DOMAIN fin = 1 .. L
        /\ Table = 0 .. ATEXIT_MAX_FUNCS - 1 /\ Len(destroyed) \in Nat /\ DOMAIN destroyed = 1 .. Len(destroyed)
    BY <1>2, TypesAre
  <1>4. PICK new : new = Frame(f) OBVIOUS
  <1>5. /\ new.f = f /\ new.i = c /\ new.n = 0 /\ new.since = Len(destroyed) /\ new.log = <<>>
        /\ new.want = Alive(f)
    BY <1>4 DEF Frame
  <1>6. new \in Frames
    <2>1. Alive(f) \subseteq Table BY <1>3 DEF Alive
    <2>2. <<>> \in Seq(Table) /\ 0 \in Nat OBVIOUS
    <2> QED BY <1>3, <1>4, <2>1, <2>2 DEF Frame, Frames
  <1>7. /\ fin' \in Seq(Frames) /\ Len(fin') = L + 1 /\ DOMAIN fin' = 1 .. L + 1 /\ fin'[L + 1] = new
        /\ \A k \in 1 .. L : fin'[k] = fin[k]
    <2>1. fin \in Seq(Frames) BY <1>2 DEF TableTypes
    <2> QED BY <1>1, <1>4, <1>6, <2>1
  <1>8. TableTypes' BY <1>1, <1>2, <1>7 DEF TableTypes
  <1>9. Grows BY <1>1, <1>3 DEF Grows
  <1>10. ASSUME NEW k \in DOMAIN fin' PROVE LoopInv(fin[k])'
    <2>1. CASE k \in 1 .. L
      <3>1. PICK fr : fr = fin[k] OBVIOUS
      <3>2. fr \in Frames /\ LoopInv(fr) BY <1>2, <1>3, <2>1, <3>1, TypesAre DEF TableInv, StackInv
      <3>3. LoopInv(fr)' BY <1>1, <1>2, <1>3, <1>9, <3>2, LoopStays
      <3> QED BY <1>7, <2>1, <3>1, <3>3, LoopOf
    <2>2. CASE k = L + 1
      <3>1. ASSUME NEW j \in Table
            PROVE  j \in new.want <=> Ahead(new, j)'
        <4>1. j \in Alive(f) <=> /\ j \in 0 .. c - 1 /\ __atexit_funcs[j].f # All
                                 /\ f \in {All, __atexit_funcs[j].f}
          BY DEF Alive
        <4>2. j \in 0 .. c - 1 <=> j < c BY <1>3
        <4>3. Ahead(new, j)' <=> j < c /\ (IF f = All THEN __atexit_funcs[j].f # All ELSE __atexit_funcs[j].f = f)
          BY <1>1, <1>5 DEF Ahead, Matches
        <4> QED BY <1>5, <4>1, <4>2, <4>3
      <3>2. new.i <= __atexit_func_count' /\ new.since <= Len(destroyed') BY <1>1, <1>3, <1>5
      <3>3. DOMAIN new.log = {} /\ LastFirst(new.log) /\ Range(new.log) = {}
        BY <1>5 DEF LastFirst, Range
      <3>4. LoopInv(new)' BY <1>5, <3>1, <3>2, <3>3 DEF LoopInv
      <3> QED BY <1>7, <2>2, <3>4, LoopOf
    <2> QED BY <1>3, <1>7, <2>1, <2>2
  <1>11. ASSUME NEW k \in DOMAIN fin', NEW l \in DOMAIN fin', k < l
         PROVE  fin'[k].n # 0 /\ fin'[k].since <= fin'[l].since
    <2>1. k \in 1 .. L /\ fin'[k] = fin[k] BY <1>3, <1>7, <1>11
    <2>2. CASE l \in 1 .. L
      <3>1. fin'[l] = fin[l] BY <1>7, <2>2
      <3> QED BY <1>3, <1>11, <2>1, <2>2, <3>1 DEF TableInv, StackInv
    <2>3. CASE l = L + 1
      <3>1. fin[k].n # 0
        <4>1. CASE k = L
          <5>1. fin # <<>> BY <1>3, <2>1
          <5> QED BY <1>1, <4>1, <5>1 DEF Calling, Top
        <4>2. CASE k # L
          <5>1. L \in 1 .. L /\ k < L BY <1>3, <2>1, <4>2
          <5> QED BY <1>3, <2>1, <5>1 DEF TableInv, StackInv
        <4> QED BY <4>1, <4>2
      <3>2. fin[k].since <= Len(destroyed) BY <1>3, <2>1 DEF TableInv, StackInv, LoopInv
      <3> QED BY <1>5, <1>7, <2>1, <2>3, <3>1, <3>2
    <2> QED BY <1>3, <1>7, <2>2, <2>3
  <1>12. StackInv' BY <1>10, <1>11 DEF StackInv
  <1>13. OnceInv'
    <2>1. ASSUME NEW n, Running(n) PROVE Running(n)'
      <3>1. PICK k \in DOMAIN fin : fin[k].n = n BY <2>1 DEF Running
      <3>2. k \in DOMAIN fin' /\ fin'[k].n = n BY <1>3, <1>7, <3>1
      <3> QED BY <3>2 DEF Running
    <2>2. ASSUME NEW n \in DOMAIN destroyed'
          PROVE  /\ destroyed'[n].i < __atexit_func_count'
                 /\ destroyed'[n].f = All \/ __atexit_funcs'[destroyed'[n].i].f = All \/ Running(n)'
      BY <1>1, <2>1 DEF TableInv, OnceInv
    <2>3. DestroyedOnce' BY <1>1 DEF TableInv, OnceInv, DestroyedOnce
    <2> QED BY <2>2, <2>3 DEF OnceInv
  <1> QED BY <1>8, <1>12, <1>13 DEF TableInv

(* What holds when the innermost call is about to go on with its loop, or  *)
(* with what follows the call of a destructor.                             *)
LEMMA TopIs ==
    ASSUME TableInv, fin # <<>>
    PROVE  /\ Len(fin) \in DOMAIN fin /\ Top \in Frames /\ LoopInv(Top)
           /\ \A k \in DOMAIN fin : k # Len(fin) => fin[k].n # 0 /\ fin[k].since <= Top.since
  <1>1. TableTypes BY DEF TableInv
  <1>2. fin \in Seq(Frames) /\ DOMAIN fin = 1 .. Len(fin) /\ Len(fin) \in Nat BY <1>1, TypesAre DEF TableTypes
  <1>3. Len(fin) \in DOMAIN fin BY <1>2
  <1>4. \A k \in DOMAIN fin : k # Len(fin) => k < Len(fin) BY <1>2
  <1>5. Top = fin[Len(fin)] BY DEF Top
  <1>6. LoopInv(Top) BY <1>3 DEF TableInv, StackInv, LoopInv, Ahead, Matches, DestroyedSince, LastFirst, Range, Top
  <1> QED BY <1>1, <1>3, <1>4, <1>5, <1>6, TypesAre DEF TableInv, StackInv

(* The frame of the innermost call becomes u, the others stay. *)
LEMMA TopChanges ==
    ASSUME TableInv, fin # <<>>, TableTypes', NEW u \in Frames, LoopInv(u)', u.since = Top.since,
           fin' = [fin EXCEPT ![Len(fin)] = u],
           \A k \in DOMAIN fin : k # Len(fin) => LoopInv(fin[k])'
    PROVE  StackInv'
  <1> DEFINE L == Len(fin)
  <1>1. TableTypes BY DEF TableInv
  <1>2. L \in Nat /\ DOMAIN fin = 1 .. L /\ L \in DOMAIN fin BY <1>1, TopIs, TypesAre
  <1>3. DOMAIN fin' = 1 .. L /\ fin'[L] = u /\ \A k \in 1 .. L : k # L => fin'[k] = fin[k] BY <1>2
  <1>4. \A k \in DOMAIN fin' : LoopInv(fin[k])'
    <2> SUFFICES ASSUME NEW k \in DOMAIN fin' PROVE LoopInv(fin[k])' OBVIOUS
    <2>1. CASE k = L
      <3>1. u = fin'[k] BY <1>3, <2>1
      <3> QED BY <3>1, LoopOf
    <2>2. CASE k # L BY <1>2, <1>3, <2>2
    <2> QED BY <2>1, <2>2
  <1>5. ASSUME NEW k \in DOMAIN fin', NEW l \in DOMAIN fin', k < l
        PROVE  fin'[k].n # 0 /\ fin'[k].since <= fin'[l].since
    <2>0. k \in 1 .. L /\ l \in 1 .. L BY <1>3
    <2>1. k # L BY <1>2, <1>5, <2>0
    <2>3. fin'[k] = fin[k] BY <1>3, <2>0, <2>1
    <2>2. fin'[l].since = fin[l].since BY <1>2, <1>3 DEF Top
    <2> QED BY <1>2, <1>5, <2>0, <2>2, <2>3 DEF TableInv, StackInv
  <1> QED BY <1>4, <1>5 DEF StackInv

LEMMA SkipKeeps ==
    ASSUME TableInv, fin # <<>>, Top.n = 0, Top.i > 0, ~Matches(Top.f, __atexit_funcs[Top.i - 1]),
           fin' = [fin EXCEPT ![Len(fin)].i = Top.i - 1],
           UNCHANGED <<__atexit_funcs, __atexit_func_count, destroyed>>
    PROVE  TableInv'
  <1>1. TableTypes BY DEF TableInv
  <1> DEFINE i == Top.i - 1
             L == Len(fin)
  <1>2. /\ Top \in Frames /\ LoopInv(Top) /\ L \in DOMAIN fin
        /\ Top.i \in Nat /\ Top.i <= ATEXIT_MAX_FUNCS /\ ATEXIT_MAX_FUNCS \in Nat /\ Table \subseteq Nat
    BY <1>1, TopIs, FrameIs, TypesAre
  <1>3. i \in Nat /\ i < Top.i /\ i \in 0 .. ATEXIT_MAX_FUNCS BY <1>2
  <1>4. PICK u : u = [Top EXCEPT !.i = i] OBVIOUS
  <1>5. u \in Frames BY <1>2, <1>3, <1>4 DEF Frames
  <1>6. /\ u.i = i /\ u.f = Top.f /\ u.n = 0 /\ u.since = Top.since /\ u.log = Top.log /\ u.want = Top.want
    BY <1>2, <1>4 DEF Frames
  <1>7. fin' = [fin EXCEPT ![L] = u] BY <1>4 DEF Top
  <1>8. TableTypes'
    <2>1. fin \in Seq(Frames) BY <1>1 DEF TableTypes
    <2>2. [fin EXCEPT ![L] = u] \in Seq(Frames) BY <1>2, <1>5, <2>1
    <2>3. fin' \in Seq(Frames) BY <1>7, <2>2, Zenon
    <2> QED BY <1>1, <2>3 DEF TableTypes
  <1>9. Grows BY <1>1, TypesAre DEF Grows
  <1>10. LoopInv(u)
    <2>1. \A m \in DOMAIN u.log : u.log[m] >= u.i
      <3>1. Top.log \in Seq(Table) BY <1>2, FrameIs
      <3>2. \A m \in DOMAIN Top.log : Top.log[m] \in Nat /\ Top.log[m] >= Top.i BY <1>2, <3>1 DEF LoopInv
      <3> QED BY <1>2, <1>3, <1>6, <3>2
    <2>2. ASSUME NEW j \in Table
          PROVE  /\ Ahead(u, j) => j \in u.want
                 /\ j \in u.want => Ahead(u, j) \/ DestroyedSince(u.since, j)
      <3>1. j \in Nat BY <1>2
      <3>2. Ahead(u, j) <=> Ahead(Top, j)
        <4>1. j < u.i <=> j < Top.i /\ j # i BY <1>2, <1>3, <1>6, <3>1
        <4> QED BY <1>6, <4>1 DEF Ahead
      <3>3. /\ Ahead(Top, j) => j \in Top.want
            /\ j \in Top.want => Ahead(Top, j) \/ DestroyedSince(Top.since, j)
        BY <1>2 DEF LoopInv
      <3> QED BY <1>6, <3>2, <3>3 DEF DestroyedSince
    <2>3. u.i <= __atexit_func_count /\ u.since <= Len(destroyed)
      BY <1>1, <1>2, <1>3, <1>6, TypesAre DEF LoopInv
    <2> QED BY <1>2, <1>6, <2>1, <2>2, <2>3 DEF LoopInv
  <1>11. __atexit_func_count' \in Nat /\ __atexit_func_count <= __atexit_func_count' BY <1>1, TypesAre
  <1>12. LoopInv(u)' BY <1>1, <1>5, <1>9, <1>10, <1>11, LoopStays
  <1>13. ASSUME NEW k \in DOMAIN fin, k # L PROVE LoopInv(fin[k])'
    <2>1. PICK fr : fr = fin[k] OBVIOUS
    <2>2. fr \in Frames /\ LoopInv(fr) BY <1>1, <2>1, TypesAre DEF TableInv, StackInv
    <2>3. LoopInv(fr)' BY <1>1, <1>9, <1>11, <2>2, LoopStays
    <2>4. fin'[k] = fr BY <1>7, <1>13, <2>1
    <2> QED BY <2>3, <2>4, LoopOf
  <1>14. StackInv' BY <1>5, <1>6, <1>7, <1>8, <1>12, <1>13, TopChanges
  <1>15. OnceInv'
    <2>1. \A k \in DOMAIN fin : k \in DOMAIN fin' /\ fin'[k].n = fin[k].n BY <1>2, <1>6, <1>7 DEF Top
    <2>2. \A n : Running(n) => Running(n)' BY <2>1 DEF Running
    <2>3. \A n \in DOMAIN destroyed' :
             /\ destroyed'[n].i < __atexit_func_count'
             /\ destroyed'[n].f = All \/ __atexit_funcs'[destroyed'[n].i].f = All \/ Running(n)'
      BY <2>2 DEF TableInv, OnceInv
    <2>4. DestroyedOnce' BY DEF TableInv, OnceInv, DestroyedOnce
    <2> QED BY <2>3, <2>4 DEF OnceInv
  <1> QED BY <1>8, <1>14, <1>15 DEF TableInv

LEMMA LogAppended ==
    ASSUME NEW S, NEW s \in Seq(S), NEW e \in S
    PROVE  /\ DOMAIN Append(s, e) = 1 .. Len(s) + 1 /\ DOMAIN s = 1 .. Len(s) /\ Len(s) \in Nat
           /\ Append(s, e)[Len(s) + 1] = e /\ \A m \in DOMAIN s : Append(s, e)[m] = s[m]
  OBVIOUS

LEMMA CallKeeps ==
    ASSUME TableInv, fin # <<>>, Top.n = 0, Top.i > 0, Matches(Top.f, __atexit_funcs[Top.i - 1]),
           fin' = [fin EXCEPT ![Len(fin)] =
                      [Top EXCEPT !.i = Top.i - 1, !.n = Len(destroyed) + 1, !.log = Append(@, Top.i - 1)]],
           destroyed' = Append(destroyed, Destruction(Top.i - 1)),
           UNCHANGED <<__atexit_funcs, __atexit_func_count>>
    PROVE  TableInv'
  <1>1. TableTypes BY DEF TableInv
  <1> DEFINE i == Top.i - 1
             L == Len(fin)
             N == Len(destroyed) + 1
             d == Destruction(i)
  <1>2. /\ Top \in Frames /\ LoopInv(Top) /\ L \in DOMAIN fin /\ DOMAIN fin = 1 .. L /\ L \in Nat
        /\ Top.f \in Destructors \cup {All} /\ Top.since \in Nat /\ Top.log \in Seq(Table)
        /\ Top.want \subseteq Table
        /\ Top.i \in Nat /\ Top.i <= ATEXIT_MAX_FUNCS /\ ATEXIT_MAX_FUNCS \in Nat
        /\ Table \subseteq Nat /\ Table = 0 .. ATEXIT_MAX_FUNCS - 1 /\ __atexit_func_count \in Nat
        /\ Len(destroyed) \in Nat /\ DOMAIN destroyed = 1 .. Len(destroyed)
    BY <1>1, TopIs, FrameIs, TypesAre
  <1>3. i \in Nat /\ i < Top.i /\ i \in 0 .. ATEXIT_MAX_FUNCS /\ i \in Table /\ N \in Nat /\ N > 0 BY <1>2
  <1>4. d \in Destructions /\ d.i = i /\ d.f = Top.f /\ d.inside = {fin[k].n : k \in 1 .. L - 1}
    <2>1. \A k \in 1 .. L - 1 : fin[k].n \in Nat
      <3>1. \A k \in 1 .. L - 1 : k \in DOMAIN fin BY <1>2
      <3> QED BY <1>1, <3>1, TypesAre, FrameIs
    <2>2. {fin[k].n : k \in 1 .. L - 1} \in SUBSET Nat BY <2>1
    <2> QED BY <1>2, <1>3, <2>2 DEF Destruction, Destructions
  <1>5. /\ destroyed' \in Seq(Destructions) /\ Len(destroyed') = N /\ DOMAIN destroyed' = 1 .. N
        /\ destroyed'[N] = d /\ \A n \in DOMAIN destroyed : destroyed'[n] = destroyed[n]
    <2>1. destroyed \in Seq(Destructions) BY <1>1 DEF TableTypes
    <2> HIDE DEF d
    <2>2. destroyed' = Append(destroyed, d) BY DEF d
    <2> QED BY <1>2, <1>4, <2>1, <2>2
  <1> HIDE DEF d
  <1>6. PICK u : u = [Top EXCEPT !.i = i, !.n = N, !.log = Append(@, i)] OBVIOUS
  <1>7. Append(Top.log, i) \in Seq(Table) BY <1>2, <1>3
  <1>8. u \in Frames
    <2>1. Top \in Frames BY <1>2
    <2>2. i \in 0 .. ATEXIT_MAX_FUNCS /\ N \in Nat BY <1>3
    <2> HIDE DEF i, N
    <2> QED BY <1>6, <1>7, <2>1, <2>2 DEF Frames
  <1>9. /\ u.i = i /\ u.f = Top.f /\ u.n = N /\ u.since = Top.since /\ u.log = Append(Top.log, i)
        /\ u.want = Top.want
    BY <1>2, <1>6 DEF Frames
  <1>10. fin' = [fin EXCEPT ![L] = u] BY <1>6, Zenon
  <1>11. TableTypes'
    <2>1. fin' \in Seq(Frames) BY <1>1, <1>2, <1>8, <1>10 DEF TableTypes
    <2> QED BY <1>1, <1>5, <2>1 DEF TableTypes
  <1>12. Grows BY <1>2, <1>5 DEF Grows
  <1>13. LoopInv(u)'
    <2>1. u.i <= __atexit_func_count' /\ u.since <= Len(destroyed')
      BY <1>2, <1>3, <1>5, <1>9 DEF LoopInv
    <2>2. u.n \in u.since + 1 .. Len(destroyed') /\ destroyed'[u.n].i = u.i /\ destroyed'[u.n].f = u.f
      <3>1. Top.since <= Len(destroyed) BY <1>2 DEF LoopInv
      <3> QED BY <1>2, <1>3, <1>4, <1>5, <1>9, <3>1
    <2>3. /\ DOMAIN u.log = 1 .. Len(Top.log) + 1 /\ DOMAIN Top.log = 1 .. Len(Top.log) /\ Len(Top.log) \in Nat
          /\ u.log[Len(Top.log) + 1] = i /\ \A m \in DOMAIN Top.log : u.log[m] = Top.log[m]
      <3>1. Top.log \in Seq(Table) BY <1>2
      <3>2. i \in Table BY <1>3
      <3>3. u.log = Append(Top.log, i) BY <1>9
      <3> HIDE DEF i
      <3> QED BY <3>1, <3>2, <3>3, LogAppended
    <2>4. \A m \in DOMAIN Top.log : Top.log[m] \in Nat /\ Top.log[m] >= Top.i
      <3>1. \A m \in DOMAIN Top.log : Top.log[m] >= Top.i BY <1>2, Zenon DEF LoopInv
      <3>2. Top.log \in Seq(Table) /\ Table \subseteq Nat BY <1>2, Zenon
      <3>3. \A m \in DOMAIN Top.log : Top.log[m] \in Nat BY <3>2
      <3> QED BY <3>1, <3>3, Zenon
    <2>5. ASSUME NEW m \in DOMAIN u.log PROVE u.log[m] >= u.i
      <3>1. CASE m \in DOMAIN Top.log
        <4>1. u.log[m] = Top.log[m] BY <2>3, <3>1
        <4>2. Top.log[m] \in Nat /\ Top.log[m] >= Top.i BY <2>4, <3>1
        <4>3. u.i = i /\ i \in Nat /\ i < Top.i /\ Top.i \in Nat BY <1>2, <1>3, <1>9
        <4> HIDE DEF i
        <4> QED BY <4>1, <4>2, <4>3
      <3>2. CASE m = Len(Top.log) + 1
        <4>1. u.log[m] = u.i BY <1>9, <2>3, <3>2
        <4> QED BY <1>3, <1>9, <4>1
      <3> QED BY <2>3, <3>1, <3>2
    <2>6. LastFirst(u.log)
      <3> SUFFICES ASSUME NEW m \in DOMAIN u.log, NEW n \in DOMAIN u.log, m < n
                   PROVE  u.log[m] > u.log[n]
        BY DEF LastFirst
      <3>1. m \in DOMAIN Top.log BY <2>3
      <3>2. CASE n \in DOMAIN Top.log
        <4>1. Top.log[m] > Top.log[n] BY <1>2, <3>1, <3>2 DEF LoopInv, LastFirst
        <4> QED BY <2>3, <3>1, <3>2, <4>1
      <3>3. CASE n = Len(Top.log) + 1
        <4>1. u.log[n] = i /\ u.log[m] = Top.log[m] BY <2>3, <3>1, <3>3
        <4> QED BY <1>2, <1>3, <2>4, <3>1, <4>1
      <3> QED BY <2>3, <3>2, <3>3
    <2>7. i \in Top.want
      <3>1. Ahead(Top, i) BY <1>3 DEF Ahead
      <3> QED BY <1>2, <1>3, <3>1 DEF LoopInv
    <2>8. Range(u.log) \subseteq u.want
      <3> SUFFICES ASSUME NEW m \in DOMAIN u.log PROVE u.log[m] \in u.want BY DEF Range
      <3>1. CASE m \in DOMAIN Top.log
        <4>1. Top.log[m] \in Top.want BY <1>2, <3>1 DEF LoopInv, Range
        <4> QED BY <1>9, <2>3, <3>1, <4>1
      <3>2. CASE m = Len(Top.log) + 1
        <4>1. u.log[m] = i BY <2>3, <3>2
        <4> QED BY <1>9, <2>7, <4>1
      <3> QED BY <2>3, <3>1, <3>2
    <2>9. ASSUME NEW j \in Table
          PROVE  /\ Ahead(u, j)' => j \in u.want
                 /\ j \in u.want => Ahead(u, j)' \/ DestroyedSince(u.since, j)'
      <3>1. j \in Nat BY <1>2
      <3>2. Ahead(u, j)' <=> Ahead(Top, j) /\ j # i
        <4>1. j < i <=> j < Top.i /\ j # i BY <1>2, <1>3, <3>1
        <4> QED BY <1>9, <4>1 DEF Ahead, Matches
      <3>3. /\ Ahead(Top, j) => j \in Top.want
            /\ j \in Top.want => Ahead(Top, j) \/ DestroyedSince(Top.since, j)
        BY <1>2 DEF LoopInv
      <3>4. DestroyedSince(Top.since, j) => DestroyedSince(u.since, j)'
        <4>1. PICK s : s = Top.since OBVIOUS
        <4>2. DestroyedSince(s, j) => DestroyedSince(s, j)' BY <1>1, <1>2, <1>12, <4>1, SinceGrows
        <4> QED BY <1>9, <4>1, <4>2 DEF DestroyedSince
      <3>5. j = i => DestroyedSince(u.since, j)'
        <4>1. N \in u.since + 1 .. Len(destroyed') /\ destroyed'[N].i = i BY <1>4, <1>5, <1>9, <2>2
        <4> QED BY <4>1 DEF DestroyedSince
      <3> QED BY <1>9, <3>2, <3>3, <3>4, <3>5
    <2> QED BY <2>1, <2>2, <2>5, <2>6, <2>8, <2>9 DEF LoopInv
  <1>14. ASSUME NEW k \in DOMAIN fin, k # L PROVE LoopInv(fin[k])'
    <2>1. PICK fr : fr = fin[k] OBVIOUS
    <2>2. fr \in Frames /\ LoopInv(fr) BY <1>1, <2>1, TypesAre DEF TableInv, StackInv
    <2>3. LoopInv(fr)' BY <1>1, <1>2, <1>12, <2>2, LoopStays
    <2>4. fin'[k] = fr BY <1>10, <1>14, <2>1
    <2> QED BY <2>3, <2>4, LoopOf
  <1>15. StackInv' BY <1>8, <1>9, <1>10, <1>11, <1>13, <1>14, TopChanges
  <1>16. ASSUME NEW n \in DOMAIN destroyed, Running(n)
         PROVE  Running(n)' /\ n \in d.inside
    <2>1. PICK k \in DOMAIN fin : fin[k].n = n BY <1>16 DEF Running
    <2>2. k # L BY <1>2, <2>1 DEF Top
    <2>3. k \in DOMAIN fin' /\ fin'[k] = fin[k] BY <1>10, <2>1, <2>2
    <2>4. k \in 1 .. L - 1 BY <1>2, <2>1, <2>2
    <2> QED BY <1>4, <2>1, <2>3, <2>4 DEF Running
  <1>17. OnceInv'
    <2>1. ASSUME NEW n \in DOMAIN destroyed
          PROVE  /\ destroyed'[n].i < __atexit_func_count'
                 /\ destroyed'[n].f = All \/ __atexit_funcs'[destroyed'[n].i].f = All \/ Running(n)'
      BY <1>5, <1>16 DEF TableInv, OnceInv
    <2>2. /\ destroyed'[N].i < __atexit_func_count'
          /\ \E k \in DOMAIN fin' : fin'[k].n = N
      <3>1. Top.i <= __atexit_func_count BY <1>2 DEF LoopInv
      <3>2. L \in DOMAIN fin' /\ fin'[L].n = N BY <1>2, <1>9, <1>10
      <3>3. i < __atexit_func_count BY <1>2, <1>3, <3>1
      <3>4. destroyed'[N].i < __atexit_func_count' BY <1>4, <1>5, <3>3
      <3> QED BY <3>2, <3>4
    <2>3. ASSUME NEW m \in DOMAIN destroyed', NEW n \in DOMAIN destroyed', m < n,
                 destroyed'[m].i = destroyed'[n].i
          PROVE  destroyed'[m].f = All \/ m \in destroyed'[n].inside
      <3>1. m \in DOMAIN destroyed /\ destroyed'[m] = destroyed[m] BY <1>2, <1>3, <1>5, <2>3
      <3>2. CASE n \in DOMAIN destroyed
        <4>1. destroyed'[n] = destroyed[n] BY <1>5, <3>2
        <4> QED BY <2>3, <3>1, <3>2, <4>1 DEF TableInv, OnceInv, DestroyedOnce
      <3>3. CASE n = N
        <4>1. destroyed[m].i = i /\ destroyed'[n] = d BY <1>4, <1>5, <2>3, <3>1, <3>3
        <4>2. __atexit_funcs[i].f # All
          <5>1. CASE Top.f = All BY <5>1 DEF Matches
          <5>2. CASE Top.f # All BY <5>2 DEF Matches
          <5> QED BY <5>1, <5>2
        <4>3. destroyed[m].f = All \/ Running(m) BY <3>1, <4>1, <4>2 DEF TableInv, OnceInv
        <4> QED BY <1>16, <3>1, <4>1, <4>3
      <3> QED BY <1>2, <1>5, <3>2, <3>3
    <2>4. DestroyedOnce' BY <2>3 DEF DestroyedOnce
    <2>5. \A n \in DOMAIN destroyed' : n \in DOMAIN destroyed \/ n = N BY <1>2, <1>5
    <2>6. ASSUME NEW n \in DOMAIN destroyed'
          PROVE  /\ destroyed'[n].i < __atexit_func_count'
                 /\ destroyed'[n].f = All \/ __atexit_funcs'[destroyed'[n].i].f = All \/ Running(n)'
      <3>1. CASE n \in DOMAIN destroyed BY <2>1, <3>1
      <3>2. CASE n = N
        <4>1. Running(n)' BY <2>2, <3>2 DEF Running
        <4> QED BY <2>2, <3>2, <4>1
      <3> QED BY <2>5, <3>1, <3>2
    <2> QED BY <2>4, <2>6 DEF OnceInv
  <1> QED BY <1>11, <1>15, <1>17 DEF TableInv

LEMMA FinalizeEntryKeeps ==
    ASSUME TableInv, FinalizeEntry
    PROVE  TableInv'
  <1>1. /\ fin # <<>> /\ Top.n = 0 /\ Top.i > 0 /\ UNCHANGED <<__atexit_funcs, __atexit_func_count>>
        /\ \/ /\ Matches(Top.f, __atexit_funcs[Top.i - 1])
              /\ fin' = [fin EXCEPT ![Len(fin)] =
                            [Top EXCEPT !.i = Top.i - 1, !.n = Len(destroyed) + 1, !.log = Append(@, Top.i - 1)]]
              /\ destroyed' = Append(destroyed, Destruction(Top.i - 1))
           \/ /\ ~Matches(Top.f, __atexit_funcs[Top.i - 1])
              /\ fin' = [fin EXCEPT ![Len(fin)].i = Top.i - 1] /\ UNCHANGED destroyed
    BY DEF FinalizeEntry
  <1>2. CASE Matches(Top.f, __atexit_funcs[Top.i - 1]) BY <1>1, <1>2, CallKeeps
  <1>3. CASE ~Matches(Top.f, __atexit_funcs[Top.i - 1]) BY <1>1, <1>3, SkipKeeps
  <1> QED BY <1>2, <1>3

LEMMA DestructorReturnsKeeps ==
    ASSUME TableInv, DestructorReturns
    PROVE  TableInv'
  <1>1. TableTypes BY DEF TableInv
  <1> DEFINE L == Len(fin)
  <1>2. /\ fin # <<>> /\ Top.n # 0 /\ __atexit_funcs' = Kept(Top.i) /\ fin' = [fin EXCEPT ![L].n = 0]
        /\ UNCHANGED <<__atexit_func_count, destroyed>>
    BY DEF DestructorReturns
  <1>3. /\ Top \in Frames /\ LoopInv(Top) /\ L \in DOMAIN fin
        /\ Top.i \in Nat /\ Top.n \in Nat /\ Top.since \in Nat /\ Table \subseteq Nat
        /\ \A k \in DOMAIN fin : k # L => fin[k].since <= Top.since
        /\ __atexit_func_count \in Nat /\ Len(destroyed) \in Nat /\ DOMAIN destroyed = 1 .. Len(destroyed)
    BY <1>1, <1>2, TopIs, FrameIs, TypesAre
  <1>4. /\ Top.n \in Top.since + 1 .. Len(destroyed) /\ Top.n \in DOMAIN destroyed
        /\ destroyed[Top.n].i = Top.i /\ destroyed[Top.n].f = Top.f
    BY <1>2, <1>3 DEF LoopInv
  <1>5. Top.i \in Table BY <1>1, <1>4, TypesAre DEF Destructions
  <1>6. /\ __atexit_funcs' \in [Table -> Entries]
        /\ \A j \in Table : __atexit_funcs'[j].f = IF j = Top.i /\ Top.f # All THEN All ELSE __atexit_funcs[j].f
    <2>1. __atexit_funcs \in [Table -> Entries] BY <1>1 DEF TableTypes
    <2>2. CASE Top.f = All
      <3>1. __atexit_funcs' = __atexit_funcs BY <1>2, <2>2 DEF Kept
      <3> QED BY <2>1, <2>2, <3>1
    <2>3. CASE Top.f # All
      <3>1. __atexit_funcs' = [__atexit_funcs EXCEPT ![Top.i].f = All] BY <1>2, <2>3 DEF Kept
      <3>2. __atexit_funcs[Top.i] \in Entries BY <1>5, <2>1
      <3>3. [__atexit_funcs[Top.i] EXCEPT !.f = All] \in Entries BY <3>2 DEF Entries
      <3>4. [__atexit_funcs[Top.i] EXCEPT !.f = All].f = All BY <3>2 DEF Entries
      <3> QED BY <1>5, <2>1, <2>3, <3>1, <3>3, <3>4
    <2> QED BY <2>2, <2>3
  <1>7. PICK u : u = [Top EXCEPT !.n = 0] OBVIOUS
  <1>8. u \in Frames BY <1>3, <1>7 DEF Frames
  <1>9. /\ u.i = Top.i /\ u.f = Top.f /\ u.n = 0 /\ u.since = Top.since /\ u.log = Top.log /\ u.want = Top.want
    BY <1>3, <1>7 DEF Frames
  <1>10. fin' = [fin EXCEPT ![L] = u] BY <1>2, <1>7 DEF Top
  <1>11. TableTypes'
    <2>1. fin' \in Seq(Frames) BY <1>1, <1>3, <1>8, <1>10 DEF TableTypes
    <2> QED BY <1>1, <1>2, <1>6, <2>1 DEF TableTypes
  <1>12. Grows BY <1>2, <1>3 DEF Grows
  <1>13. LoopInv(u) BY <1>3, <1>9 DEF LoopInv, Ahead, DestroyedSince
  <1>14. __atexit_func_count' \in Nat /\ __atexit_func_count <= __atexit_func_count' BY <1>2, <1>3
  <1>15. LoopInv(u)'
    <2>1. \A j \in Table : j < u.i => __atexit_funcs'[j].f = __atexit_funcs[j].f
      BY <1>3, <1>6, <1>9
    <2> QED BY <1>1, <1>8, <1>12, <1>13, <1>14, <2>1, LoopStays
  <1>16. ASSUME NEW k \in DOMAIN fin, k # L PROVE LoopInv(fin[k])'
    <2>1. PICK fr : fr = fin[k] OBVIOUS
    <2>2. fr \in Frames /\ LoopInv(fr) /\ fr.since \in Nat
      BY <1>1, <2>1, TypesAre, FrameIs DEF TableInv, StackInv
    <2>3. DestroyedSince(fr.since, Top.i)
      <3>1. Top.n \in fr.since + 1 .. Len(destroyed) BY <1>3, <1>4, <1>16, <2>1, <2>2
      <3> QED BY <1>4, <3>1 DEF DestroyedSince
    <2>4. \A j \in Table : \/ __atexit_funcs'[j].f = __atexit_funcs[j].f
                           \/ __atexit_funcs'[j].f = All /\ DestroyedSince(fr.since, j)
      BY <1>6, <2>3
    <2>5. LoopInv(fr)' BY <1>1, <1>12, <1>14, <2>2, <2>4, LoopStays
    <2>6. fin'[k] = fr BY <1>10, <1>16, <2>1
    <2> QED BY <2>5, <2>6, LoopOf
  <1>17. StackInv' BY <1>2, <1>8, <1>9, <1>10, <1>11, <1>15, <1>16, TopChanges
  <1>18. OnceInv'
    <2>1. ASSUME NEW n \in DOMAIN destroyed
          PROVE  destroyed[n].f = All \/ __atexit_funcs'[destroyed[n].i].f = All \/ Running(n)'
      <3>1. destroyed[n].i \in Table BY <1>1, TypesAre DEF Destructions
      <3>2. CASE __atexit_funcs[destroyed[n].i].f = All BY <1>6, <3>1, <3>2
      <3>3. CASE Running(n)
        <4>1. PICK k \in DOMAIN fin : fin[k].n = n BY <3>3 DEF Running
        <4>2. CASE k = L
          <5>1. n = Top.n BY <4>1, <4>2 DEF Top
          <5> QED BY <1>4, <1>6, <3>1, <5>1
        <4>3. CASE k # L
          <5>1. k \in DOMAIN fin' /\ fin'[k] = fin[k] BY <1>10, <4>1, <4>3
          <5> QED BY <4>1, <5>1 DEF Running
        <4> QED BY <4>2, <4>3
      <3> QED BY <3>2, <3>3 DEF TableInv, OnceInv
    <2>2. DestroyedOnce' BY <1>2 DEF TableInv, OnceInv, DestroyedOnce
    <2> QED BY <1>2, <2>1, <2>2 DEF TableInv, OnceInv
  <1> QED BY <1>11, <1>17, <1>18 DEF TableInv

LEMMA FinalizeReturnKeeps ==
    ASSUME TableInv, FinalizeReturn
    PROVE  TableInv'
  <1>1. TableTypes BY DEF TableInv
  <1> DEFINE L == Len(fin)
  <1>2. /\ fin # <<>> /\ Top.n = 0 /\ fin' = Front(fin)
        /\ UNCHANGED <<__atexit_funcs, __atexit_func_count, destroyed>>
    BY DEF FinalizeReturn
  <1>3. /\ L \in Nat /\ L \in DOMAIN fin /\ DOMAIN fin = 1 .. L /\ __atexit_func_count \in Nat
        /\ Len(destroyed) \in Nat /\ DOMAIN destroyed = 1 .. Len(destroyed)
    BY <1>1, <1>2, TopIs, TypesAre
  <1>4. fin' \in Seq(Frames) /\ DOMAIN fin' = 1 .. L - 1 /\ \A k \in 1 .. L - 1 : fin'[k] = fin[k]
    <2>1. fin \in Seq(Frames) /\ fin' = SubSeq(fin, 1, L - 1) BY <1>1, <1>2 DEF TableTypes, Front
    <2> QED BY <1>3, <2>1
  <1>5. TableTypes' BY <1>1, <1>2, <1>4 DEF TableTypes
  <1>6. Grows BY <1>2, <1>3 DEF Grows
  <1>7. ASSUME NEW k \in DOMAIN fin' PROVE LoopInv(fin[k])'
    <2>0. k \in DOMAIN fin BY <1>3, <1>4
    <2>1. PICK fr : fr = fin[k] OBVIOUS
    <2>2. fr \in Frames /\ LoopInv(fr) BY <1>1, <2>0, <2>1, TypesAre DEF TableInv, StackInv
    <2>3. LoopInv(fr)' BY <1>1, <1>2, <1>3, <1>6, <2>2, LoopStays
    <2>4. fin'[k] = fr BY <1>4, <2>1
    <2> QED BY <2>3, <2>4, LoopOf
  <1>8. StackInv'
    <2>1. \A k, l \in DOMAIN fin' : k < l => fin'[k].n # 0 /\ fin'[k].since <= fin'[l].since
      <3>1. \A k \in DOMAIN fin' : k \in DOMAIN fin BY <1>3, <1>4
      <3> QED BY <1>4, <3>1 DEF TableInv, StackInv
    <2> QED BY <1>7, <2>1 DEF StackInv
  <1>9. OnceInv'
    <2>1. ASSUME NEW n \in DOMAIN destroyed, Running(n) PROVE Running(n)'
      <3>1. PICK k \in DOMAIN fin : fin[k].n = n BY <2>1 DEF Running
      <3>2. n # 0 BY <1>3
      <3>3. k # L BY <1>2, <3>1, <3>2 DEF Top
      <3>4. k \in DOMAIN fin' /\ fin'[k].n = n BY <1>3, <1>4, <3>1, <3>3
      <3> QED BY <3>4 DEF Running
    <2>2. ASSUME NEW n \in DOMAIN destroyed'
          PROVE  /\ destroyed'[n].i < __atexit_func_count'
                 /\ destroyed'[n].f = All \/ __atexit_funcs'[destroyed'[n].i].f = All \/ Running(n)'
      BY <1>2, <2>1 DEF TableInv, OnceInv
    <2>3. DestroyedOnce' BY <1>2 DEF TableInv, OnceInv, DestroyedOnce
    <2> QED BY <2>2, <2>3 DEF OnceInv
  <1> QED BY <1>5, <1>8, <1>9 DEF TableInv

LEMMA TableGoesOn == TableInv /\ [Next]_vars => TableInv'
  <1> SUFFICES ASSUME TableInv, [Next]_vars PROVE TableInv' OBVIOUS
  <1>1. CASE UseTable
    <2>1. TableStep BY <1>1 DEF UseTable
    <2> QED BY <2>1, RegisterKeeps, FinalizeKeeps, FinalizeEntryKeeps, DestructorReturnsKeeps,
               FinalizeReturnKeeps DEF TableStep
  <1>2. CASE UNCHANGED table_vars
    <2>1. /\ fin' = fin /\ destroyed' = destroyed /\ __atexit_funcs' = __atexit_funcs
          /\ __atexit_func_count' = __atexit_func_count
      BY <1>2 DEF table_vars
    <2> QED BY <2>1 DEF TableInv, TableTypes, StackInv, LoopInv, Ahead, Matches, DestroyedSince,
                        OnceInv, Running, DestroyedOnce
  <1>3. CASE UseStrings \/ UseFormat \/ Formatting \/ UseStatics \/ UNCHANGED vars
    <2>1. UNCHANGED table_vars
      BY <1>3 DEF UseStrings, UseFormat, Formatting, UseStatics, GuardStep, vars, cxx_vars, table_vars
    <2> QED BY <1>2, <2>1
  <1> QED BY <1>1, <1>3 DEF Next

(* A call of __cxa_finalize destroys nothing but what was registered for   *)
(* it when it began, the last one first, and when it returns all of that   *)
(* is destroyed, by itself or by a call out of one of its destructors;     *)
(* nothing is destroyed a second time but by a call without a function,    *)
(* which keeps its entries, or while its own destructor still runs         *)
(* (cxxabi.cpp:145, 166, 173-185, 200-201): for every size of the table,   *)
(* every set of destructors, every sequence of calls, and whatever         *)
(* destructors register and finalize while they run.                       *)
THEOREM FinalizedRight == Spec => []FinalizeRight
  <1>1. TableInv => FinalizeRight
    <2> SUFFICES ASSUME TableInv PROVE FinalizeRight OBVIOUS
    <2>1. DestroyedOnce BY DEF TableInv, OnceInv
    <2>2. ASSUME NEW k \in DOMAIN fin
          PROVE  /\ Range(fin[k].log) \subseteq fin[k].want /\ LastFirst(fin[k].log)
                 /\ fin[k].i = 0 /\ fin[k].n = 0 => \A j \in fin[k].want : DestroyedSince(fin[k].since, j)
      <3>1. TableTypes /\ LoopInv(fin[k]) BY DEF TableInv, StackInv
      <3>2. fin[k] \in Frames BY <3>1, TypesAre
      <3>3. fin[k].want \subseteq Table /\ Table \subseteq Nat BY <3>1, <3>2, FrameIs, TypesAre
      <3>4. ASSUME fin[k].i = 0, NEW j \in fin[k].want PROVE DestroyedSince(fin[k].since, j)
        <4>0. j \in Table /\ j \in Nat BY <3>3
        <4>1. j \in Table /\ ~ (j < fin[k].i) BY <3>4, <4>0
        <4> QED BY <3>1, <3>4, <4>1 DEF LoopInv, Ahead
      <3> QED BY <3>1, <3>4 DEF LoopInv
    <2> QED BY <2>1, <2>2 DEF FinalizeRight
  <1> QED BY <1>1, TableInitially, TableGoesOn, PTL DEF Spec

-----------------------------------------------------------------------------
(* string.c. *)
(* The memory, a byte in each place. *)
Memory == [Addresses -> 0 .. UCHAR - 1]

(* The string at p is len characters long. *)
Ends(m, p, len) ==
    len \in Nat /\ p + len < MemSize /\ m[p + len] = 0 /\ \A i \in 0 .. len - 1 : m[p + i] # 0

LEMMA StringEnds ==
    ASSUME NEW m, NEW p \in Addresses, \E a \in p .. MemSize - 1 : m[a] = 0
    PROVE  \E len \in Nat : Ends(m, p, len)
  <1> DEFINE T == {i \in Nat : p + i < MemSize /\ m[p + i] = 0}
  <1>1. MemSize \in Nat /\ p \in Nat BY CStringAssumption DEF Addresses
  <1>2. PICK a \in p .. MemSize - 1 : m[a] = 0 OBVIOUS
  <1>3. a - p \in Nat /\ p + (a - p) = a /\ a < MemSize BY <1>1
  <1>4. a - p \in T BY <1>2, <1>3
  <1>5. T \in SUBSET Nat /\ T # {} BY <1>4
  <1> DEFINE len == Min(T)
  <1>6. len \in T /\ \A y \in T : len <= y BY <1>5, MinOfSome
  <1> HIDE DEF len
  <1>7. ASSUME NEW i \in 0 .. len - 1 PROVE m[p + i] # 0
    <2>1. i \in Nat /\ p + i < MemSize /\ ~ (len <= i) BY <1>1, <1>6
    <2> QED BY <1>6, <2>1
  <1>8. Ends(m, p, len) BY <1>6, <1>7 DEF Ends
  <1> QED BY <1>6, <1>8

LEMMA StrlenIs ==
    ASSUME NEW m, NEW p, NEW len \in Nat, Ends(m, p, len)
    PROVE  strlen(m, p) = len
  <1> DEFINE stop == {i \in Nat : m[p + i] = 0}
             val == [i \in Nat |-> i]
             Is(f) == f = [i \in Nat |-> IF m[p + i] # 0 THEN f[i + 1] ELSE i]
             scan == CHOOSE f : Is(f)
  <1>1. ASSUME NEW f PROVE Scans(f, stop, val) <=> Is(f)
    <2>1. [i \in Nat |-> IF i \in stop THEN val[i] ELSE f[i + 1]] = [i \in Nat |-> IF m[p + i] # 0 THEN f[i + 1] ELSE i]
      OBVIOUS
    <2> QED BY <2>1, Zenon DEF Scans
  <1>2. \E f : Is(f)
    <2>1. PICK f : Scans(f, stop, val) BY ScanExists
    <2> QED BY <1>1, <2>1
  <1>s. strlen(m, p) = scan[0] BY DEF strlen
  <1> HIDE DEF Is
  <1>3. Is(scan) BY <1>2, Zenon
  <1>4. Scans(scan, stop, val) BY <1>1, <1>3
  <1> HIDE DEF scan
  <1>5. len \in stop /\ \A k \in 0 .. len - 1 : k \notin stop BY DEF Ends
  <1>6. scan[0] = val[len] BY <1>4, <1>5, ScanIs
  <1> QED BY <1>6, <1>s

LEMMA FirstZeroIs ==
    ASSUME NEW m, DOMAIN m = Addresses, NEW from \in Nat, NEW to \in Addresses, NEW z \in from .. to,
           m[z] = 0, \A a \in from .. z - 1 : m[a] # 0
    PROVE  FirstZero(m, from, to) = z
  <1> DEFINE zeros == {a \in from .. to : Byte(m, a) = 0}
  <1>1. MemSize \in Nat /\ to \in Nat /\ to < MemSize BY CStringAssumption DEF Addresses
  <1>2. \A a \in from .. to : Byte(m, a) = m[a] BY <1>1 DEF Byte, Addresses
  <1>3. z \in zeros /\ zeros \in SUBSET Nat BY <1>1, <1>2
  <1>4. Min(zeros) \in zeros /\ Min(zeros) <= z BY <1>3, MinOfSome
  <1> DEFINE x == Min(zeros)
  <1> HIDE DEF x
  <1>5. x \in from .. to /\ m[x] = 0 /\ x <= z BY <1>2, <1>4 DEF x
  <1>6. ~ (x \in from .. z - 1) BY <1>5
  <1>7. x = z BY <1>1, <1>5, <1>6
  <1> QED BY <1>3, <1>7 DEF FirstZero, x

LEMMA BlockIs ==
    ASSUME NEW m, NEW p, NEW n \in Nat
    PROVE  Len(Block(m, p, n)) = n /\ DOMAIN Block(m, p, n) = 1 .. n
           /\ \A i \in 1 .. n : Block(m, p, n)[i] = m[p + i - 1]
  BY DEF Block

LEMMA CharsAre ==
    ASSUME NEW m, DOMAIN m = Addresses, NEW p \in Addresses, NEW len \in Nat, Ends(m, p, len)
    PROVE  Chars(m, p) = Block(m, p, len) /\ FirstZero(m, p, MemSize - 1) = p + len
  <1>1. MemSize \in Nat /\ p \in Nat /\ MemSize - 1 \in Addresses BY CStringAssumption DEF Addresses
  <1>2. p + len \in p .. MemSize - 1 BY <1>1 DEF Ends
  <1>3. ASSUME NEW a \in p .. (p + len) - 1 PROVE m[a] # 0
    <2>1. a - p \in 0 .. len - 1 /\ p + (a - p) = a BY <1>1
    <2> QED BY <2>1 DEF Ends
  <1>4. FirstZero(m, p, MemSize - 1) = p + len BY <1>1, <1>2, <1>3, FirstZeroIs DEF Ends
  <1>5. (p + len) - p = len BY <1>1
  <1> QED BY <1>4, <1>5 DEF Chars

-----------------------------------------------------------------------------
(* What the writers leave.  IsMem: a function on the addresses. *)
IsMem(m) == m = [a \in Addresses |-> m[a]]
Moved(m, dest, src, len) ==
    [a \in Addresses |-> IF a - dest \in 0 .. len - 1 THEN m[src + (a - dest)] ELSE m[a]]

(* An order in which no byte is read after it was written, and all are. *)
GoodOrder(dest, src, len, order) ==
    /\ Len(order) = len /\ \A k \in 1 .. len : order[k] \in 0 .. len - 1
    /\ \A k \in 1 .. len : \A j \in 1 .. k - 1 : dest + order[j] # src + order[k]
    /\ \A i \in 0 .. len - 1 : \E k \in 1 .. len : order[k] = i

(* A copy, when no byte is read after it was written. *)
LEMMA CopiedIs ==
    ASSUME NEW m, IsMem(m), NEW dest \in Nat, NEW src \in Nat, NEW len \in Nat,
           dest + len <= MemSize, src + len <= MemSize, NEW order, GoodOrder(dest, src, len, order)
    PROVE  Copied(m, dest, src, order) = Moved(m, dest, src, len)
  <1>h. m = [a \in Addresses |-> m[a]] BY DEF IsMem
  <1>o. /\ Len(order) = len /\ \A k \in 1 .. len : order[k] \in 0 .. len - 1
        /\ \A k \in 1 .. len : \A j \in 1 .. k - 1 : dest + order[j] # src + order[k]
        /\ \A i \in 0 .. len - 1 : \E k \in 1 .. len : order[k] = i
    BY DEF GoodOrder
  <1> DEFINE Done(k, a) == \E j \in 1 .. k : a = dest + order[j]
             Now(k) == [a \in Addresses |-> IF Done(k, a) THEN m[src + (a - dest)] ELSE m[a]]
             Next1(f, k) == [f[k - 1] EXCEPT ![dest + order[k]] = f[k - 1][src + order[k]]]
             Is(f) == f = [k \in 0 .. len |-> IF k = 0 THEN m ELSE Next1(f, k)]
             after == CHOOSE f : Is(f)
             g == [k \in 0 .. len |-> Now(k)]
  <1>m. MemSize \in Nat /\ Addresses \subseteq Nat BY CStringAssumption DEF Addresses
  <1>1. Now(0) = m
    <2>1. \A a \in Addresses : ~ Done(0, a) OBVIOUS
    <2> HIDE DEF Done
    <2> QED BY <1>h, <2>1
  <1>2. ASSUME NEW k \in 1 .. len
        PROVE  Now(k) = [Now(k - 1) EXCEPT ![dest + order[k]] = Now(k - 1)[src + order[k]]]
    <2> DEFINE to == dest + order[k]  from == src + order[k]
    <2>1. order[k] \in 0 .. len - 1 BY <1>o
    <2>2. to \in Addresses /\ from \in Addresses /\ to - dest = order[k] BY <1>m, <2>1 DEF Addresses
    <2>3. ~ Done(k - 1, from)
      <3> SUFFICES ASSUME NEW j \in 1 .. k - 1, from = dest + order[j] PROVE FALSE OBVIOUS
      <3> QED BY <1>o
    <2>4. \A a \in Addresses : Done(k, a) <=> Done(k - 1, a) \/ a = to
      <3> TAKE a \in Addresses
      <3>1. \A j \in 1 .. k : j \in 1 .. k - 1 \/ j = k OBVIOUS
      <3>2. k \in 1 .. k /\ \A j \in 1 .. k - 1 : j \in 1 .. k OBVIOUS
      <3> QED BY <3>1, <3>2
    <2>5. Now(k - 1)[from] = m[from]
      <3> HIDE DEF Done, from
      <3> QED BY <2>2, <2>3
    <2>6. src + (to - dest) = from BY <2>2
    <2> HIDE DEF Done, to, from
    <2>7. Now(k) = [Now(k - 1) EXCEPT ![to] = m[from]]
      <3>1. DOMAIN Now(k - 1) = Addresses OBVIOUS
      <3>2. ASSUME NEW a \in Addresses PROVE Now(k)[a] = [Now(k - 1) EXCEPT ![to] = m[from]][a]
        <4>1. CASE a = to BY <2>2, <2>4, <2>6, <4>1
        <4>2. CASE a # to BY <2>4, <4>2
        <4> QED BY <4>1, <4>2
      <3> QED BY <3>2
    <2> QED BY <2>5, <2>7 DEF to, from
  <1>3. Is(g)
    <2>1. g[0] = m BY <1>1
    <2>2. ASSUME NEW k \in 0 .. len, k # 0 PROVE g[k] = Next1(g, k)
      <3>1. k \in 1 .. len /\ k - 1 \in 0 .. len BY <2>2
      <3> HIDE DEF Now
      <3>2. g[k] = Now(k) /\ g[k - 1] = Now(k - 1) BY <3>1
      <3> HIDE DEF g
      <3> QED BY <1>2, <3>1, <3>2
    <2>3. g = [k \in 0 .. len |-> g[k]] OBVIOUS
    <2> HIDE DEF g, Next1, Now
    <2>4. \A k \in 0 .. len : g[k] = IF k = 0 THEN m ELSE Next1(g, k) BY <2>1, <2>2
    <2> QED BY <2>3, <2>4
  <1>s. Copied(m, dest, src, order) = after[len] BY <1>o DEF Copied
  <1>4. Is(after)
    <2> HIDE DEF Is, g
    <2> QED BY <1>3, Zenon
  <1> HIDE DEF after, g
  <1>5. after[0] = m /\ \A k \in 1 .. len : after[k] = Next1(after, k)
    <2> HIDE DEF Next1
    <2>0. 0 \in 0 .. len /\ \A k \in 1 .. len : k \in 0 .. len /\ k # 0 OBVIOUS
    <2>1. \A k \in 0 .. len : after[k] = IF k = 0 THEN m ELSE Next1(after, k) BY <1>4
    <2> QED BY <2>0, <2>1
  <1> DEFINE T == {k \in Nat : k > len \/ after[k] = Now(k)}
  <1>6. T \in SUBSET Nat /\ 0 \in T BY <1>1, <1>5
  <1>7. ASSUME NEW k \in Nat, k \in T PROVE k + 1 \in T
    <2> HIDE DEF Now
    <2>1. CASE k + 1 > len BY <2>1
    <2>2. CASE k + 1 <= len
      <3>1. k + 1 \in 1 .. len /\ (k + 1) - 1 = k /\ after[k] = Now(k) BY <1>7, <2>2
      <3>2. after[k + 1] = [after[k] EXCEPT ![dest + order[k + 1]] = after[k][src + order[k + 1]]] BY <1>5, <3>1
      <3>3. Now(k + 1) = [Now(k) EXCEPT ![dest + order[k + 1]] = Now(k)[src + order[k + 1]]] BY <1>2, <3>1
      <3>4. after[k + 1] = Now(k + 1) BY <3>1, <3>2, <3>3
      <3> QED BY <3>4
    <2> QED BY <2>1, <2>2
  <1>8. after[len] = Now(len)
    <2> HIDE DEF T
    <2>1. len \in T BY <1>6, <1>7, Induction
    <2> QED BY <2>1 DEF T
  <1>9. \A a \in Addresses : Done(len, a) <=> a - dest \in 0 .. len - 1
    <2> TAKE a \in Addresses
    <2>1. ASSUME NEW j \in 1 .. len, a = dest + order[j] PROVE a - dest \in 0 .. len - 1 BY <1>o, <2>1
    <2>2. ASSUME a - dest \in 0 .. len - 1 PROVE Done(len, a)
      <3>1. PICK k \in 1 .. len : order[k] = a - dest BY <1>o, <2>2
      <3>2. a = dest + order[k] BY <1>m, <3>1
      <3> QED BY <3>2
    <2> QED BY <2>1, <2>2
  <1> HIDE DEF Done
  <1>10. Now(len) = [a \in Addresses |-> IF a - dest \in 0 .. len - 1 THEN m[src + (a - dest)] ELSE m[a]]
    BY <1>9
  <1> QED BY <1>s, <1>8, <1>10 DEF Moved

Holds(r, m, p, n, s) ==
    /\ IsMem(r) /\ DOMAIN s = 1 .. n
    /\ \A a \in Addresses : a - p \in 0 .. n - 1 => r[a] = s[(a - p) + 1]
    /\ \A a \in Addresses : a - p \notin 0 .. n - 1 => r[a] = m[a]

LEMMA WriteIs ==
    ASSUME NEW m, IsMem(m), NEW p \in Nat, NEW n \in Nat, NEW s, NEW r, Holds(r, m, p, n, s)
    PROVE  r = Write(m, p, s)
  <1>m. MemSize \in Nat /\ Addresses \subseteq Nat BY CStringAssumption DEF Addresses
  <1>1. ASSUME NEW a \in Addresses PROVE r[a] = IF a - p + 1 \in DOMAIN s THEN s[a - p + 1] ELSE m[a]
    <2>1. a \in Nat BY <1>m
    <2>2. a - p + 1 = (a - p) + 1 BY <2>1
    <2>3. (a - p) + 1 \in 1 .. n <=> a - p \in 0 .. n - 1 BY <2>1
    <2> QED BY <2>2, <2>3 DEF Holds
  <1>2. r = [a \in Addresses |-> r[a]] /\ DOMAIN m = Addresses BY DEF Holds, IsMem
  <1> QED BY <1>1, <1>2 DEF Write

(* A copy upwards: the destination is before the source, or apart from it. *)
LEMMA CopiesUpward ==
    ASSUME NEW m, IsMem(m), NEW dest \in Nat, NEW src \in Nat, NEW len \in Nat,
           dest + len <= MemSize, src + len <= MemSize, dest <= src \/ src + len <= dest
    PROVE  Copied(m, dest, src, Upward(len))
               = Moved(m, dest, src, len)
  <1> DEFINE order == Upward(len)
  <1>1. Len(order) = len /\ \A k \in 1 .. len : order[k] = k - 1 BY DEF Upward
  <1> HIDE DEF order
  <1>2. \A k \in 1 .. len : order[k] \in 0 .. len - 1 BY <1>1
  <1>3. ASSUME NEW k \in 1 .. len, NEW j \in 1 .. k - 1 PROVE dest + order[j] # src + order[k]
    <2>1. order[k] = k - 1 /\ order[j] = j - 1 BY <1>1
    <2> QED BY <2>1
  <1>4. ASSUME NEW i \in 0 .. len - 1 PROVE \E k \in 1 .. len : order[k] = i
    <2>1. i + 1 \in 1 .. len /\ order[i + 1] = i BY <1>1
    <2> QED BY <2>1
  <1>5. GoodOrder(dest, src, len, order) BY <1>1, <1>2, <1>3, <1>4 DEF GoodOrder
  <1>6. Copied(m, dest, src, order) = Moved(m, dest, src, len) BY <1>5, CopiedIs
  <1> QED BY <1>6 DEF order

LEMMA CopiesDownward ==
    ASSUME NEW m, IsMem(m), NEW dest \in Nat, NEW src \in Nat, NEW len \in Nat,
           dest + len <= MemSize, src + len <= MemSize, dest >= src
    PROVE  Copied(m, dest, src, Downward(len))
               = Moved(m, dest, src, len)
  <1> DEFINE order == Downward(len)
  <1>1. Len(order) = len /\ \A k \in 1 .. len : order[k] = len - k BY DEF Downward
  <1> HIDE DEF order
  <1>2. \A k \in 1 .. len : order[k] \in 0 .. len - 1 BY <1>1
  <1>3. ASSUME NEW k \in 1 .. len, NEW j \in 1 .. k - 1 PROVE dest + order[j] # src + order[k]
    <2>1. order[k] = len - k /\ order[j] = len - j BY <1>1
    <2> QED BY <2>1
  <1>4. ASSUME NEW i \in 0 .. len - 1 PROVE \E k \in 1 .. len : order[k] = i
    <2>1. len - i \in 1 .. len /\ order[len - i] = i BY <1>1
    <2> QED BY <2>1
  <1>5. GoodOrder(dest, src, len, order) BY <1>1, <1>2, <1>3, <1>4 DEF GoodOrder
  <1>6. Copied(m, dest, src, order) = Moved(m, dest, src, len) BY <1>5, CopiedIs
  <1> QED BY <1>6 DEF order

(* What a copy leaves is the source written to the destination. *)
LEMMA CopyWrites ==
    ASSUME NEW m, IsMem(m), NEW p \in Nat, NEW q \in Nat, NEW n \in Nat,
           NEW r, r = Moved(m, p, q, n)
    PROVE  r = Write(m, p, Block(m, q, n))
  <1>m. MemSize \in Nat /\ Addresses \subseteq Nat BY CStringAssumption DEF Addresses
  <1> DEFINE s == Block(m, q, n)
  <1>1. DOMAIN s = 1 .. n /\ \A i \in 1 .. n : s[i] = m[q + i - 1] BY BlockIs
  <1> HIDE DEF s
  <1>r. r = [a \in Addresses |-> IF a - p \in 0 .. n - 1 THEN m[q + (a - p)] ELSE m[a]] BY DEF Moved
  <1>2. IsMem(r) BY <1>r DEF IsMem
  <1>3. ASSUME NEW a \in Addresses, a - p \in 0 .. n - 1 PROVE r[a] = s[(a - p) + 1]
    <2>1. (a - p) + 1 \in 1 .. n /\ ((a - p) + 1) - 1 = a - p BY <1>m, <1>3
    <2>2. s[(a - p) + 1] = m[q + (a - p)] BY <1>1, <2>1
    <2> QED BY <1>r, <1>3, <2>2
  <1>4. \A a \in Addresses : a - p \notin 0 .. n - 1 => r[a] = m[a] BY <1>r
  <1>h. Holds(r, m, p, n, s) BY <1>1, <1>2, <1>3, <1>4 DEF Holds
  <1>5. r = Write(m, p, s) BY <1>h, WriteIs
  <1> QED BY <1>5 DEF s

LEMMA CopyUpWrites ==
    ASSUME NEW m, IsMem(m), NEW p \in Nat, NEW q \in Nat, NEW n \in Nat,
           p + n <= MemSize, q + n <= MemSize, p <= q \/ q + n <= p
    PROVE  Copied(m, p, q, Upward(n)) = Write(m, p, Block(m, q, n))
  <1> DEFINE r == Copied(m, p, q, Upward(n))
  <1>1. r = Moved(m, p, q, n) BY CopiesUpward
  <1> HIDE DEF r
  <1>2. r = Write(m, p, Block(m, q, n)) BY <1>1, CopyWrites
  <1> QED BY <1>2 DEF r

LEMMA CopyDownWrites ==
    ASSUME NEW m, IsMem(m), NEW p \in Nat, NEW q \in Nat, NEW n \in Nat,
           p + n <= MemSize, q + n <= MemSize, p >= q
    PROVE  Copied(m, p, q, Downward(n)) = Write(m, p, Block(m, q, n))
  <1> DEFINE r == Copied(m, p, q, Downward(n))
  <1>1. r = Moved(m, p, q, n) BY CopiesDownward
  <1> HIDE DEF r
  <1>2. r = Write(m, p, Block(m, q, n)) BY <1>1, CopyWrites
  <1> QED BY <1>2 DEF r

LEMMA MemmoveWrites ==
    ASSUME NEW m, IsMem(m), NEW p \in Nat, NEW q \in Nat, NEW n \in Nat,
           p + n <= MemSize, q + n <= MemSize
    PROVE  memmove(m, p, q, n) = Write(m, p, Block(m, q, n))
  <1>1. CASE p < q
    <2>1. Copied(m, p, q, Upward(n)) = Write(m, p, Block(m, q, n)) BY <1>1, CopyUpWrites
    <2> QED BY <1>1, <2>1 DEF memmove
  <1>2. CASE ~ (p < q)
    <2>1. Copied(m, p, q, Downward(n)) = Write(m, p, Block(m, q, n)) BY <1>2, CopyDownWrites
    <2> QED BY <1>2, <2>1 DEF memmove
  <1> QED BY <1>1, <1>2

-----------------------------------------------------------------------------
(* The writers of bytes. *)
Chars256 == 0 .. UCHAR - 1

LEMMA MemoryIs ==
    ASSUME NEW m \in Memory
    PROVE  IsMem(m) /\ DOMAIN m = Addresses /\ \A a \in Addresses : m[a] \in Chars256
  BY DEF Memory, IsMem, Chars256

LEMMA BlockIsSeq ==
    ASSUME NEW m \in Memory, NEW p \in Nat, NEW n \in Nat, p + n <= MemSize
    PROVE  Block(m, p, n) \in Seq(Chars256)
  <1>1. ASSUME NEW i \in 1 .. n PROVE m[p + i - 1] \in Chars256
    <2>1. p + i - 1 \in Addresses BY CStringAssumption DEF Addresses
    <2> QED BY <2>1, MemoryIs
  <1> QED BY <1>1 DEF Block

LEMMA Terminated ==
    ASSUME NEW m \in Memory, NEW p \in Addresses, NEW len \in Nat, Ends(m, p, len)
    PROVE  Append(Chars(m, p), 0) = Block(m, p, len + 1)
  <1> DEFINE s == Block(m, p, len)
             t == Block(m, p, len + 1)
  <1>1. Chars(m, p) = s BY MemoryIs, CharsAre
  <1>2. p \in Nat /\ p + len < MemSize /\ m[p + len] = 0 /\ MemSize \in Nat
    BY CStringAssumption DEF Ends, Addresses
  <1>3. s \in Seq(Chars256) BY <1>2, BlockIsSeq
  <1>4. Len(s) = len /\ \A i \in 1 .. len : s[i] = m[p + i - 1] BY BlockIs
  <1>5. len + 1 \in Nat /\ p + (len + 1) <= MemSize BY <1>2
  <1>6. t \in Seq(Chars256) BY <1>2, <1>5, BlockIsSeq
  <1>7. Len(t) = len + 1 /\ \A i \in 1 .. len + 1 : t[i] = m[p + i - 1] BY <1>5, BlockIs
  <1> HIDE DEF s, t
  <1>8. t[len + 1] = 0
    <2>1. len + 1 \in 1 .. len + 1 /\ p + (len + 1) - 1 = p + len BY <1>2
    <2> QED BY <1>2, <1>7, <2>1
  <1>9. Append(s, 0) = t
    <2>1. 0 \in Chars256 BY CStringAssumption DEF Chars256
    <2>2. Append(s, 0) \in Seq(Chars256) /\ Len(Append(s, 0)) = len + 1 BY <1>3, <1>4, <2>1
    <2>3. ASSUME NEW i \in 1 .. len + 1 PROVE Append(s, 0)[i] = t[i]
      <3>1. CASE i = len + 1 BY <1>3, <1>4, <1>8, <3>1
      <3>2. CASE i # len + 1
        <4>1. i \in 1 .. len BY <3>2
        <4> QED BY <1>3, <1>4, <1>7, <4>1
      <3> QED BY <3>1, <3>2
    <2> QED BY <1>6, <1>7, <2>2, <2>3
  <1> QED BY <1>1, <1>9 DEF t

LEMMA StrcpyWrites ==
    ASSUME NEW m \in Memory, NEW p \in Addresses, NEW q \in Addresses, NEW len \in Nat, Ends(m, q, len),
           p + (len + 1) <= MemSize, p + (len + 1) <= q \/ q + (len + 1) <= p
    PROVE  strcpy(m, p, q) = Write(m, p, Append(Chars(m, q), 0))
  <1>1. p \in Nat /\ q \in Nat /\ len + 1 \in Nat /\ q + (len + 1) <= MemSize /\ MemSize \in Nat
    BY CStringAssumption DEF Ends, Addresses
  <1>2. p <= q \/ q + (len + 1) <= p BY <1>1
  <1>3. strlen(m, q) = len BY StrlenIs
  <1>4. strcpy(m, p, q) = Copied(m, p, q, Upward(len + 1)) BY <1>3 DEF strcpy
  <1>5. Copied(m, p, q, Upward(len + 1)) = Write(m, p, Block(m, q, len + 1))
    BY <1>1, <1>2, MemoryIs, CopyUpWrites
  <1> QED BY <1>4, <1>5, Terminated

IsJoin(t, a, n, b, k) ==
    /\ DOMAIN t = 1 .. n + k
    /\ \A i \in 1 .. n : t[i] = a[i]
    /\ \A i \in 1 .. k : t[n + i] = b[i]

LEMMA Joins ==
    ASSUME NEW S, NEW a \in Seq(S), NEW b \in Seq(S), NEW n \in Nat, NEW k \in Nat, Len(a) = n, Len(b) = k
    PROVE  a \o b \in Seq(S) /\ IsJoin(a \o b, a, n, b, k)
  BY DEF IsJoin

LEMMA StrcatWrites ==
    ASSUME NEW m \in Memory, NEW p \in Addresses, NEW q \in Addresses,
           NEW plen \in Nat, Ends(m, p, plen), NEW qlen \in Nat, Ends(m, q, qlen),
           p + plen + qlen < MemSize, p + plen + qlen < q \/ q + qlen < p
    PROVE  strcat(m, p, q) = Write(m, p, Chars(m, p) \o Chars(m, q))
  <1> DEFINE str == Block(m, p, plen)  src == Block(m, q, qlen)  s == str \o src
             d == p + plen
             r == strcat(m, p, q)
             n == plen + qlen
  <1>1. /\ p \in Nat /\ q \in Nat /\ MemSize \in Nat /\ p + plen < MemSize /\ q + qlen < MemSize
        /\ Addresses \subseteq Nat
    BY CStringAssumption DEF Ends, Addresses
  <1>2. Chars(m, p) = str /\ Chars(m, q) = src BY MemoryIs, CharsAre
  <1>3. strlen(m, p) = plen /\ strlen(m, q) = qlen BY StrlenIs
  <1>4. str \in Seq(Chars256) /\ src \in Seq(Chars256) BY <1>1, BlockIsSeq
  <1>5. /\ Len(str) = plen /\ \A i \in 1 .. plen : str[i] = m[p + i - 1]
        /\ Len(src) = qlen /\ \A i \in 1 .. qlen : src[i] = m[q + i - 1]
    BY BlockIs
  <1> HIDE DEF str, src
  <1>6. /\ DOMAIN s = 1 .. n /\ \A i \in 1 .. plen : s[i] = str[i]
        /\ \A i \in 1 .. qlen : s[plen + i] = src[i]
    <2>1. Len(str) = plen /\ Len(src) = qlen BY <1>5
    <2>2. IsJoin(s, str, plen, src, qlen) BY <1>4, <2>1, Joins
    <2> QED BY <2>2 DEF IsJoin
  <1>7. d \in Nat /\ d + qlen <= MemSize /\ q + qlen <= MemSize /\ (d <= q \/ q + qlen <= d) BY <1>1
  <1>8. r = Moved(m, d, q, qlen)
    <2>1. r = Copied(m, d, q, Upward(qlen)) BY <1>3 DEF strcat
    <2> HIDE DEF d, r
    <2>2. Copied(m, d, q, Upward(qlen)) = Moved(m, d, q, qlen) BY <1>1, <1>7, MemoryIs, CopiesUpward
    <2> QED BY <2>1, <2>2
  <1>9. r = [a \in Addresses |-> IF a - d \in 0 .. qlen - 1 THEN m[q + (a - d)] ELSE m[a]] BY <1>8 DEF Moved
  <1> HIDE DEF r, s
  <1>10. ASSUME NEW a \in Addresses, a - p \in 0 .. n - 1 PROVE r[a] = s[(a - p) + 1]
    <2>0. a \in Nat BY <1>1
    <2>1. CASE a < d
      <3>1. (a - p) + 1 \in 1 .. plen /\ p + ((a - p) + 1) - 1 = a /\ a - d \notin 0 .. qlen - 1
        BY <1>1, <1>10, <2>0, <2>1
      <3>2. s[(a - p) + 1] = m[a] BY <1>5, <1>6, <3>1
      <3> QED BY <1>9, <3>1, <3>2
    <2>2. CASE a >= d
      <3>1. /\ (a - d) + 1 \in 1 .. qlen /\ plen + ((a - d) + 1) = (a - p) + 1
            /\ q + ((a - d) + 1) - 1 = q + (a - d) /\ a - d \in 0 .. qlen - 1
        BY <1>1, <1>10, <2>0, <2>2
      <3>2. s[(a - p) + 1] = src[(a - d) + 1] BY <1>6, <3>1
      <3>3. src[(a - d) + 1] = m[q + (a - d)] BY <1>5, <3>1
      <3> QED BY <1>9, <3>1, <3>2, <3>3
    <2> QED BY <1>7, <2>0, <2>1, <2>2
  <1>11. ASSUME NEW a \in Addresses, a - p \notin 0 .. n - 1 PROVE r[a] = m[a]
    <2>1. a - d \notin 0 .. qlen - 1 BY <1>1, <1>11
    <2> QED BY <1>9, <2>1
  <1>12. IsMem(r) BY <1>9 DEF IsMem
  <1>13. Holds(r, m, p, n, s) BY <1>6, <1>10, <1>11, <1>12 DEF Holds
  <1>14. n \in Nat OBVIOUS
  <1> HIDE DEF n
  <1>15. r = Write(m, p, s) BY <1>1, <1>13, <1>14, MemoryIs, WriteIs
  <1> QED BY <1>2, <1>15 DEF r, s

LEMMA MemsetWrites ==
    ASSUME NEW m \in Memory, NEW p \in Nat, NEW val \in Bytes, NEW n \in Nat
    PROVE  /\ memset(m, p, val, n) = Write(m, p, [i \in 1 .. n |-> val])
           /\ val = 0 => bzero(m, p, n) = Write(m, p, [i \in 1 .. n |-> val])
  <1> DEFINE r == memset(m, p, val, n)
             s == [i \in 1 .. n |-> val]
  <1>1. val \in Nat /\ val < UCHAR /\ UCHAR \in Nat BY CStringAssumption
  <1>2. val % UCHAR = val BY <1>1
  <1>3. DOMAIN m = Addresses /\ Addresses \subseteq Nat BY CStringAssumption, MemoryIs DEF Addresses
  <1>4. r = [a \in Addresses |-> IF a \in p .. p + n - 1 THEN val ELSE m[a]] BY <1>2, <1>3 DEF memset
  <1>5. \A a \in Addresses : a \in p .. p + n - 1 <=> a - p \in 0 .. n - 1 BY <1>3
  <1>6. DOMAIN s = 1 .. n /\ \A i \in 1 .. n : s[i] = val OBVIOUS
  <1>7. \A a \in Addresses : a - p \in 0 .. n - 1 => (a - p) + 1 \in 1 .. n BY <1>3
  <1> HIDE DEF r, s
  <1>8. IsMem(r) BY <1>4 DEF IsMem
  <1>9. Holds(r, m, p, n, s) BY <1>4, <1>5, <1>6, <1>7, <1>8 DEF Holds
  <1>10. r = Write(m, p, s) BY <1>9, MemoryIs, WriteIs
  <1> QED BY <1>10 DEF r, s, bzero

LEMMA AppendWrites ==
    ASSUME NEW m \in Memory, NEW p \in Addresses, NEW len \in Nat, Ends(m, p, len),
           p + len + 1 < MemSize, NEW c \in Bytes
    PROVE  append(m, p, c) = Write(m, p, Chars(m, p) \o <<c, 0>>)
  <1> DEFINE str == Block(m, p, len)
             s == str \o <<c, 0>>
             r == append(m, p, c)
             n == len + 2
  <1>1. p \in Nat /\ MemSize \in Nat /\ Addresses \subseteq Nat BY CStringAssumption DEF Addresses
  <1>2. c \in Nat /\ c < UCHAR /\ UCHAR \in Nat /\ 0 < UCHAR BY CStringAssumption
  <1>3. c % UCHAR = c BY <1>2
  <1>4. Chars(m, p) = str /\ strlen(m, p) = len BY MemoryIs, CharsAre, StrlenIs
  <1>5. /\ str \in Seq(Chars256) /\ Len(str) = len /\ \A i \in 1 .. len : str[i] = m[p + i - 1]
    <2>1. p + len <= MemSize BY <1>1
    <2>2. str \in Seq(Chars256) BY <1>1, <2>1, BlockIsSeq
    <2> QED BY <2>2, BlockIs
  <1> HIDE DEF str
  <1>6. <<c, 0>> \in Seq(Chars256) /\ Len(<<c, 0>>) = 2 BY <1>2 DEF Chars256
  <1>7. IsJoin(s, str, len, <<c, 0>>, 2) BY <1>5, <1>6, Joins
  <1>8. /\ DOMAIN s = 1 .. n /\ \A i \in 1 .. len : s[i] = m[p + i - 1]
        /\ s[len + 1] = c /\ s[len + 2] = 0
    <2>1. 1 \in 1 .. 2 /\ 2 \in 1 .. 2 OBVIOUS
    <2> HIDE DEF s
    <2>2. s[len + 1] = <<c, 0>>[1] /\ s[len + 2] = <<c, 0>>[2] BY <1>7, <2>1 DEF IsJoin
    <2>3. DOMAIN s = 1 .. n /\ \A i \in 1 .. len : s[i] = str[i] BY <1>7 DEF IsJoin
    <2> QED BY <1>5, <2>2, <2>3
  <1>9. r = [m EXCEPT ![p + len] = c, ![p + len + 1] = 0] BY <1>3, <1>4 DEF append
  <1>10. p + len \in Addresses /\ p + len + 1 \in Addresses BY <1>1 DEF Addresses
  <1>11. DOMAIN m = Addresses BY MemoryIs
  <1>12. /\ r = [a \in Addresses |-> r[a]] /\ r[p + len] = c /\ r[p + len + 1] = 0
         /\ \A a \in Addresses : a # p + len /\ a # p + len + 1 => r[a] = m[a]
    <2>1. p + len # p + len + 1 BY <1>1
    <2> QED BY <1>9, <1>10, <1>11, <2>1
  <1> HIDE DEF r, s
  <1>13. ASSUME NEW a \in Addresses, a - p \in 0 .. n - 1 PROVE r[a] = s[(a - p) + 1]
    <2>0. a \in Nat BY <1>1
    <2>1. CASE a = p + len
      <3>1. (a - p) + 1 = len + 1 BY <1>1, <2>1
      <3> QED BY <1>8, <1>12, <2>1, <3>1
    <2>2. CASE a = p + len + 1
      <3>1. (a - p) + 1 = len + 2 BY <1>1, <2>2
      <3> QED BY <1>8, <1>12, <2>2, <3>1
    <2>3. CASE a # p + len /\ a # p + len + 1
      <3>1. (a - p) + 1 \in 1 .. len /\ p + ((a - p) + 1) - 1 = a BY <1>1, <1>13, <2>0, <2>3
      <3> QED BY <1>8, <1>12, <2>3, <3>1
    <2> QED BY <2>1, <2>2, <2>3
  <1>14. ASSUME NEW a \in Addresses, a - p \notin 0 .. n - 1 PROVE r[a] = m[a]
    <2>1. a # p + len /\ a # p + len + 1 BY <1>1, <1>14
    <2> QED BY <1>12, <2>1
  <1>15. n \in Nat OBVIOUS
  <1>16. Holds(r, m, p, n, s) BY <1>8, <1>12, <1>13, <1>14 DEF Holds, IsMem
  <1> HIDE DEF n
  <1>17. r = Write(m, p, s) BY <1>1, <1>15, <1>16, MemoryIs, WriteIs
  <1> QED BY <1>4, <1>17 DEF r, s

LEMMA BackspaceWrites ==
    ASSUME NEW m \in Memory, NEW p \in Addresses, NEW n \in Nat, Ends(m, p, n), n > 0
    PROVE  backspace(m, p) = Write(m, p, Append(Front(Chars(m, p)), 0))
  <1> DEFINE str == Block(m, p, n)
             f == Front(str)
             s == Append(f, 0)
             r == backspace(m, p)
             x == p + n - 1
  <1>1. p \in Nat /\ MemSize \in Nat /\ Addresses \subseteq Nat /\ p + n < MemSize
    BY CStringAssumption DEF Addresses, Ends
  <1>2. Chars(m, p) = str /\ strlen(m, p) = n BY MemoryIs, CharsAre, StrlenIs
  <1>3. /\ str \in Seq(Chars256) /\ Len(str) = n /\ \A i \in 1 .. n : str[i] = m[p + i - 1]
    <2>1. p + n <= MemSize BY <1>1
    <2>2. str \in Seq(Chars256) BY <1>1, <2>1, BlockIsSeq
    <2> QED BY <2>2, BlockIs
  <1> HIDE DEF str
  <1>4. f \in Seq(Chars256) /\ Len(f) = n - 1 /\ \A i \in 1 .. n - 1 : f[i] = str[i] BY <1>3 DEF Front
  <1> HIDE DEF f
  <1>5. 0 \in Chars256 BY CStringAssumption DEF Chars256
  <1>6. DOMAIN s = 1 .. n /\ s[n] = 0 /\ \A i \in 1 .. n - 1 : s[i] = m[p + i - 1]
    <2>1. Len(s) = n /\ s \in Seq(Chars256) BY <1>4, <1>5
    <2>2. s[n] = 0 /\ \A i \in 1 .. n - 1 : s[i] = f[i] BY <1>4, <1>5
    <2>3. \A i \in 1 .. n - 1 : s[i] = m[p + i - 1] BY <1>3, <1>4, <2>2
    <2> QED BY <2>1, <2>2, <2>3
  <1>7. r = [m EXCEPT ![x] = 0] BY <1>2 DEF backspace
  <1>8. x \in Addresses /\ DOMAIN m = Addresses BY <1>1, MemoryIs DEF Addresses
  <1>9. r = [a \in Addresses |-> r[a]] /\ r[x] = 0 /\ \A a \in Addresses : a # x => r[a] = m[a]
    BY <1>7, <1>8
  <1> HIDE DEF r, s
  <1>10. ASSUME NEW a \in Addresses, a - p \in 0 .. n - 1 PROVE r[a] = s[(a - p) + 1]
    <2>0. a \in Nat BY <1>1
    <2>1. CASE a = x
      <3>1. (a - p) + 1 = n BY <1>1, <2>1
      <3> QED BY <1>6, <1>9, <2>1, <3>1
    <2>2. CASE a # x
      <3>1. (a - p) + 1 \in 1 .. n - 1 /\ p + ((a - p) + 1) - 1 = a BY <1>1, <1>10, <2>0, <2>2
      <3> QED BY <1>6, <1>9, <2>2, <3>1
    <2> QED BY <2>1, <2>2
  <1>11. ASSUME NEW a \in Addresses, a - p \notin 0 .. n - 1 PROVE r[a] = m[a]
    <2>1. a # x BY <1>1, <1>11
    <2> QED BY <1>9, <2>1
  <1>12. Holds(r, m, p, n, s) BY <1>6, <1>9, <1>10, <1>11 DEF Holds, IsMem
  <1>13. r = Write(m, p, s) BY <1>1, <1>12, MemoryIs, WriteIs
  <1> QED BY <1>2, <1>13 DEF r, s, f

(* Each round of strrev exchanges one pair more. *)
LEMMA StrrevIs ==
    ASSUME NEW m \in Memory, NEW p \in Addresses, NEW len \in Nat, Ends(m, p, len)
    PROVE  strrev(m, p) = [a \in Addresses |-> IF a - p \in 0 .. len - 1 THEN m[p + (len - 1 - (a - p))] ELSE m[a]]
  <1> DEFINE h == len \div 2
             Done(k, a) == a - p \in 0 .. k - 1 \/ a - p \in len - k .. len - 1
             Now(k) == [a \in Addresses |-> IF Done(k, a) THEN m[p + (len - 1 - (a - p))] ELSE m[a]]
             Next1(f, k) == [f[k - 1] EXCEPT ![p + k - 1] = f[k - 1][p + len - k],
                                             ![p + len - k] = f[k - 1][p + k - 1]]
             Is(f) == f = [k \in 0 .. h |-> IF k = 0 THEN m ELSE Next1(f, k)]
             after == CHOOSE f : Is(f)
             g == [k \in 0 .. h |-> Now(k)]
  <1>m. MemSize \in Nat /\ Addresses \subseteq Nat /\ p \in Nat /\ p + len < MemSize
    BY CStringAssumption DEF Addresses, Ends
  <1>d. m = [a \in Addresses |-> m[a]] BY MemoryIs DEF IsMem
  <1>h. h \in Nat /\ (len = 2 * h \/ len = 2 * h + 1) OBVIOUS
  <1>l. strlen(m, p) = len BY StrlenIs
  <1>s. strrev(m, p) = after[h] BY <1>l DEF strrev
  <1> HIDE DEF h
  <1>1. Now(0) = m
    <2>1. \A a \in Addresses : ~ Done(0, a) BY <1>m
    <2> HIDE DEF Done
    <2> QED BY <1>d, <2>1
  <1>2. ASSUME NEW k \in 1 .. h
        PROVE  Now(k) = [Now(k - 1) EXCEPT ![p + k - 1] = Now(k - 1)[p + len - k],
                                           ![p + len - k] = Now(k - 1)[p + k - 1]]
    <2> DEFINE x == p + k - 1  y == p + len - k
    <2>1. k \in Nat /\ 1 <= k /\ 2 * k <= len BY <1>h
    <2>2. x \in Addresses /\ y \in Addresses /\ x # y BY <1>m, <2>1 DEF Addresses
    <2>3. ~ Done(k - 1, x) /\ ~ Done(k - 1, y) BY <1>m, <2>1
    <2>4. ASSUME NEW a \in Addresses PROVE Done(k, a) <=> Done(k - 1, a) \/ a = x \/ a = y
      <3>1. a \in Nat BY <1>m
      <3> QED BY <1>m, <2>1, <3>1
    <2>5. p + (len - 1 - (x - p)) = y /\ p + (len - 1 - (y - p)) = x BY <1>m, <2>1
    <2> HIDE DEF Done, x, y
    <2>6. Now(k - 1)[x] = m[x] /\ Now(k - 1)[y] = m[y] BY <2>2, <2>3
    <2>7. Now(k) = [Now(k - 1) EXCEPT ![x] = m[y], ![y] = m[x]]
      <3>1. ASSUME NEW a \in Addresses PROVE Now(k)[a] = [Now(k - 1) EXCEPT ![x] = m[y], ![y] = m[x]][a]
        <4>1. CASE a = x BY <2>2, <2>4, <2>5, <4>1
        <4>2. CASE a = y BY <2>2, <2>4, <2>5, <4>2
        <4>3. CASE a # x /\ a # y BY <2>4, <4>3
        <4> QED BY <4>1, <4>2, <4>3
      <3> QED BY <3>1
    <2> QED BY <2>6, <2>7 DEF x, y
  <1>3. Is(g)
    <2>0. 0 \in 0 .. h BY <1>h
    <2>1. g[0] = m BY <2>0, <1>1
    <2>2. ASSUME NEW k \in 0 .. h, k # 0 PROVE g[k] = Next1(g, k)
      <3>1. k \in 1 .. h /\ k - 1 \in 0 .. h BY <1>h, <2>2
      <3> HIDE DEF Now
      <3>2. g[k] = Now(k) /\ g[k - 1] = Now(k - 1) BY <3>1
      <3> HIDE DEF g
      <3> QED BY <1>2, <3>1, <3>2
    <2>3. g = [k \in 0 .. h |-> g[k]] OBVIOUS
    <2> HIDE DEF g, Next1, Now
    <2>4. \A k \in 0 .. h : g[k] = IF k = 0 THEN m ELSE Next1(g, k) BY <2>1, <2>2
    <2> QED BY <2>3, <2>4
  <1>4. Is(after)
    <2> HIDE DEF Is, g
    <2> QED BY <1>3, Zenon
  <1> HIDE DEF after, g
  <1>5. after[0] = m /\ \A k \in 1 .. h : after[k] = Next1(after, k)
    <2> HIDE DEF Next1
    <2>0. 0 \in 0 .. h /\ \A k \in 1 .. h : k \in 0 .. h /\ k # 0 BY <1>h
    <2>1. \A k \in 0 .. h : after[k] = IF k = 0 THEN m ELSE Next1(after, k) BY <1>4
    <2> QED BY <2>0, <2>1
  <1> DEFINE T == {k \in Nat : k > h \/ after[k] = Now(k)}
  <1>6. T \in SUBSET Nat /\ 0 \in T BY <1>1, <1>5
  <1>7. ASSUME NEW k \in Nat, k \in T PROVE k + 1 \in T
    <2> HIDE DEF Now
    <2>1. CASE k + 1 > h BY <2>1
    <2>2. CASE k + 1 <= h
      <3>1. k + 1 \in 1 .. h /\ (k + 1) - 1 = k /\ after[k] = Now(k) BY <1>h, <1>7, <2>2
      <3> DEFINE x == p + (k + 1) - 1  y == p + len - (k + 1)
      <3>2. after[k + 1] = [after[k] EXCEPT ![x] = after[k][y], ![y] = after[k][x]] BY <1>5, <3>1
      <3>3. Now(k + 1) = [Now(k) EXCEPT ![x] = Now(k)[y], ![y] = Now(k)[x]] BY <1>2, <3>1
      <3> HIDE DEF x, y
      <3>4. after[k + 1] = Now(k + 1) BY <3>1, <3>2, <3>3
      <3> QED BY <3>4
    <2> QED BY <1>h, <2>1, <2>2
  <1>8. after[h] = Now(h)
    <2> HIDE DEF T
    <2>1. h \in T BY <1>h, <1>6, <1>7, Induction
    <2> QED BY <1>h, <2>1 DEF T
  <1>9. ASSUME NEW a \in Addresses
        PROVE  Now(h)[a] = IF a - p \in 0 .. len - 1 THEN m[p + (len - 1 - (a - p))] ELSE m[a]
    <2>1. a \in Nat BY <1>m
    <2>2. CASE Done(h, a)
      <3>1. a - p \in 0 .. len - 1 BY <1>m, <1>h, <2>1, <2>2
      <3> QED BY <2>2, <3>1
    <2>3. CASE ~ Done(h, a) /\ a - p \in 0 .. len - 1
      <3>1. p + (len - 1 - (a - p)) = a BY <1>m, <1>h, <2>1, <2>3
      <3> HIDE DEF Done
      <3> QED BY <2>3, <3>1
    <2>4. CASE ~ Done(h, a) /\ a - p \notin 0 .. len - 1
      <3> HIDE DEF Done
      <3> QED BY <2>4
    <2> QED BY <2>2, <2>3, <2>4
  <1> QED BY <1>s, <1>8, <1>9

LEMMA StrrevWrites ==
    ASSUME NEW m \in Memory, NEW p \in Addresses, NEW n \in Nat, Ends(m, p, n)
    PROVE  strrev(m, p) = Write(m, p, Reverse(Chars(m, p)))
  <1> DEFINE str == Block(m, p, n)
             s == Reverse(str)
             r == strrev(m, p)
  <1>1. p \in Nat /\ MemSize \in Nat /\ Addresses \subseteq Nat /\ p + n < MemSize
    BY CStringAssumption DEF Addresses, Ends
  <1>2. Chars(m, p) = str BY MemoryIs, CharsAre
  <1>3. Len(str) = n /\ \A i \in 1 .. n : str[i] = m[p + i - 1] BY BlockIs
  <1> HIDE DEF str
  <1>4. DOMAIN s = 1 .. n /\ \A i \in 1 .. n : s[i] = m[p + (n - i)]
    <2>1. DOMAIN s = 1 .. n /\ \A i \in 1 .. n : s[i] = str[(n - i) + 1] BY <1>3 DEF Reverse
    <2>2. ASSUME NEW i \in 1 .. n PROVE s[i] = m[p + (n - i)]
      <3>1. (n - i) + 1 \in 1 .. n /\ p + ((n - i) + 1) - 1 = p + (n - i) BY <1>1
      <3> QED BY <1>3, <2>1, <3>1
    <2> QED BY <2>1, <2>2
  <1>5. r = [a \in Addresses |-> IF a - p \in 0 .. n - 1 THEN m[p + (n - 1 - (a - p))] ELSE m[a]] BY StrrevIs
  <1> HIDE DEF r, s
  <1>6. ASSUME NEW a \in Addresses, a - p \in 0 .. n - 1 PROVE r[a] = s[(a - p) + 1]
    <2>1. (a - p) + 1 \in 1 .. n /\ n - ((a - p) + 1) = n - 1 - (a - p) BY <1>1, <1>6
    <2> QED BY <1>4, <1>5, <1>6, <2>1
  <1>7. \A a \in Addresses : a - p \notin 0 .. n - 1 => r[a] = m[a] BY <1>5
  <1>8. IsMem(r) BY <1>5 DEF IsMem
  <1>9. Holds(r, m, p, n, s) BY <1>4, <1>6, <1>7, <1>8 DEF Holds
  <1>10. r = Write(m, p, s) BY <1>1, <1>9, MemoryIs, WriteIs
  <1> QED BY <1>2, <1>10 DEF r, s

-----------------------------------------------------------------------------
(* Longwords. *)
LEMMA WordOf ==
    ASSUME NEW c \in Nat, NEW x \in Nat, WORD * c <= x, x < WORD * c + WORD
    PROVE  x \div WORD = c
  <1>1. WORD \in Nat /\ WORD > 0 BY CStringAssumption
  <1> DEFINE d == x \div WORD
             r == x % WORD
  <1>2. d \in Nat /\ r \in 0 .. WORD - 1 /\ x = WORD * d + r BY <1>1
  <1> HIDE DEF d, r
  <1>3. ASSUME d < c PROVE FALSE
    <2>1. WORD * (d + 1) <= WORD * c BY <1>1, <1>2, <1>3
    <2>2. WORD * (d + 1) = WORD * d + WORD BY <1>1, <1>2
    <2> QED BY <1>1, <1>2, <2>1, <2>2
  <1>4. ASSUME c < d PROVE FALSE
    <2>1. WORD * (c + 1) <= WORD * d BY <1>1, <1>2, <1>4
    <2>2. WORD * (c + 1) = WORD * c + WORD BY <1>1
    <2> QED BY <1>1, <1>2, <2>1, <2>2
  <1>5. d = c BY <1>2, <1>3, <1>4
  <1> QED BY <1>5 DEF d

LEMMA WordBelow ==
    ASSUME NEW c \in Nat, NEW d \in Nat, WORD * c < WORD * d
    PROVE  c < d /\ WORD * c + WORD <= WORD * d
  <1>1. WORD \in Nat /\ WORD > 0 BY CStringAssumption
  <1>2. c < d
    <2>1. ASSUME d <= c PROVE WORD * d <= WORD * c BY <1>1, <2>1
    <2>2. WORD * d \in Nat /\ WORD * c \in Nat BY <1>1
    <2> QED BY <2>1, <2>2
  <1>3. WORD * (c + 1) <= WORD * d BY <1>1, <1>2
  <1>4. WORD * (c + 1) = WORD * c + WORD BY <1>1
  <1> QED BY <1>2, <1>3, <1>4

LEMMA FirstLongwordIs ==
    ASSUME NEW p \in Addresses
    PROVE  \E c \in Nat, M \in Nat :
              /\ FirstLongword(p) = WORD * c /\ p <= WORD * c /\ MemSize = WORD * M /\ WORD * c <= MemSize
              /\ \A a \in p .. WORD * c - 1 : a \div WORD = p \div WORD
  <1>1. WORD \in Nat /\ WORD > 0 /\ MemSize \in Nat /\ MemSize % WORD = 0 /\ p \in Nat /\ p < MemSize
    BY CStringAssumption DEF Addresses
  <1> DEFINE d == p \div WORD
             r == p % WORD
             M == MemSize \div WORD
  <1>2. d \in Nat /\ r \in 0 .. WORD - 1 /\ p = WORD * d + r BY <1>1
  <1>3. M \in Nat /\ MemSize = WORD * M BY <1>1
  <1>4. FirstLongword(p) = p + ((WORD - r) % WORD) BY DEF FirstLongword
  <1> HIDE DEF d, r, M
  <1>5. CASE r = 0
    <2>1. WORD - r = WORD /\ WORD % WORD = 0 BY <1>1, <1>5
    <2>2. FirstLongword(p) = WORD * d /\ p = WORD * d BY <1>1, <1>2, <1>4, <1>5, <2>1
    <2>3. \A a \in p .. WORD * d - 1 : a \div WORD = p \div WORD
      <3>1. p .. WORD * d - 1 = {} BY <1>1, <2>2
      <3> QED BY <3>1
    <2>4. p <= WORD * d /\ WORD * d <= MemSize BY <1>1, <2>2
    <2> QED BY <1>2, <1>3, <2>2, <2>3, <2>4
  <1>6. CASE r # 0
    <2>1. WORD - r \in 0 .. WORD - 1 BY <1>1, <1>2, <1>6
    <2>2. (WORD - r) % WORD = WORD - r BY <1>1, <2>1
    <2> DEFINE c == d + 1
    <2>3. WORD * c = WORD * d + WORD /\ c \in Nat BY <1>1, <1>2
    <2>4. WORD * d \in Nat BY <1>1, <1>2
    <2> HIDE DEF c
    <2>5. FirstLongword(p) = WORD * c /\ p <= WORD * c BY <1>1, <1>2, <1>4, <2>2, <2>3, <2>4
    <2>6. WORD * c <= MemSize
      <3>1. WORD * d < WORD * M BY <1>1, <1>2, <1>3, <2>4
      <3>2. WORD * d + WORD <= WORD * M BY <1>2, <1>3, <3>1, WordBelow
      <3> QED BY <1>3, <2>3, <3>2
    <2>7. ASSUME NEW a \in p .. WORD * c - 1 PROVE a \div WORD = p \div WORD
      <3>1. a \in Nat /\ WORD * d <= a /\ a < WORD * d + WORD BY <1>1, <1>2, <2>3, <2>4
      <3>2. WORD * d <= p /\ p < WORD * d + WORD BY <1>1, <1>2, <2>4
      <3>3. a \div WORD = d BY <1>2, <3>1, WordOf
      <3>4. p \div WORD = d BY <1>1, <1>2, <3>2, WordOf
      <3> QED BY <3>3, <3>4
    <2> QED BY <1>3, <2>3, <2>5, <2>6, <2>7
  <1> QED BY <1>5, <1>6

LEMMA EndPtrIs ==
    ASSUME NEW p \in Addresses, NEW n \in Nat, n < ADDRESSES
    PROVE  EndPtr(p, n) = IF p + n < ADDRESSES THEN p + n ELSE ADDRESSES - 1
  <1> DEFINE A == ADDRESSES
             end == (p + n) % A
  <1>1. A \in Nat /\ MemSize \in Nat /\ p \in Nat /\ p < A /\ n < A BY CStringAssumption DEF Addresses
  <1>2. EndPtr(p, n) = IF end < p THEN A - 1 ELSE end BY DEF EndPtr
  <1> HIDE DEF A
  <1>3. CASE p + n < A
    <2>1. end = p + n BY <1>1, <1>3
    <2> QED BY <1>1, <1>2, <1>3, <2>1 DEF A
  <1>4. CASE p + n >= A
    <2>1. p + n - A \in 0 .. A - 1 /\ p + n = A * 1 + (p + n - A) BY <1>1, <1>4
    <2>2. end = p + n - A BY <1>1, <2>1
    <2>3. end < p BY <1>1, <2>2
    <2> QED BY <1>1, <1>2, <1>4, <2>3 DEF A
  <1> QED BY <1>1, <1>3, <1>4

(* A longword that holds a zero byte gets an answer from the filter: the   *)
(* bytes below its lowest zero are not zero, so that zero pays no borrow   *)
(* and becomes the largest byte.                                           *)
LEMMA FilterAnswers ==
    ASSUME NEW m \in Memory, NEW w \in Nat, w + WORD <= MemSize, NEW z \in w .. w + WORD - 1, m[z] = 0,
           \A a \in w .. z - 1 : m[a] # 0
    PROVE  Filter(m, w)
  <1> DEFINE i == z - w
  <1>1. /\ WORD \in Nat /\ MemSize \in Nat /\ UCHAR \in Nat /\ UCHAR > 0 /\ UCHAR % 2 = 0
        /\ Addresses \subseteq Nat
    BY CStringAssumption DEF Addresses
  <1>2. i \in 0 .. WORD - 1 /\ w + i = z /\ z \in Addresses BY <1>1 DEF Addresses
  <1>3. DOMAIN m = Addresses BY MemoryIs
  <1>4. Byte(m, w + i) = 0 BY <1>2, <1>3 DEF Byte
  <1>5. ASSUME NEW j \in 0 .. i - 1 PROVE ~ (Byte(m, w + j) < lomagic)
    <2>1. w + j \in w .. z - 1 /\ w + j \in Addresses BY <1>1, <1>2 DEF Addresses
    <2>2. m[w + j] # 0 /\ m[w + j] \in Chars256 BY <2>1, MemoryIs
    <2>3. Byte(m, w + j) = m[w + j] BY <1>3, <2>1 DEF Byte
    <2>4. Byte(m, w + j) \in Nat /\ Byte(m, w + j) # 0 BY <1>1, <2>2, <2>3 DEF Chars256
    <2> QED BY <2>4 DEF lomagic
  <1>6. ~ Borrow(m, w, i) BY <1>5 DEF Borrow
  <1>7. Difference(m, w, i) = (0 - 1) % UCHAR BY <1>4, <1>6 DEF Difference, lomagic
  <1>8. (0 - 1) % UCHAR = UCHAR - 1 BY <1>1
  <1>9. UCHAR - 1 >= UCHAR \div 2 BY <1>1
  <1> HIDE DEF i
  <1> QED BY <1>2, <1>7, <1>8, <1>9 DEF Filter

(* The loop over longwords ends at the first one that lies behind the      *)
(* limit or gets an answer for a zero byte in it.                          *)
At0(first, k) == first + k * WORD
ZeroAt(m, first, k) == FirstZero(m, At0(first, k), At0(first, k) + WORD - 1)
Stops(m, first, end, k) ==
    At0(first, k) >= end \/ (Filter(m, At0(first, k)) /\ ZeroAt(m, first, k) # NULL)
StopsWith(m, first, end, k) ==
    IF At0(first, k) >= end THEN [char_ptr |-> IF k = 0 THEN first ELSE end, last |-> At0(first, k)]
    ELSE [char_ptr |-> ZeroAt(m, first, k), last |-> At0(first, k) + WORD]

LEMMA LongwordsAre ==
    ASSUME NEW m, NEW first, NEW end, NEW K \in Nat, Stops(m, first, end, K),
           \A k \in 0 .. K - 1 : ~ Stops(m, first, end, k)
    PROVE  Longwords(m, first, end) = StopsWith(m, first, end, K)
  <1> DEFINE stop == {k \in Nat : Stops(m, first, end, k)}
             val == [k \in Nat |-> StopsWith(m, first, end, k)]
             W(k) == first + k * WORD
             ZeroIn(k) == FirstZero(m, first + k * WORD, first + k * WORD + WORD - 1)
             Is(f) == f = [k \in Nat |->
                 IF first + k * WORD >= end
                 THEN [char_ptr |-> IF k = 0 THEN first ELSE end, last |-> first + k * WORD]
                 ELSE IF Filter(m, first + k * WORD) /\ ZeroIn(k) # NULL
                      THEN [char_ptr |-> ZeroIn(k), last |-> first + k * WORD + WORD]
                      ELSE f[k + 1]]
             scan == CHOOSE f : Is(f)
  <1>s. Longwords(m, first, end) = scan[0] BY Zenon DEF Longwords
  <1>1. ASSUME NEW f PROVE Scans(f, stop, val) <=> Is(f)
    <2>1. ASSUME NEW k \in Nat
          PROVE  (IF k \in stop THEN val[k] ELSE f[k + 1])
                 = IF first + k * WORD >= end
                   THEN [char_ptr |-> IF k = 0 THEN first ELSE end, last |-> first + k * WORD]
                   ELSE IF Filter(m, first + k * WORD) /\ ZeroIn(k) # NULL
                        THEN [char_ptr |-> ZeroIn(k), last |-> first + k * WORD + WORD]
                        ELSE f[k + 1]
      <3>1. val[k] = StopsWith(m, first, end, k) /\ (k \in stop <=> Stops(m, first, end, k)) OBVIOUS
      <3> HIDE DEF val, stop
      <3>2. CASE At0(first, k) >= end BY <3>1, <3>2, Zenon DEF Stops, StopsWith, At0
      <3>3. CASE ~ (At0(first, k) >= end) BY <3>1, <3>3, Zenon DEF Stops, StopsWith, At0, ZeroAt
      <3> QED BY <3>2, <3>3
    <2>2. [k \in Nat |-> IF k \in stop THEN val[k] ELSE f[k + 1]]
          = [k \in Nat |-> IF first + k * WORD >= end
                   THEN [char_ptr |-> IF k = 0 THEN first ELSE end, last |-> first + k * WORD]
                   ELSE IF Filter(m, first + k * WORD) /\ ZeroIn(k) # NULL
                        THEN [char_ptr |-> ZeroIn(k), last |-> first + k * WORD + WORD]
                        ELSE f[k + 1]]
      BY <2>1, Zenon
    <2> HIDE DEF stop, val, ZeroIn
    <2> QED BY <2>2, Zenon DEF Scans
  <1>2. \E f : Is(f)
    <2>1. PICK f : Scans(f, stop, val) BY ScanExists
    <2> HIDE DEF Is
    <2> QED BY <1>1, <2>1
  <1> HIDE DEF Is
  <1>3. Is(scan) BY <1>2, Zenon
  <1>4. Scans(scan, stop, val) BY <1>1, <1>3
  <1> HIDE DEF scan
  <1>5. K \in stop /\ \A k \in 0 .. K - 1 : k \notin stop OBVIOUS
  <1>6. val[K] = StopsWith(m, first, end, K) OBVIOUS
  <1> HIDE DEF stop, val
  <1>7. scan[0] = val[K] BY <1>4, <1>5, ScanIs
  <1> QED BY <1>s, <1>6, <1>7

LEMMA NoZero ==
    ASSUME NEW m, DOMAIN m = Addresses, NEW from \in Nat, NEW to \in Int, to < MemSize
    PROVE  /\ FirstZero(m, from, to) = NULL => \A a \in from .. to : m[a] # 0
           /\ FirstZero(m, from, to) # NULL =>
                 /\ FirstZero(m, from, to) \in from .. to /\ m[FirstZero(m, from, to)] = 0
                 /\ \A a \in from .. FirstZero(m, from, to) - 1 : m[a] # 0
  <1> DEFINE zeros == {a \in from .. to : Byte(m, a) = 0}
             x == Min(zeros)
  <1>1. MemSize \in Nat BY CStringAssumption
  <1>2. \A a \in from .. to : Byte(m, a) = m[a] BY <1>1 DEF Byte, Addresses
  <1>3. zeros \in SUBSET Nat OBVIOUS
  <1>4. CASE zeros = {}
    <2>1. FirstZero(m, from, to) = NULL BY <1>4 DEF FirstZero
    <2>2. \A a \in from .. to : m[a] # 0 BY <1>2, <1>4
    <2> QED BY <2>1, <2>2
  <1>5. CASE zeros # {}
    <2>1. FirstZero(m, from, to) = x BY <1>5 DEF FirstZero
    <2>2. x \in zeros /\ \A y \in zeros : x <= y BY <1>3, <1>5, MinOfSome
    <2> HIDE DEF x
    <2>3. x \in from .. to /\ m[x] = 0 /\ x \in Nat BY <1>2, <2>2
    <2>4. ASSUME NEW a \in from .. x - 1 PROVE m[a] # 0
      <3>1. a \in from .. to /\ ~ (x <= a) BY <2>3
      <3> QED BY <1>2, <2>2, <3>1
    <2>5. x # NULL BY <2>3 DEF NULL
    <2> QED BY <2>1, <2>3, <2>4, <2>5
  <1> QED BY <1>4, <1>5

-----------------------------------------------------------------------------
(* What strnlen is to find: the string is len long, or longer than n.      *)
Cut(m, p, n, len) ==
    /\ len \in Nat /\ len <= n /\ p + len <= MemSize /\ \A i \in 0 .. len - 1 : m[p + i] # 0
    /\ len < n => p + len < MemSize /\ m[p + len] = 0

LEMMA BoundedIs ==
    ASSUME NEW m \in Memory, NEW p \in Addresses, NEW n \in Nat,
           (\E a \in p .. MemSize - 1 : m[a] = 0) \/ p + n <= MemSize
    PROVE  \E len \in Nat : Cut(m, p, n, len) /\ Bounded(m, p, n) = Block(m, p, len)
  <1>1. MemSize \in Nat /\ p \in Nat BY CStringAssumption DEF Addresses
  <1>2. CASE \E a \in p .. MemSize - 1 : m[a] = 0
    <2>1. PICK k \in Nat : Ends(m, p, k) BY <1>2, StringEnds
    <2>2. FirstZero(m, p, MemSize - 1) = p + k BY <2>1, MemoryIs, CharsAre
    <2>3. (p + k) - p = k BY <1>1
    <2> DEFINE len == Min({n, k})
    <2>4. Bounded(m, p, n) = Block(m, p, len) BY <1>2, <2>2, <2>3 DEF Bounded
    <2>5. len \in {n, k} /\ len <= n /\ len <= k
      <3>1. {n, k} \in SUBSET Nat /\ {n, k} # {} OBVIOUS
      <3>2. len \in {n, k} /\ \A y \in {n, k} : len <= y BY <3>1, MinOfSome
      <3> QED BY <3>2
    <2> HIDE DEF len
    <2>6. len \in Nat /\ \A i \in 0 .. len - 1 : i \in 0 .. k - 1 BY <2>5
    <2>7. Cut(m, p, n, len) BY <1>1, <2>1, <2>5, <2>6 DEF Cut, Ends
    <2> QED BY <2>4, <2>6, <2>7
  <1>3. CASE ~ \E a \in p .. MemSize - 1 : m[a] = 0
    <2>1. Bounded(m, p, n) = Block(m, p, n) BY <1>3 DEF Bounded
    <2>2. \A i \in 0 .. n - 1 : p + i \in p .. MemSize - 1 BY <1>1, <1>3
    <2>3. Cut(m, p, n, n) BY <1>1, <1>3, <2>2 DEF Cut
    <2> QED BY <2>1, <2>3
  <1> QED BY <1>2, <1>3

Near(p, n, len, reads) ==
    \A a \in reads : \E b \in p .. p + len - (IF len = n THEN 1 ELSE 0) : a \div WORD = b \div WORD

(* The limit lies at or behind what strnlen is to find. *)
LEMMA CutIs ==
    ASSUME NEW p \in Addresses, NEW n \in Nat, n < ADDRESSES, NEW m, NEW len \in Nat, Cut(m, p, n, len)
    PROVE  /\ EndPtr(p, n) \in Nat /\ p + len <= EndPtr(p, n)
           /\ len = n => EndPtr(p, n) = p + len
           /\ len # n => p + len < EndPtr(p, n)
  <1>1. ADDRESSES \in Nat /\ MemSize \in Nat /\ MemSize < ADDRESSES /\ p \in Nat
    BY CStringAssumption DEF Addresses
  <1>2. EndPtr(p, n) = IF p + n < ADDRESSES THEN p + n ELSE ADDRESSES - 1 BY EndPtrIs
  <1>3. len <= n /\ p + len <= MemSize /\ (len < n => p + len < MemSize) BY DEF Cut
  <1> QED BY <1>1, <1>2, <1>3

(* A zero before the first aligned address ends the search there. *)
LEMMA HeadIs ==
    ASSUME NEW m \in Memory, NEW p \in Addresses, NEW n \in Nat \ {0}, n < ADDRESSES,
           NEW len \in Nat, Cut(m, p, n, len),
           NEW c \in Nat, WORD * c <= MemSize, \A a \in p .. WORD * c - 1 : a \div WORD = p \div WORD,
           NEW h \in p .. WORD * c - 1, m[h] = 0, \A a \in p .. h - 1 : m[a] # 0
    PROVE  /\ (IF h > EndPtr(p, n) THEN EndPtr(p, n) ELSE h) - p = len
           /\ Near(p, n, len, p .. h)
  <1> DEFINE end == EndPtr(p, n)
             e == WORD * c
  <1>1. p \in Nat /\ MemSize \in Nat /\ e \in Nat BY CStringAssumption DEF Addresses
  <1>2. /\ end \in Nat /\ p + len <= end /\ (len = n => end = p + len) /\ (len # n => p + len < end)
    BY CutIs
  <1> HIDE DEF end, e
  <1>3. h >= p + len
    <2>1. ASSUME h < p + len PROVE FALSE
      <3>1. h - p \in 0 .. len - 1 /\ p + (h - p) = h BY <1>1, <2>1
      <3> QED BY <3>1 DEF Cut
    <2> QED BY <1>1, <2>1
  <1>4. len # n => h = p + len
    <2>1. ASSUME len # n, h > p + len PROVE FALSE
      <3>1. p + len \in p .. h - 1 BY <1>1, <2>1
      <3>2. m[p + len] = 0 BY <2>1 DEF Cut
      <3> QED BY <3>1, <3>2
    <2> QED BY <1>1, <1>3, <2>1
  <1>5. (IF h > end THEN end ELSE h) - p = len
    <2>1. CASE len = n BY <1>1, <1>2, <1>3, <2>1
    <2>2. CASE len # n BY <1>1, <1>2, <1>4, <2>2
    <2> QED BY <2>1, <2>2
  <1>6. ASSUME NEW a \in p .. h
        PROVE  \E b \in p .. p + len - (IF len = n THEN 1 ELSE 0) : a \div WORD = b \div WORD
    <2>1. p \in p .. p + len - (IF len = n THEN 1 ELSE 0) BY <1>1
    <2>2. a \in p .. e - 1 BY <1>1 DEF e
    <2>3. a \div WORD = p \div WORD BY <2>2 DEF e
    <2> QED BY <2>1, <2>3
  <1> QED BY <1>5, <1>6 DEF Near, end

(* The words of the search. *)
LEMMA At0Is ==
    ASSUME NEW c \in Nat, NEW k \in Nat
    PROVE  At0(WORD * c, k) = WORD * (c + k) /\ At0(WORD * c, k) \in Nat
  BY CStringAssumption DEF At0

LEMMA At0Next ==
    ASSUME NEW c \in Nat, NEW k \in Nat
    PROVE  At0(WORD * c, k + 1) = At0(WORD * c, k) + WORD
  <1>1. WORD \in Nat BY CStringAssumption
  <1>2. (k + 1) * WORD = k * WORD + WORD BY <1>1
  <1>3. WORD * c \in Nat /\ k * WORD \in Nat BY <1>1
  <1> QED BY <1>1, <1>2, <1>3 DEF At0

(* An aligned address inside the memory starts a longword inside it. *)
LEMMA WordInside ==
    ASSUME NEW c \in Nat, NEW M \in Nat, MemSize = WORD * M, NEW k \in Nat, At0(WORD * c, k) < MemSize
    PROVE  At0(WORD * c, k) + WORD <= MemSize
  <1>1. At0(WORD * c, k) = WORD * (c + k) BY At0Is
  <1>2. c + k \in Nat OBVIOUS
  <1> QED BY <1>1, <1>2, WordBelow

LEMMA SameWord ==
    ASSUME NEW c \in Nat, NEW k \in Nat, NEW x \in Nat, NEW y \in Nat,
           At0(WORD * c, k) <= x, x < At0(WORD * c, k) + WORD,
           At0(WORD * c, k) <= y, y < At0(WORD * c, k) + WORD
    PROVE  x \div WORD = y \div WORD
  <1>1. At0(WORD * c, k) = WORD * (c + k) BY At0Is
  <1>2. c + k \in Nat OBVIOUS
  <1>3. x \div WORD = c + k BY <1>1, <1>2, WordOf
  <1>4. y \div WORD = c + k BY <1>1, <1>2, WordOf
  <1> QED BY <1>3, <1>4

LEMMA SomeStop ==
    ASSUME NEW m, NEW c \in Nat, NEW end \in Nat
    PROVE  \E K \in Nat : Stops(m, WORD * c, end, K) /\ \A k \in 0 .. K - 1 : ~ Stops(m, WORD * c, end, k)
  <1> DEFINE T == {k \in Nat : Stops(m, WORD * c, end, k)}
             K == Min(T)
  <1>1. WORD \in Nat /\ WORD >= 1 BY CStringAssumption
  <1>2. end * WORD >= end * 1 /\ end * 1 = end /\ WORD * c \in Nat /\ end * WORD \in Nat BY <1>1
  <1>3. At0(WORD * c, end) >= end BY <1>2 DEF At0
  <1>4. end \in T BY <1>3 DEF Stops
  <1>5. T \in SUBSET Nat /\ T # {} BY <1>4
  <1>6. K \in T /\ \A y \in T : K <= y BY <1>5, MinOfSome
  <1> HIDE DEF K
  <1>7. K \in Nat /\ Stops(m, WORD * c, end, K) BY <1>6
  <1>8. ASSUME NEW k \in 0 .. K - 1, Stops(m, WORD * c, end, k) PROVE FALSE
    <2>1. k \in T /\ ~ (K <= k) BY <1>7, <1>8
    <2> QED BY <1>6, <2>1
  <1> QED BY <1>7, <1>8

(* What the search over longwords finds, from the aligned address on. *)
Found(m, p, n, len, first, end, K) ==
    LET r == StopsWith(m, first, end, K)
    IN /\ (IF r.char_ptr > end THEN end ELSE r.char_ptr) - p = len
       /\ Near(p, n, len, p .. r.last - 1)

(* The limit comes before any zero. *)
LEMMA FoundLimit ==
    ASSUME NEW m \in Memory, NEW p \in Addresses, NEW n \in Nat \ {0}, NEW len \in Nat, Cut(m, p, n, len),
           len = n, NEW end, end = p + len,
           NEW c \in Nat, NEW M \in Nat, MemSize = WORD * M, p <= WORD * c,
           \A a \in p .. WORD * c - 1 : a \div WORD = p \div WORD,
           NEW K \in Nat, Stops(m, WORD * c, end, K), \A k \in 0 .. K - 1 : ~ Stops(m, WORD * c, end, k)
    PROVE  Found(m, p, n, len, WORD * c, end, K)
  <1> DEFINE first == WORD * c
             w == At0(first, K)
             r == StopsWith(m, first, end, K)
  <1>1. /\ p \in Nat /\ MemSize \in Nat /\ WORD \in Nat /\ WORD >= 1 /\ first \in Nat
        /\ end \in Nat /\ end <= MemSize /\ end >= p + 1 /\ w \in Nat
    <2>1. p \in Nat /\ MemSize \in Nat /\ WORD \in Nat /\ WORD >= 1 BY CStringAssumption DEF Addresses
    <2>2. p + len <= MemSize /\ len >= 1 BY DEF Cut
    <2>3. first \in Nat BY <2>1
    <2>4. w \in Nat BY At0Is
    <2> HIDE DEF first, w
    <2> QED BY <2>1, <2>2, <2>3, <2>4
  <1>2. At0(first, 0) = first BY <1>1 DEF At0
  <1>3. first <= w BY <1>1, CStringAssumption DEF At0
  <1>4. ASSUME NEW a \in Nat, p <= a, a < end
        PROVE  \E b \in p .. p + len - (IF len = n THEN 1 ELSE 0) : a \div WORD = b \div WORD
    <2>1. a \in p .. p + len - (IF len = n THEN 1 ELSE 0) BY <1>1, <1>4
    <2> QED BY <2>1
  <1>5. end - 1 \in p .. p + len - (IF len = n THEN 1 ELSE 0) /\ end - 1 \in Nat BY <1>1
  <1>6. CASE w >= end
    <2>1. r = [char_ptr |-> IF K = 0 THEN first ELSE end, last |-> w] BY <1>6 DEF StopsWith
    <2>2. (IF r.char_ptr > end THEN end ELSE r.char_ptr) - p = len
      <3>1. CASE K = 0
        <4>1. r.char_ptr = first /\ first >= end BY <1>2, <1>6, <2>1, <3>1
        <4> HIDE DEF first, w, r
        <4> QED BY <1>1, <4>1
      <3>2. CASE K # 0
        <4>1. r.char_ptr = end BY <2>1, <3>2
        <4> HIDE DEF first, w, r
        <4> QED BY <1>1, <4>1
      <3> QED BY <3>1, <3>2
    <2>3. ASSUME NEW a \in p .. w - 1
          PROVE  \E b \in p .. p + len - (IF len = n THEN 1 ELSE 0) : a \div WORD = b \div WORD
      <3>1. a \in Nat /\ p <= a BY <1>1
      <3>2. CASE a < end BY <1>4, <3>1, <3>2
      <3>3. CASE a >= end /\ K = 0
        <4>1. w = first BY <1>2, <3>3
        <4> HIDE DEF w
        <4>2. a \in p .. first - 1 /\ end - 1 \in p .. first - 1 BY <1>1, <1>6, <3>3, <4>1
        <4>3. a \div WORD = (end - 1) \div WORD BY <4>2
        <4> QED BY <1>5, <4>3
      <3>4. CASE a >= end /\ K # 0
        <4> DEFINE v == At0(first, K - 1)
        <4>1. K - 1 \in 0 .. K - 1 /\ K - 1 \in Nat /\ (K - 1) + 1 = K BY <3>4
        <4>2. ~ (v >= end) BY <4>1 DEF Stops
        <4>3. w = v + WORD /\ v \in Nat BY <4>1, At0Next, At0Is
        <4> HIDE DEF w, v, first
        <4>4. v <= a /\ a < v + WORD /\ v <= end - 1 /\ end - 1 < v + WORD BY <1>1, <3>1, <3>4, <4>2, <4>3
        <4>5. a \div WORD = (end - 1) \div WORD BY <1>5, <3>1, <4>1, <4>4, SameWord DEF v, first
        <4> QED BY <1>5, <4>5
      <3> QED BY <1>1, <3>1, <3>2, <3>3, <3>4
    <2>4. r.last = w BY <2>1
    <2> HIDE DEF r, w, first
    <2>5. Near(p, n, len, p .. r.last - 1) BY <2>3, <2>4 DEF Near
    <2> QED BY <2>2, <2>5 DEF Found, r, first
  <1>7. CASE ~ (w >= end)
    <2> DEFINE z == ZeroAt(m, first, K)
    <2>1. z # NULL BY <1>7 DEF Stops
    <2>2. w + WORD <= MemSize
      <3>1. w < MemSize BY <1>1, <1>7
      <3> QED BY <3>1, WordInside
    <2>3. z \in w .. w + WORD - 1 /\ m[z] = 0
      <3> HIDE DEF w
      <3>1. DOMAIN m = Addresses BY MemoryIs
      <3>2. w + WORD - 1 \in Int /\ w + WORD - 1 < MemSize BY <1>1, <2>2
      <3>3. z = FirstZero(m, w, w + WORD - 1) BY DEF ZeroAt, w
      <3> HIDE DEF z
      <3> QED BY <1>1, <2>1, <3>1, <3>2, <3>3, NoZero
    <2>4. r = [char_ptr |-> z, last |-> w + WORD] BY <1>7 DEF StopsWith
    <2>5. r.char_ptr = z /\ r.last = w + WORD BY <2>4
    <2> HIDE DEF z, w, r, first
    <2>6. z \in Nat /\ z >= end
      <3>1. z \in Nat /\ z >= p BY <1>1, <1>3, <2>3 DEF first
      <3>2. ASSUME z < end PROVE FALSE
        <4>1. z - p \in 0 .. len - 1 /\ p + (z - p) = z BY <1>1, <3>1, <3>2
        <4> QED BY <2>3, <4>1 DEF Cut
      <3> QED BY <1>1, <3>1, <3>2
    <2>7. (IF r.char_ptr > end THEN end ELSE r.char_ptr) - p = len BY <1>1, <2>5, <2>6
    <2>8. ASSUME NEW a \in p .. r.last - 1
          PROVE  \E b \in p .. p + len - (IF len = n THEN 1 ELSE 0) : a \div WORD = b \div WORD
      <3>1. a \in Nat /\ p <= a BY <1>1, <2>5
      <3>2. CASE a < end BY <1>4, <3>1, <3>2
      <3>3. CASE a >= end
        <4>1. w <= a /\ a < w + WORD /\ w <= end - 1 /\ end - 1 < w + WORD BY <1>1, <1>7, <2>5, <3>1, <3>3
        <4>2. a \div WORD = (end - 1) \div WORD BY <1>5, <3>1, <4>1, SameWord DEF w, first
        <4> QED BY <1>5, <4>2
      <3> QED BY <1>1, <3>1, <3>2, <3>3
    <2>9. Near(p, n, len, p .. r.last - 1) BY <2>8 DEF Near
    <2> QED BY <2>7, <2>9 DEF Found, r, first
  <1> QED BY <1>6, <1>7

(* The zero comes before the limit. *)
LEMMA FoundZero ==
    ASSUME NEW m \in Memory, NEW p \in Addresses, NEW n \in Nat \ {0}, NEW len \in Nat, Cut(m, p, n, len),
           len # n, NEW end \in Nat, p + len < end,
           NEW c \in Nat, NEW M \in Nat, MemSize = WORD * M, p <= WORD * c,
           \A a \in p .. WORD * c - 1 : m[a] # 0,
           NEW K \in Nat, Stops(m, WORD * c, end, K), \A k \in 0 .. K - 1 : ~ Stops(m, WORD * c, end, k)
    PROVE  Found(m, p, n, len, WORD * c, end, K)
  <1> DEFINE first == WORD * c
             w == At0(first, K)
             t == p + len
             r == StopsWith(m, first, end, K)
  <1>1. /\ p \in Nat /\ MemSize \in Nat /\ WORD \in Nat /\ WORD >= 1 /\ first \in Nat
        /\ w \in Nat /\ t \in Nat /\ t < MemSize /\ m[t] = 0 /\ t < end
    <2>1. p \in Nat /\ MemSize \in Nat /\ WORD \in Nat /\ WORD >= 1 BY CStringAssumption DEF Addresses
    <2>2. t < MemSize /\ m[t] = 0 BY DEF Cut
    <2>3. first \in Nat BY <2>1
    <2>4. w \in Nat BY At0Is
    <2> HIDE DEF first, w
    <2> QED BY <2>1, <2>2, <2>3, <2>4
  <1>2. first <= w BY <1>1, CStringAssumption DEF At0
  <1>3. first <= t
    <2>1. ASSUME t < first PROVE FALSE
      <3>1. t \in p .. first - 1 BY <1>1, <2>1
      <3> QED BY <1>1, <3>1
    <2> QED BY <1>1, <2>1
  <1>4. \A a \in p .. t - 1 : m[a] # 0
    <2> TAKE a \in p .. t - 1
    <2>1. a - p \in 0 .. len - 1 /\ p + (a - p) = a BY <1>1
    <2> QED BY <2>1 DEF Cut
  (* The longword that holds the zero. *)
  <1> DEFINE kt == (t - first) \div WORD
             wt == At0(first, kt)
  <1>5. kt \in Nat /\ wt \in Nat /\ wt <= t /\ t < wt + WORD
    <2> HIDE DEF first, t
    <2>1. t - first \in Nat BY <1>1, <1>3
    <2> DEFINE x == t - first
    <2>2. x \in Nat BY <2>1
    <2> HIDE DEF x
    <2>3. (x \div WORD) \in Nat /\ (x % WORD) \in 0 .. WORD - 1 /\ x = WORD * (x \div WORD) + (x % WORD)
      BY <1>1, <2>2
    <2>4. kt = x \div WORD BY DEF x
    <2>5. kt \in Nat /\ kt * WORD <= x /\ x < kt * WORD + WORD /\ kt * WORD \in Nat
      <3> DEFINE d == x \div WORD
      <3>1. d * WORD = WORD * d /\ d * WORD \in Nat BY <1>1, <2>3
      <3> HIDE DEF d
      <3>2. x = WORD * d + (x % WORD) /\ d \in Nat /\ kt = d BY <2>3, <2>4 DEF d
      <3>3. d * WORD <= x /\ x < d * WORD + WORD BY <1>1, <2>2, <2>3, <3>1, <3>2
      <3> HIDE DEF kt
      <3> QED BY <3>1, <3>2, <3>3
    <2>6. t = first + x BY <1>1, <1>3 DEF x
    <2> HIDE DEF kt
    <2>7. wt = first + kt * WORD BY DEF At0
    <2> HIDE DEF wt
    <2> QED BY <1>1, <2>2, <2>5, <2>6, <2>7
  <1> HIDE DEF kt
  <1>6. Stops(m, first, end, kt)
    <2>1. wt + WORD <= MemSize
      <3>1. wt < MemSize BY <1>1, <1>5
      <3> QED BY <1>5, <3>1, WordInside
    <2>2. wt >= p BY <1>1, <1>5, CStringAssumption DEF At0
    <2> HIDE DEF wt, first, t
    <2>3. \A a \in wt .. t - 1 : m[a] # 0 BY <1>1, <1>4, <1>5, <2>2
    <2>4. t \in wt .. wt + WORD - 1 BY <1>1, <1>5
    <2>5. Filter(m, wt) BY <1>1, <1>5, <2>1, <2>3, <2>4, FilterAnswers
    <2>6. FirstZero(m, wt, wt + WORD - 1) = t
      <3>1. wt + WORD - 1 \in Addresses BY <1>1, <1>5, <2>1 DEF Addresses
      <3>2. DOMAIN m = Addresses BY MemoryIs
      <3> QED BY <1>1, <1>5, <2>3, <2>4, <3>1, <3>2, FirstZeroIs
    <2>7. t # NULL BY <1>1 DEF NULL
    <2> QED BY <2>5, <2>6, <2>7 DEF Stops, ZeroAt, wt
  <1>7. w <= wt
    <2>1. K <= kt
      <3>1. ASSUME kt < K PROVE FALSE
        <4>1. kt \in 0 .. K - 1 BY <1>5, <3>1
        <4> QED BY <1>6, <4>1
      <3> QED BY <1>5, <3>1
    <2>2. K * WORD <= kt * WORD BY <1>1, <1>5, <2>1
    <2>3. K * WORD \in Nat /\ kt * WORD \in Nat BY <1>1, <1>5
    <2> HIDE DEF first
    <2> QED BY <1>1, <2>2, <2>3 DEF At0
  <1> HIDE DEF wt
  <1>8. w <= t /\ ~ (w >= end)
    <2> HIDE DEF w, t
    <2> QED BY <1>1, <1>5, <1>7
  <1> DEFINE z == ZeroAt(m, first, K)
  <1>9. z # NULL BY <1>8 DEF Stops
  <1>10. w + WORD <= MemSize
    <2>1. w < MemSize
      <3> HIDE DEF w, t
      <3> QED BY <1>1, <1>8
    <2> QED BY <2>1, WordInside
  <1>11. z \in w .. w + WORD - 1 /\ m[z] = 0 /\ \A a \in w .. z - 1 : m[a] # 0
    <2> HIDE DEF w
    <2>1. DOMAIN m = Addresses BY MemoryIs
    <2>2. w + WORD - 1 \in Int /\ w + WORD - 1 < MemSize BY <1>1, <1>10
    <2>3. z = FirstZero(m, w, w + WORD - 1) BY DEF ZeroAt, w
    <2> HIDE DEF z
    <2> QED BY <1>1, <1>9, <2>1, <2>2, <2>3, NoZero
  <1>12. r = [char_ptr |-> z, last |-> w + WORD] BY <1>8 DEF StopsWith
  <1>13. r.char_ptr = z /\ r.last = w + WORD BY <1>12
  <1> HIDE DEF z, r, w, t, first
  <1>14. z = t
    <2>1. z \in Nat /\ z >= p BY <1>1, <1>2, <1>11 DEF first
    <2>2. ASSUME z < t PROVE FALSE
      <3>1. z \in p .. t - 1 BY <1>1, <2>1, <2>2
      <3> QED BY <1>4, <1>11, <3>1
    <2>3. ASSUME z > t PROVE FALSE
      <3>1. t \in w .. z - 1 BY <1>1, <1>8, <2>1, <2>3
      <3> QED BY <1>1, <1>11, <3>1
    <2> QED BY <1>1, <2>1, <2>2, <2>3
  <1>15. (IF r.char_ptr > end THEN end ELSE r.char_ptr) - p = len BY <1>1, <1>13, <1>14 DEF t
  <1>16. ASSUME NEW a \in p .. r.last - 1
         PROVE  \E b \in p .. p + len - (IF len = n THEN 1 ELSE 0) : a \div WORD = b \div WORD
    <2>1. a \in Nat /\ p <= a /\ a < w + WORD BY <1>1, <1>13
    <2>2. p .. p + len - (IF len = n THEN 1 ELSE 0) = p .. t BY <1>1 DEF t
    <2>3. CASE a <= t
      <3>1. a \in p .. t BY <1>1, <2>1, <2>3
      <3> QED BY <2>2, <3>1
    <2>4. CASE a > t
      <3>1. t \in p .. t /\ w <= t /\ t < w + WORD /\ w <= a BY <1>1, <1>8, <1>11, <1>14, <2>1, <2>4 DEF t
      <3>2. a \div WORD = t \div WORD BY <1>1, <2>1, <3>1, SameWord DEF w, first
      <3> QED BY <2>2, <3>1, <3>2
    <2> QED BY <1>1, <2>1, <2>3, <2>4
  <1>17. Near(p, n, len, p .. r.last - 1) BY <1>16 DEF Near
  <1> QED BY <1>15, <1>17 DEF Found, r, first

LEMMA StrnlenIs ==
    ASSUME NEW m \in Memory, NEW p \in Addresses, NEW n \in Nat, n < ADDRESSES,
           NEW len \in Nat, Cut(m, p, n, len)
    PROVE  strnlen(m, p, n).len = len /\ Near(p, n, len, strnlen(m, p, n).reads)
  <1> DEFINE end == EndPtr(p, n)
             first == FirstLongword(p)
             head == FirstZero(m, p, first - 1)
             found == Longwords(m, first, end)
             r == strnlen(m, p, n)
  <1>1. CASE n = 0
    <2>1. r = [len |-> 0, reads |-> {}] BY <1>1 DEF strnlen
    <2>2. len = 0 BY <1>1 DEF Cut
    <2> QED BY <2>1, <2>2 DEF Near
  <1>2. CASE n # 0
    <2>1. PICK c \in Nat, M \in Nat :
             /\ FirstLongword(p) = WORD * c /\ p <= WORD * c /\ MemSize = WORD * M /\ WORD * c <= MemSize
             /\ \A a \in p .. WORD * c - 1 : a \div WORD = p \div WORD
      BY FirstLongwordIs
    <2>2. n \in Nat \ {0} BY <1>2
    <2>3. p \in Nat /\ MemSize \in Nat /\ WORD * c \in Nat BY CStringAssumption DEF Addresses
    <2>4. first - 1 \in Int /\ first - 1 < MemSize
      <3> DEFINE e == WORD * c
      <3> HIDE DEF e
      <3>1. e \in Nat /\ e <= MemSize /\ first = e BY <2>1, <2>3 DEF e
      <3> QED BY <2>3, <3>1
    <2>5. DOMAIN m = Addresses BY MemoryIs
    <2>6. /\ head = NULL => \A a \in p .. first - 1 : m[a] # 0
          /\ head # NULL => /\ head \in p .. first - 1 /\ m[head] = 0
                            /\ \A a \in p .. head - 1 : m[a] # 0
      BY <2>3, <2>4, <2>5, NoZero
    <2>7. CASE head # NULL
      <3>1. r = [len |-> (IF head > end THEN end ELSE head) - p, reads |-> p .. head] BY <1>2, <2>7 DEF strnlen
      <3>2. head \in p .. WORD * c - 1 /\ m[head] = 0 /\ \A a \in p .. head - 1 : m[a] # 0
        BY <2>1, <2>6, <2>7
      <3> HIDE DEF head, first
      <3>3. (IF head > end THEN end ELSE head) - p = len /\ Near(p, n, len, p .. head)
        BY <2>1, <2>2, <3>2, HeadIs
      <3>4. r.len = (IF head > end THEN end ELSE head) - p /\ r.reads = p .. head BY <3>1
      <3> QED BY <3>3, <3>4
    <2>8. CASE head = NULL
      <3>1. r = [len |-> (IF found.char_ptr > end THEN end ELSE found.char_ptr) - p,
                 reads |-> p .. found.last - 1]
        BY <1>2, <2>8, Zenon DEF strnlen
      <3>2. /\ end \in Nat /\ p + len <= end /\ (len = n => end = p + len) /\ (len # n => p + len < end)
        BY CutIs
      <3>3. \A a \in p .. WORD * c - 1 : m[a] # 0 BY <2>1, <2>6, <2>8
      <3>e. first = WORD * c BY <2>1
      <3> HIDE DEF head, first, end
      <3>4. PICK K \in Nat : /\ Stops(m, WORD * c, end, K)
                             /\ \A k \in 0 .. K - 1 : ~ Stops(m, WORD * c, end, k)
        BY <3>2, SomeStop
      <3>5. found = StopsWith(m, WORD * c, end, K) BY <3>4, <3>e, LongwordsAre
      <3>6. Found(m, p, n, len, WORD * c, end, K)
        <4>1. CASE len = n BY <2>1, <2>2, <3>2, <3>4, <4>1, FoundLimit
        <4>2. CASE len # n BY <2>1, <2>2, <3>2, <3>3, <3>4, <4>2, FoundZero
        <4> QED BY <4>1, <4>2
      <3> HIDE DEF found
      <3>7. /\ (IF found.char_ptr > end THEN end ELSE found.char_ptr) - p = len
            /\ Near(p, n, len, p .. found.last - 1)
        BY <3>5, <3>6, Zenon DEF Found
      <3>8. /\ r.len = (IF found.char_ptr > end THEN end ELSE found.char_ptr) - p
            /\ r.reads = p .. found.last - 1
        BY <3>1
      <3> QED BY <3>7, <3>8, Zenon
    <2> QED BY <2>7, <2>8
  <1> QED BY <1>1, <1>2

LEMMA StrncpyWrites ==
    ASSUME NEW m \in Memory, NEW p \in Addresses, NEW q \in Addresses, NEW n \in Nat,
           p + n <= MemSize, p + n <= q \/ q + n <= p, NEW len \in Nat, Cut(m, q, n, len)
    PROVE  strncpy(m, p, q, n) = Write(m, p, Block(m, q, len) \o [i \in 1 .. n - len |-> 0])
  <1> DEFINE src == Block(m, q, len)
             rest == [i \in 1 .. n - len |-> 0]
             s == src \o rest
             m1 == memset(m, p + len, 0, n - len)
             r == strncpy(m, p, q, n)
             k == n - len
  <1>1. /\ p \in Nat /\ q \in Nat /\ MemSize \in Nat /\ ADDRESSES \in Nat /\ MemSize < ADDRESSES
        /\ Addresses \subseteq Nat /\ UCHAR \in Nat /\ UCHAR > 0
    BY CStringAssumption DEF Addresses
  <1>2. n < ADDRESSES /\ len <= n /\ q + len <= MemSize /\ k \in Nat BY <1>1 DEF Cut
  <1>3. strnlen(m, q, n).len = len BY <1>2, StrnlenIs
  <1>4. r = memcpy(m1, p, q, len) BY <1>3 DEF strncpy
  <1>5. src \in Seq(Chars256) /\ Len(src) = len /\ \A i \in 1 .. len : src[i] = m[q + i - 1]
    <2>1. src \in Seq(Chars256) BY <1>1, <1>2, BlockIsSeq
    <2> QED BY <2>1, BlockIs
  <1>6. rest \in Seq(Chars256) /\ Len(rest) = k /\ \A i \in 1 .. k : rest[i] = 0
    <2>1. 0 \in Chars256 BY <1>1 DEF Chars256
    <2> HIDE DEF Chars256
    <2> QED BY <1>2, <2>1
  <1> HIDE DEF src, rest, k
  <1>7. IsJoin(s, src, len, rest, k) BY <1>2, <1>5, <1>6, Joins
  <1>8. /\ DOMAIN s = 1 .. len + k /\ \A i \in 1 .. len : s[i] = m[q + i - 1]
        /\ \A i \in 1 .. k : s[len + i] = 0
    <2> HIDE DEF s
    <2> QED BY <1>5, <1>6, <1>7 DEF IsJoin
  <1>9. DOMAIN m = Addresses BY MemoryIs
  <1>10. m1 = [a \in Addresses |-> IF a \in p + len .. p + n - 1 THEN 0 ELSE m[a]]
    <2>1. 0 % UCHAR = 0 BY <1>1
    <2>2. (p + len) + (n - len) - 1 = p + n - 1 BY <1>1
    <2> QED BY <1>9, <2>1, <2>2 DEF memset
  <1> HIDE DEF m1, s, r
  <1>11. IsMem(m1) BY <1>10 DEF IsMem
  <1>12. r = Moved(m1, p, q, len)
    <2>1. r = Copied(m1, p, q, Upward(len)) BY <1>4 DEF memcpy
    <2>2. p + len <= MemSize /\ (p <= q \/ q + len <= p) BY <1>1, <1>2
    <2> QED BY <1>1, <1>2, <1>11, <2>1, <2>2, CopiesUpward
  <1>13. r = [a \in Addresses |-> IF a - p \in 0 .. len - 1 THEN m1[q + (a - p)] ELSE m1[a]] BY <1>12 DEF Moved
  <1>n. len + k = n BY <1>2 DEF k
  <1>14. ASSUME NEW a \in Addresses, a - p \in 0 .. n - 1 PROVE r[a] = s[(a - p) + 1]
    <2>0. a \in Nat BY <1>1
    <2>1. CASE a - p < len
      <3>1. (a - p) + 1 \in 1 .. len /\ q + ((a - p) + 1) - 1 = q + (a - p) /\ a - p \in 0 .. len - 1
        BY <1>1, <1>14, <2>0, <2>1
      <3>2. q + (a - p) \in Addresses /\ q + (a - p) \notin p + len .. p + n - 1
        BY <1>1, <1>2, <1>14, <2>0, <2>1 DEF Addresses
      <3>3. m1[q + (a - p)] = m[q + (a - p)] BY <1>10, <3>2
      <3> QED BY <1>8, <1>13, <3>1, <3>3
    <2>2. CASE a - p >= len
      <3>1. (a - p) + 1 - len \in 1 .. k /\ len + ((a - p) + 1 - len) = (a - p) + 1
        BY <1>1, <1>2, <1>14, <2>0, <2>2 DEF k
      <3>2. a \in p + len .. p + n - 1 /\ a - p \notin 0 .. len - 1 BY <1>1, <1>2, <1>14, <2>0, <2>2
      <3>3. m1[a] = 0 BY <1>10, <3>2
      <3>4. s[(a - p) + 1] = 0 BY <1>8, <3>1
      <3> QED BY <1>13, <3>2, <3>3, <3>4
    <2> QED BY <1>1, <2>0, <2>1, <2>2
  <1>15. ASSUME NEW a \in Addresses, a - p \notin 0 .. n - 1 PROVE r[a] = m[a]
    <2>0. a \in Nat BY <1>1
    <2>1. a - p \notin 0 .. len - 1 /\ a \notin p + len .. p + n - 1 BY <1>1, <1>2, <1>15, <2>0
    <2> QED BY <1>10, <1>13, <2>1
  <1>16. IsMem(r) BY <1>13 DEF IsMem
  <1>17. Holds(r, m, p, n, s) BY <1>8, <1>n, <1>14, <1>15, <1>16 DEF Holds
  <1>18. r = Write(m, p, s) BY <1>1, <1>17, MemoryIs, WriteIs
  <1> QED BY <1>18 DEF r, s, src, rest

-----------------------------------------------------------------------------
(* Searches and comparisons. *)
LEMMA StrchrIs ==
    ASSUME NEW m, NEW p \in Nat, NEW len \in Nat, Ends(m, p, len), NEW c
    PROVE  LET hits == {i \in 0 .. len : Signed(m[p + i]) = c}
           IN  strchr(m, p, c) = IF hits = {} THEN NULL ELSE p + Min(hits)
  <1> DEFINE stop == {i \in Nat : Signed(m[p + i]) = c \/ m[p + i] = 0}
             val == [i \in Nat |-> IF Signed(m[p + i]) = c THEN p + i ELSE NULL]
             Is(f) == f = [i \in Nat |-> IF Signed(m[p + i]) = c THEN p + i
                                         ELSE IF m[p + i] = 0 THEN NULL ELSE f[i + 1]]
             scan == CHOOSE f : Is(f)
             hits == {i \in 0 .. len : Signed(m[p + i]) = c}
  <1>s. strchr(m, p, c) = scan[0] BY Zenon DEF strchr
  <1>1. ASSUME NEW f PROVE Scans(f, stop, val) <=> Is(f)
    <2>1. [i \in Nat |-> IF i \in stop THEN val[i] ELSE f[i + 1]]
          = [i \in Nat |-> IF Signed(m[p + i]) = c THEN p + i ELSE IF m[p + i] = 0 THEN NULL ELSE f[i + 1]]
      OBVIOUS
    <2> QED BY <2>1, Zenon DEF Scans
  <1>2. \E f : Is(f)
    <2>1. PICK f : Scans(f, stop, val) BY ScanExists
    <2> QED BY <1>1, <2>1
  <1> HIDE DEF Is
  <1>3. Is(scan) BY <1>2, Zenon
  <1>4. Scans(scan, stop, val) BY <1>1, <1>3
  <1> HIDE DEF scan
  <1>5. CASE hits = {}
    <2>0. len \in stop BY DEF Ends
    <2>1. ASSUME NEW k \in 0 .. len - 1 PROVE k \notin stop
      <3>1. k \in 0 .. len /\ k \in Nat OBVIOUS
      <3>2. m[p + k] # 0 BY DEF Ends
      <3>3. Signed(m[p + k]) # c BY <1>5, <3>1
      <3> QED BY <3>2, <3>3
    <2>2. val[len] = NULL BY <1>5
    <2> HIDE DEF stop, val
    <2>3. scan[0] = val[len] BY <1>4, <2>0, <2>1, ScanIs
    <2> QED BY <1>s, <1>5, <2>2, <2>3
  <1>6. CASE hits # {}
    <2> DEFINE z == Min(hits)
    <2>1. hits \in SUBSET Nat OBVIOUS
    <2>2. z \in hits /\ \A y \in hits : z <= y BY <1>6, <2>1, MinOfSome
    <2> HIDE DEF z
    <2>3. z \in Nat /\ z <= len /\ z \in stop /\ val[z] = p + z BY <2>2
    <2>4. ASSUME NEW k \in 0 .. z - 1 PROVE k \notin stop
      <3>1. k \in 0 .. len - 1 /\ k \in 0 .. len /\ ~ (z <= k) BY <2>3
      <3> QED BY <2>2, <3>1 DEF Ends
    <2> HIDE DEF stop, val
    <2>5. scan[0] = val[z] BY <1>4, <2>3, <2>4, ScanIs
    <2> QED BY <1>s, <1>6, <2>3, <2>5 DEF z
  <1> QED BY <1>5, <1>6

(* Sequences of numbers and their order. *)
Numbers(a, n) == Len(a) = n /\ \A i \in 1 .. n : a[i] \in Int

LEMMA FirstDiffers ==
    ASSUME NEW la \in Nat, NEW lb \in Nat, NEW a, NEW b, Numbers(a, la), Numbers(b, lb),
           NEW i \in 1 .. la, i <= lb, \A j \in 1 .. i - 1 : a[j] = b[j], a[i] # b[i]
    PROVE  (Lower(a, b) <=> a[i] < b[i]) /\ a # b
  <1>1. /\ Len(a) = la /\ Len(b) = lb /\ i \in 1 .. lb /\ a[i] \in Int /\ b[i] \in Int
        /\ \A j \in 1 .. la : a[j] \in Int
    BY DEF Numbers
  <1>2. ASSUME a[i] < b[i] PROVE Lower(a, b)
    <2>1. \A j \in 1 .. i - 1 : j <= la /\ a[j] = b[j] OBVIOUS
    <2> QED BY <1>1, <1>2, <2>1 DEF Lower
  <1>3. ASSUME Lower(a, b) PROVE a[i] < b[i]
    <2>1. PICK k \in 1 .. lb : /\ \A j \in 1 .. k - 1 : j <= la /\ a[j] = b[j]
                               /\ k > la \/ a[k] < b[k]
      BY <1>1, <1>3 DEF Lower
    <2>2. ~ (k > i)
      <3>1. ASSUME k > i PROVE FALSE
        <4>1. i \in 1 .. k - 1 BY <3>1
        <4> QED BY <2>1, <4>1
      <3> QED BY <3>1
    <2>3. ~ (k < i)
      <3>1. ASSUME k < i PROVE FALSE
        <4>1. k \in 1 .. i - 1 /\ k \in 1 .. la /\ ~ (k > la) BY <3>1
        <4>2. a[k] = b[k] /\ a[k] \in Int /\ a[k] < b[k] BY <1>1, <2>1, <4>1
        <4> QED BY <4>2
      <3> QED BY <3>1
    <2>4. k = i BY <2>2, <2>3
    <2> QED BY <2>1, <2>4
  <1>4. a # b OBVIOUS
  <1> QED BY <1>2, <1>3, <1>4

LEMMA ProperPrefix ==
    ASSUME NEW la \in Nat, NEW lb \in Nat, NEW a, NEW b, Numbers(a, la), Numbers(b, lb),
           la < lb, \A j \in 1 .. la : a[j] = b[j]
    PROVE  Lower(a, b) /\ ~ Lower(b, a) /\ a # b
  <1>1. Len(a) = la /\ Len(b) = lb /\ \A j \in 1 .. la : a[j] \in Int BY DEF Numbers
  <1>2. Lower(a, b)
    <2>1. la + 1 \in 1 .. lb /\ la + 1 > la /\ \A j \in 1 .. (la + 1) - 1 : j <= la /\ a[j] = b[j] OBVIOUS
    <2> QED BY <1>1, <2>1 DEF Lower
  <1>3. ASSUME Lower(b, a) PROVE FALSE
    <2>1. PICK k \in 1 .. la : k > lb \/ b[k] < a[k] BY <1>1, <1>3 DEF Lower
    <2>2. b[k] = a[k] /\ a[k] \in Int /\ ~ (k > lb) BY <1>1
    <2> QED BY <2>1, <2>2
  <1>4. a # b BY <1>1
  <1> QED BY <1>2, <1>3, <1>4

LEMMA NotLowerThanItself ==
    ASSUME NEW la \in Nat, NEW a, Numbers(a, la)
    PROVE  ~ Lower(a, a)
  <1>1. Len(a) = la /\ \A j \in 1 .. la : a[j] \in Int BY DEF Numbers
  <1> SUFFICES ASSUME Lower(a, a) PROVE FALSE OBVIOUS
  <1>2. PICK k \in 1 .. la : k > la \/ a[k] < a[k] BY <1>1 DEF Lower
  <1> QED BY <1>1, <1>2

LEMMA AgreesDiffer ==
    ASSUME NEW la \in Nat, NEW lb \in Nat, NEW a, NEW b, Numbers(a, la), Numbers(b, lb),
           NEW i \in 1 .. la, i <= lb, \A j \in 1 .. i - 1 : a[j] = b[j], a[i] # b[i],
           NEW ret \in Int, ret < 0 <=> a[i] < b[i], ret > 0 <=> b[i] < a[i]
    PROVE  Agrees(ret, a, b)
  <1>1. (Lower(a, b) <=> a[i] < b[i]) /\ a # b BY FirstDiffers
  <1>2. Lower(b, a) <=> b[i] < a[i]
    <2>1. i \in 1 .. lb /\ \A j \in 1 .. i - 1 : b[j] = a[j] OBVIOUS
    <2> QED BY <2>1, FirstDiffers
  <1>3. ret # 0
    <2>1. a[i] \in Int /\ b[i] \in Int BY DEF Numbers
    <2> QED BY <2>1
  <1> QED BY <1>1, <1>2, <1>3 DEF Agrees

LEMMA AgreesSame ==
    ASSUME NEW la \in Nat, NEW a, Numbers(a, la)
    PROVE  Agrees(0, a, a)
  <1>1. ~ Lower(a, a) BY NotLowerThanItself
  <1> QED BY <1>1 DEF Agrees

LEMMA SignedIs ==
    ASSUME NEW x \in Chars256, NEW y \in Chars256
    PROVE  Signed(x) \in Int /\ (Signed(x) = Signed(y) <=> x = y)
  <1>1. UCHAR \in Nat BY CStringAssumption
  <1> DEFINE h == UCHAR \div 2
  <1>2. h \in Nat BY <1>1
  <1>3. Signed(x) = (IF x >= h THEN x - UCHAR ELSE x) /\ Signed(y) = (IF y >= h THEN y - UCHAR ELSE y) BY DEF Signed
  <1> HIDE DEF h
  <1>4. x \in Nat /\ y \in Nat /\ x < UCHAR /\ y < UCHAR BY <1>1 DEF Chars256
  <1> QED BY <1>1, <1>2, <1>3, <1>4

(* The characters of a string and its terminator, as strcmp compares them. *)
LEMMA SignedBlock ==
    ASSUME NEW m \in Memory, NEW p \in Addresses, NEW len \in Nat, Ends(m, p, len)
    PROVE  LET a == SignedBytes(Append(Chars(m, p), 0))
           IN  /\ Numbers(a, len + 1) /\ DOMAIN a = 1 .. len + 1
               /\ \A i \in 0 .. len : a[i + 1] = Signed(m[p + i]) /\ m[p + i] \in Chars256
  <1> DEFINE s == Block(m, p, len + 1)
             a == SignedBytes(s)
  <1>1. Append(Chars(m, p), 0) = s BY Terminated
  <1>2. p \in Nat /\ MemSize \in Nat /\ p + len < MemSize /\ len + 1 \in Nat BY CStringAssumption DEF Addresses, Ends
  <1>3. DOMAIN s = 1 .. len + 1 /\ \A i \in 1 .. len + 1 : s[i] = m[p + i - 1] BY <1>2, BlockIs
  <1>4. ASSUME NEW i \in 0 .. len PROVE m[p + i] \in Chars256
    <2>1. p + i \in Addresses BY <1>2 DEF Addresses
    <2> QED BY <2>1, MemoryIs
  <1> HIDE DEF s
  <1>5. a = [i \in 1 .. len + 1 |-> Signed(s[i])] BY <1>3 DEF SignedBytes
  <1> HIDE DEF a
  <1>6. Len(a) = len + 1 /\ DOMAIN a = 1 .. len + 1 BY <1>5
  <1>7. ASSUME NEW i \in 0 .. len PROVE a[i + 1] = Signed(m[p + i])
    <2>1. i + 1 \in 1 .. len + 1 /\ p + (i + 1) - 1 = p + i BY <1>2
    <2> QED BY <1>3, <1>5, <2>1
  <1>8. ASSUME NEW i \in 1 .. len + 1 PROVE a[i] \in Int
    <2>1. i - 1 \in 0 .. len /\ (i - 1) + 1 = i BY <1>2
    <2>2. a[i] = Signed(m[p + (i - 1)]) BY <1>7, <2>1
    <2>3. m[p + (i - 1)] \in Chars256 BY <1>4, <2>1
    <2> QED BY <2>2, <2>3, SignedIs
  <1>9. Numbers(a, len + 1) BY <1>6, <1>8 DEF Numbers
  <1> QED BY <1>1, <1>4, <1>6, <1>7, <1>9 DEF a

(* strcmp stops at the first characters that differ or at both ends. *)
LEMMA StrcmpIs ==
    ASSUME NEW m, NEW p, NEW q, NEW z \in Nat,
           ~ (m[p + z] # 0 /\ m[q + z] # 0 /\ m[p + z] = m[q + z]),
           \A i \in 0 .. z - 1 : m[p + i] # 0 /\ m[q + i] # 0 /\ m[p + i] = m[q + i]
    PROVE  strcmp(m, p, q) = Signed(m[p + z]) - Signed(m[q + z])
  <1> DEFINE Go(i) == m[p + i] # 0 /\ m[q + i] # 0 /\ m[p + i] = m[q + i]
             stop == {i \in Nat : ~ Go(i)}
             val == [i \in Nat |-> Signed(m[p + i]) - Signed(m[q + i])]
             Is(f) == f = [i \in Nat |-> IF Go(i) THEN f[i + 1] ELSE Signed(m[p + i]) - Signed(m[q + i])]
             scan == CHOOSE f : Is(f)
  <1>s. strcmp(m, p, q) = scan[0] BY Zenon DEF strcmp
  <1>0. z \in stop /\ \A i \in 0 .. z - 1 : i \notin stop OBVIOUS
  <1> HIDE DEF Go
  <1>1. ASSUME NEW f PROVE Scans(f, stop, val) <=> Is(f)
    <2>1. [i \in Nat |-> IF i \in stop THEN val[i] ELSE f[i + 1]]
          = [i \in Nat |-> IF Go(i) THEN f[i + 1] ELSE Signed(m[p + i]) - Signed(m[q + i])]
      OBVIOUS
    <2> QED BY <2>1, Zenon DEF Scans
  <1>2. \E f : Is(f)
    <2>1. PICK f : Scans(f, stop, val) BY ScanExists
    <2> QED BY <1>1, <2>1
  <1>v. val[z] = Signed(m[p + z]) - Signed(m[q + z]) OBVIOUS
  <1> HIDE DEF Is
  <1>3. Is(scan) BY <1>2, Zenon
  <1>4. Scans(scan, stop, val) BY <1>1, <1>3
  <1> HIDE DEF scan, stop, val
  <1>5. scan[0] = val[z] BY <1>0, <1>4, ScanIs
  <1> QED BY <1>s, <1>v, <1>5

LEMMA StrcmpAgrees ==
    ASSUME NEW m \in Memory, NEW p \in Addresses, NEW q \in Addresses,
           NEW plen \in Nat, Ends(m, p, plen), NEW qlen \in Nat, Ends(m, q, qlen)
    PROVE  Agrees(strcmp(m, p, q), SignedBytes(Append(Chars(m, p), 0)), SignedBytes(Append(Chars(m, q), 0)))
  <1> DEFINE a == SignedBytes(Append(Chars(m, p), 0))
             b == SignedBytes(Append(Chars(m, q), 0))
             Go(i) == m[p + i] # 0 /\ m[q + i] # 0 /\ m[p + i] = m[q + i]
             T == {i \in Nat : ~ Go(i)}
             z == Min(T)
             ret == strcmp(m, p, q)
  <1>1. /\ Numbers(a, plen + 1) /\ DOMAIN a = 1 .. plen + 1
        /\ \A i \in 0 .. plen : a[i + 1] = Signed(m[p + i]) /\ m[p + i] \in Chars256
    BY SignedBlock
  <1>2. /\ Numbers(b, qlen + 1) /\ DOMAIN b = 1 .. qlen + 1
        /\ \A i \in 0 .. qlen : b[i + 1] = Signed(m[q + i]) /\ m[q + i] \in Chars256
    BY SignedBlock
  <1>3. plen \in T /\ qlen \in T BY DEF Ends
  <1>4. T \in SUBSET Nat /\ T # {} BY <1>3
  <1>5. z \in T /\ z <= plen /\ z <= qlen /\ \A y \in T : z <= y BY <1>3, <1>4, MinOfSome
  <1> HIDE DEF z
  <1>6. z \in Nat /\ z \in 0 .. plen /\ z \in 0 .. qlen /\ ~ Go(z) BY <1>5
  <1>7. ASSUME NEW i \in 0 .. z - 1 PROVE Go(i)
    <2>1. i \in Nat /\ ~ (z <= i) BY <1>6
    <2> QED BY <1>5, <2>1
  <1>8. ret = Signed(m[p + z]) - Signed(m[q + z]) BY <1>6, <1>7, StrcmpIs
  <1> HIDE DEF a, b, ret
  <1>9. \A j \in 1 .. z : a[j] = b[j]
    <2> TAKE j \in 1 .. z
    <2>1. j - 1 \in 0 .. z - 1 /\ j - 1 \in 0 .. plen /\ j - 1 \in 0 .. qlen /\ (j - 1) + 1 = j BY <1>6
    <2>2. m[p + (j - 1)] = m[q + (j - 1)] BY <1>7, <2>1
    <2>3. a[(j - 1) + 1] = Signed(m[p + (j - 1)]) /\ b[(j - 1) + 1] = Signed(m[q + (j - 1)]) BY <1>1, <1>2, <2>1
    <2> QED BY <2>1, <2>2, <2>3
  <1>10. /\ a[z + 1] = Signed(m[p + z]) /\ b[z + 1] = Signed(m[q + z])
         /\ m[p + z] \in Chars256 /\ m[q + z] \in Chars256
    BY <1>1, <1>2, <1>6
  <1>11. a[z + 1] \in Int /\ b[z + 1] \in Int /\ (a[z + 1] = b[z + 1] <=> m[p + z] = m[q + z])
    BY <1>10, SignedIs
  <1>12. CASE m[p + z] = m[q + z]
    <2>1. m[p + z] = 0 /\ m[q + z] = 0 BY <1>6, <1>12
    <2>2. z = plen /\ z = qlen
      <3>1. ASSUME z < plen PROVE FALSE
        <4>1. z \in 0 .. plen - 1 BY <1>6, <3>1
        <4> QED BY <2>1, <4>1 DEF Ends
      <3>2. ASSUME z < qlen PROVE FALSE
        <4>1. z \in 0 .. qlen - 1 BY <1>6, <3>2
        <4> QED BY <2>1, <4>1 DEF Ends
      <3> QED BY <1>6, <3>1, <3>2
    <2>3. \A j \in 1 .. z + 1 : a[j] = b[j]
      <3> TAKE j \in 1 .. z + 1
      <3>1. CASE j = z + 1 BY <1>11, <1>12, <3>1
      <3>2. CASE j # z + 1
        <4>1. j \in 1 .. z BY <1>6, <3>2
        <4> QED BY <1>9, <4>1
      <3> QED BY <3>1, <3>2
    <2>4. a = b
      <3>1. a = [i \in 1 .. z + 1 |-> a[i]] /\ b = [i \in 1 .. z + 1 |-> b[i]]
        BY <1>1, <1>2, <2>2 DEF a, b, SignedBytes
      <3> QED BY <2>3, <3>1
    <2>5. ret = 0 BY <1>8, <1>10, <1>11, <1>12
    <2>6. plen + 1 \in Nat OBVIOUS
    <2>7. Agrees(0, a, a) BY <1>1, <2>6, AgreesSame
    <2> QED BY <2>4, <2>5, <2>7 DEF a, b, ret
  <1>13. CASE m[p + z] # m[q + z]
    <2> DEFINE i == z + 1
    <2>1. ret \in Int /\ (ret < 0 <=> a[i] < b[i]) /\ (ret > 0 <=> b[i] < a[i]) BY <1>8, <1>10, <1>11
    <2>2. a[i] # b[i] BY <1>11, <1>13
    <2>3. i \in 1 .. plen + 1 /\ i <= qlen + 1 /\ \A j \in 1 .. i - 1 : a[j] = b[j] BY <1>6, <1>9
    <2>4. plen + 1 \in Nat /\ qlen + 1 \in Nat OBVIOUS
    <2> HIDE DEF i
    <2>5. Agrees(ret, a, b) BY <1>1, <1>2, <2>1, <2>2, <2>3, <2>4, AgreesDiffer
    <2> QED BY <2>5 DEF a, b, ret
  <1> QED BY <1>12, <1>13

(* strncmp stops at its limit, at the first difference or at both ends. *)
LEMMA StrncmpIs ==
    ASSUME NEW m, NEW p, NEW q, NEW n, NEW z \in Nat,
           z = n \/ m[p + z] # m[q + z] \/ m[p + z] = 0,
           \A i \in 0 .. z - 1 : i # n /\ m[p + i] = m[q + i] /\ m[p + i] # 0
    PROVE  strncmp(m, p, q, n) = IF z = n \/ m[p + z] = m[q + z] THEN 0 ELSE m[p + z] - m[q + z]
  <1> DEFINE stop == {i \in Nat : i = n \/ m[p + i] # m[q + i] \/ m[p + i] = 0}
             val == [i \in Nat |-> IF i = n \/ m[p + i] = m[q + i] THEN 0 ELSE m[p + i] - m[q + i]]
             Is(f) == f = [i \in Nat |-> IF i = n THEN 0
                                         ELSE IF m[p + i] # m[q + i] THEN m[p + i] - m[q + i]
                                         ELSE IF m[p + i] = 0 THEN 0 ELSE f[i + 1]]
             scan == CHOOSE f : Is(f)
  <1>s. strncmp(m, p, q, n) = scan[0] BY Zenon DEF strncmp
  <1>0. z \in stop /\ \A i \in 0 .. z - 1 : i \notin stop OBVIOUS
  <1>1. ASSUME NEW f PROVE Scans(f, stop, val) <=> Is(f)
    <2>1. [i \in Nat |-> IF i \in stop THEN val[i] ELSE f[i + 1]]
          = [i \in Nat |-> IF i = n THEN 0
                           ELSE IF m[p + i] # m[q + i] THEN m[p + i] - m[q + i]
                           ELSE IF m[p + i] = 0 THEN 0 ELSE f[i + 1]]
      OBVIOUS
    <2> QED BY <2>1, Zenon DEF Scans
  <1>2. \E f : Is(f)
    <2>1. PICK f : Scans(f, stop, val) BY ScanExists
    <2> QED BY <1>1, <2>1
  <1>v. val[z] = IF z = n \/ m[p + z] = m[q + z] THEN 0 ELSE m[p + z] - m[q + z] OBVIOUS
  <1> HIDE DEF Is
  <1>3. Is(scan) BY <1>2, Zenon
  <1>4. Scans(scan, stop, val) BY <1>1, <1>3
  <1> HIDE DEF scan, stop, val
  <1>5. scan[0] = val[z] BY <1>0, <1>4, ScanIs
  <1> QED BY <1>s, <1>v, <1>5

(* A stretch of the memory is a sequence of numbers. *)
LEMMA BlockNumbers ==
    ASSUME NEW m \in Memory, NEW p \in Addresses, NEW n \in Nat, p + n <= MemSize
    PROVE  /\ Numbers(Block(m, p, n), n)
           /\ \A i \in 0 .. n - 1 : Block(m, p, n)[i + 1] = m[p + i] /\ m[p + i] \in Nat
  <1> DEFINE a == Block(m, p, n)
  <1>1. p \in Nat /\ MemSize \in Nat /\ UCHAR \in Nat BY CStringAssumption DEF Addresses
  <1>2. Len(a) = n /\ \A i \in 1 .. n : a[i] = m[p + i - 1] BY BlockIs
  <1> HIDE DEF a
  <1>3. ASSUME NEW i \in 0 .. n - 1 PROVE a[i + 1] = m[p + i] /\ m[p + i] \in Nat
    <2>1. i + 1 \in 1 .. n /\ p + (i + 1) - 1 = p + i /\ p + i \in Addresses BY <1>1 DEF Addresses
    <2>2. m[p + i] \in Chars256 BY <2>1, MemoryIs
    <2>3. m[p + i] \in Nat BY <1>1, <2>2 DEF Chars256
    <2> QED BY <1>2, <2>1, <2>3
  <1>4. ASSUME NEW i \in 1 .. n PROVE a[i] \in Int
    <2>1. i - 1 \in 0 .. n - 1 /\ (i - 1) + 1 = i OBVIOUS
    <2>2. a[(i - 1) + 1] \in Nat BY <1>3, <2>1
    <2> QED BY <2>1, <2>2
  <1>5. Numbers(a, n) BY <1>2, <1>4 DEF Numbers
  <1> QED BY <1>3, <1>5 DEF a

SameBytes(m, p, q, n) == \A i \in 0 .. n - 1 : m[p + i] = m[q + i]

LEMMA SameBlocks ==
    ASSUME NEW m, NEW p \in Nat, NEW q \in Nat, NEW n \in Nat, SameBytes(m, p, q, n)
    PROVE  Block(m, p, n) = Block(m, q, n)
  <1>0. \A i \in 0 .. n - 1 : m[p + i] = m[q + i] BY DEF SameBytes
  <1>1. ASSUME NEW i \in 1 .. n PROVE m[p + i - 1] = m[q + i - 1]
    <2>1. i - 1 \in 0 .. n - 1 /\ p + i - 1 = p + (i - 1) /\ q + i - 1 = q + (i - 1) OBVIOUS
    <2> QED BY <1>0, <2>1
  <1> QED BY <1>1 DEF Block

LEMMA StrncmpAgrees ==
    ASSUME NEW m \in Memory, NEW p \in Addresses, NEW q \in Addresses, NEW n \in Nat,
           NEW la \in Nat, Cut(m, p, n, la), NEW lb \in Nat, Cut(m, q, n, lb)
    PROVE  Agrees(strncmp(m, p, q, n), Block(m, p, la), Block(m, q, lb))
  <1> DEFINE a == Block(m, p, la)
             b == Block(m, q, lb)
             ret == strncmp(m, p, q, n)
             T == {i \in Nat : i = n \/ m[p + i] # m[q + i] \/ m[p + i] = 0}
             z == Min(T)
  <1>0. p \in Nat /\ q \in Nat BY CStringAssumption DEF Addresses
  <1>1. /\ la <= n /\ p + la <= MemSize /\ (\A i \in 0 .. la - 1 : m[p + i] # 0)
        /\ la < n => p + la < MemSize /\ m[p + la] = 0
    BY DEF Cut
  <1>2. /\ lb <= n /\ q + lb <= MemSize /\ (\A i \in 0 .. lb - 1 : m[q + i] # 0)
        /\ lb < n => q + lb < MemSize /\ m[q + lb] = 0
    BY DEF Cut
  <1>3. Numbers(a, la) /\ \A i \in 0 .. la - 1 : a[i + 1] = m[p + i] /\ m[p + i] \in Nat BY <1>1, BlockNumbers
  <1>4. Numbers(b, lb) /\ \A i \in 0 .. lb - 1 : b[i + 1] = m[q + i] /\ m[q + i] \in Nat BY <1>2, BlockNumbers
  <1>5. la \in T /\ lb \in T BY <1>1, <1>2
  <1>6. T \in SUBSET Nat /\ T # {} BY <1>5
  <1>7. z \in T /\ z <= la /\ z <= lb /\ \A y \in T : z <= y BY <1>5, <1>6, MinOfSome
  <1> HIDE DEF z
  <1>8. z \in Nat /\ (z = n \/ m[p + z] # m[q + z] \/ m[p + z] = 0) BY <1>7
  <1>9. ASSUME NEW i \in 0 .. z - 1 PROVE i # n /\ m[p + i] = m[q + i] /\ m[p + i] # 0
    <2>1. i \in Nat /\ ~ (z <= i) BY <1>8
    <2> QED BY <1>7, <2>1
  <1>10. ret = IF z = n \/ m[p + z] = m[q + z] THEN 0 ELSE m[p + z] - m[q + z] BY <1>8, <1>9, StrncmpIs
  <1>11. ASSUME NEW j \in 1 .. z PROVE a[j] = b[j]
    <2>1. /\ j - 1 \in 0 .. z - 1 /\ j - 1 \in 0 .. la - 1 /\ j - 1 \in 0 .. lb - 1 /\ (j - 1) + 1 = j
      BY <1>7, <1>8
    <2>2. a[(j - 1) + 1] = m[p + (j - 1)] /\ b[(j - 1) + 1] = m[q + (j - 1)] BY <1>3, <1>4, <2>1
    <2> QED BY <1>9, <2>1, <2>2
  <1>12. CASE z = la /\ z = lb
    <2>0. SameBytes(m, p, q, z) BY <1>9 DEF SameBytes
    <2>z. z \in Nat BY <1>8
    <2> HIDE DEF a, b, ret, T
    <2>1. Block(m, p, z) = Block(m, q, z) BY <1>0, <2>z, <2>0, SameBlocks
    <2>2. ret = 0 BY <1>1, <1>2, <1>8, <1>10, <1>12
    <2>3. Agrees(0, a, a) BY <1>3, AgreesSame
    <2>4. a = b BY <1>12, <2>1 DEF a, b
    <2>5. Agrees(ret, a, b) BY <2>2, <2>3, <2>4
    <2> QED BY <2>5 DEF a, b, ret
  <1>13. CASE z < la /\ z < lb
    <2> DEFINE i == z + 1
    <2>1. z \in 0 .. la - 1 /\ z \in 0 .. lb - 1 /\ z # n BY <1>1, <1>8, <1>13
    <2>2. m[p + z] # 0 /\ m[p + z] # m[q + z] BY <1>1, <1>8, <2>1
    <2>3. a[i] = m[p + z] /\ b[i] = m[q + z] /\ m[p + z] \in Nat /\ m[q + z] \in Nat BY <1>3, <1>4, <2>1
    <2>4. ret = m[p + z] - m[q + z] BY <1>10, <2>1, <2>2
    <2>5. ret \in Int /\ (ret < 0 <=> a[i] < b[i]) /\ (ret > 0 <=> b[i] < a[i]) /\ a[i] # b[i]
      BY <2>2, <2>3, <2>4
    <2>6. i \in 1 .. la /\ i <= lb /\ \A j \in 1 .. i - 1 : a[j] = b[j] BY <1>8, <1>11, <1>13
    <2> HIDE DEF i, a, b, ret
    <2>7. Agrees(ret, a, b) BY <1>3, <1>4, <2>5, <2>6, AgreesDiffer
    <2> QED BY <2>7 DEF a, b, ret
  <1>14. CASE z = la /\ z < lb
    <2>1. z \in 0 .. lb - 1 /\ z < n BY <1>2, <1>8, <1>14
    <2>2. m[p + z] = 0 /\ m[q + z] # 0 /\ m[q + z] \in Nat BY <1>1, <1>2, <1>4, <1>14, <2>1
    <2>3. ret < 0 /\ ret # 0 /\ ~ (ret > 0) BY <1>10, <2>1, <2>2
    <2>4. Lower(a, b) /\ ~ Lower(b, a) /\ a # b BY <1>3, <1>4, <1>11, <1>14, ProperPrefix
    <2> HIDE DEF a, b, ret
    <2> QED BY <2>3, <2>4 DEF Agrees, a, b, ret
  <1>15. CASE z < la /\ z = lb
    <2>1. z \in 0 .. la - 1 /\ z < n BY <1>1, <1>8, <1>15
    <2>2. m[q + z] = 0 /\ m[p + z] # 0 /\ m[p + z] \in Nat BY <1>1, <1>2, <1>3, <1>15, <2>1
    <2>3. ret > 0 /\ ret # 0 /\ ~ (ret < 0) BY <1>10, <2>1, <2>2
    <2>4. \A j \in 1 .. lb : b[j] = a[j] BY <1>11, <1>15
    <2>5. Lower(b, a) /\ ~ Lower(a, b) /\ b # a BY <1>3, <1>4, <1>15, <2>4, ProperPrefix
    <2> HIDE DEF a, b, ret
    <2> QED BY <2>3, <2>5 DEF Agrees, a, b, ret
  <1> QED BY <1>7, <1>8, <1>12, <1>13, <1>14, <1>15

LEMMA MemcmpIs ==
    ASSUME NEW m, NEW p, NEW q, NEW n, NEW z \in Nat, z = n \/ m[p + z] # m[q + z],
           \A i \in 0 .. z - 1 : i # n /\ m[p + i] = m[q + i]
    PROVE  memcmp(m, p, q, n) = IF z = n THEN 0 ELSE IF m[p + z] < m[q + z] THEN -1 ELSE 1
  <1> DEFINE stop == {i \in Nat : i = n \/ m[p + i] # m[q + i]}
             val == [i \in Nat |-> IF i = n THEN 0 ELSE IF m[p + i] < m[q + i] THEN -1 ELSE 1]
             Is(f) == f = [i \in Nat |-> IF i = n THEN 0
                                         ELSE IF m[p + i] # m[q + i] THEN (IF m[p + i] < m[q + i] THEN -1 ELSE 1)
                                         ELSE f[i + 1]]
             scan == CHOOSE f : Is(f)
  <1>s. memcmp(m, p, q, n) = scan[0] BY Zenon DEF memcmp
  <1>0. z \in stop /\ \A i \in 0 .. z - 1 : i \notin stop OBVIOUS
  <1>1. ASSUME NEW f PROVE Scans(f, stop, val) <=> Is(f)
    <2>1. [i \in Nat |-> IF i \in stop THEN val[i] ELSE f[i + 1]]
          = [i \in Nat |-> IF i = n THEN 0
                           ELSE IF m[p + i] # m[q + i] THEN (IF m[p + i] < m[q + i] THEN -1 ELSE 1)
                           ELSE f[i + 1]]
      OBVIOUS
    <2> QED BY <2>1, Zenon DEF Scans
  <1>2. \E f : Is(f)
    <2>1. PICK f : Scans(f, stop, val) BY ScanExists
    <2> QED BY <1>1, <2>1
  <1>v. val[z] = IF z = n THEN 0 ELSE IF m[p + z] < m[q + z] THEN -1 ELSE 1 OBVIOUS
  <1> HIDE DEF Is
  <1>3. Is(scan) BY <1>2, Zenon
  <1>4. Scans(scan, stop, val) BY <1>1, <1>3
  <1> HIDE DEF scan, stop, val
  <1>5. scan[0] = val[z] BY <1>0, <1>4, ScanIs
  <1> QED BY <1>s, <1>v, <1>5

LEMMA MemcmpAgrees ==
    ASSUME NEW m \in Memory, NEW p \in Addresses, NEW q \in Addresses, NEW n \in Nat,
           p + n <= MemSize, q + n <= MemSize
    PROVE  Agrees(memcmp(m, p, q, n), Block(m, p, n), Block(m, q, n))
  <1> DEFINE a == Block(m, p, n)
             b == Block(m, q, n)
             ret == memcmp(m, p, q, n)
             T == {i \in Nat : i = n \/ m[p + i] # m[q + i]}
             z == Min(T)
  <1>0. p \in Nat /\ q \in Nat BY CStringAssumption DEF Addresses
  <1>1. Numbers(a, n) /\ \A i \in 0 .. n - 1 : a[i + 1] = m[p + i] /\ m[p + i] \in Nat BY BlockNumbers
  <1>2. Numbers(b, n) /\ \A i \in 0 .. n - 1 : b[i + 1] = m[q + i] /\ m[q + i] \in Nat BY BlockNumbers
  <1>3. n \in T /\ T \in SUBSET Nat /\ T # {} OBVIOUS
  <1>4. z \in T /\ z <= n /\ \A y \in T : z <= y BY <1>3, MinOfSome
  <1> HIDE DEF z
  <1>5. z \in Nat /\ (z = n \/ m[p + z] # m[q + z]) BY <1>4
  <1>6. ASSUME NEW i \in 0 .. z - 1 PROVE i # n /\ m[p + i] = m[q + i]
    <2>1. i \in Nat /\ ~ (z <= i) BY <1>5
    <2> QED BY <1>4, <2>1
  <1>7. ret = IF z = n THEN 0 ELSE IF m[p + z] < m[q + z] THEN -1 ELSE 1 BY <1>5, <1>6, MemcmpIs
  <1>8. ASSUME NEW j \in 1 .. z PROVE a[j] = b[j]
    <2>1. /\ j - 1 \in 0 .. z - 1 /\ j - 1 \in 0 .. n - 1 /\ (j - 1) + 1 = j
      BY <1>4, <1>5
    <2>2. a[(j - 1) + 1] = m[p + (j - 1)] /\ b[(j - 1) + 1] = m[q + (j - 1)] BY <1>1, <1>2, <2>1
    <2> QED BY <1>6, <2>1, <2>2
  <1>9. CASE z = n
    <2>0. SameBytes(m, p, q, n) BY <1>6, <1>9 DEF SameBytes
    <2>1. a = b BY <1>0, <2>0, SameBlocks
    <2>2. ret = 0 BY <1>7, <1>9
    <2>3. Agrees(0, a, a) BY <1>1, AgreesSame
    <2> QED BY <2>1, <2>2, <2>3
  <1>10. CASE z # n
    <2> DEFINE i == z + 1
    <2>1. z \in 0 .. n - 1 BY <1>4, <1>5, <1>10
    <2>2. m[p + z] # m[q + z] BY <1>5, <1>10
    <2>3. a[i] = m[p + z] /\ b[i] = m[q + z] /\ m[p + z] \in Nat /\ m[q + z] \in Nat BY <1>1, <1>2, <2>1
    <2>4. ret = IF m[p + z] < m[q + z] THEN -1 ELSE 1 BY <1>7, <1>10
    <2>5. ret \in Int /\ (ret < 0 <=> a[i] < b[i]) /\ (ret > 0 <=> b[i] < a[i]) /\ a[i] # b[i]
      BY <2>2, <2>3, <2>4
    <2>6. i \in 1 .. n /\ i <= n /\ \A j \in 1 .. i - 1 : a[j] = b[j] BY <1>5, <1>8, <2>1
    <2> HIDE DEF i, a, b, ret
    <2>7. Agrees(ret, a, b) BY <1>1, <1>2, <2>5, <2>6, AgreesDiffer
    <2> QED BY <2>7 DEF a, b, ret
  <1> QED BY <1>9, <1>10

-----------------------------------------------------------------------------
(* What one call does. *)
LEMMA WriteKeeps ==
    ASSUME NEW m \in Memory, NEW p \in Nat, NEW s \in Seq(Chars256)
    PROVE  Write(m, p, s) \in Memory
  <1>1. DOMAIN m = Addresses /\ (\A a \in Addresses : m[a] \in Chars256) BY MemoryIs
  <1>2. \A i \in DOMAIN s : s[i] \in Chars256 OBVIOUS
  <1>3. ASSUME NEW a \in Addresses
        PROVE  (IF a - p + 1 \in DOMAIN s THEN s[a - p + 1] ELSE m[a]) \in Chars256
    BY <1>1, <1>2
  <1>4. Memory = [Addresses -> Chars256] BY DEF Memory, Chars256
  <1> QED BY <1>1, <1>3, <1>4 DEF Write

StringStep == mem' \in Memory /\ AnswersRight' /\ Leaves

LEMMA Returned ==
    ASSUME NEW fn, NEW p, NEW q, NEW n, NEW ret, Return(fn, p, q, n, ret)
    PROVE  call'.fn = fn /\ call'.p = p /\ call'.q = q /\ call'.n = n /\ call'.ret = ret
  BY DEF Return

LEMMA ReaderLeaves ==
    ASSUME UNCHANGED mem, call'.fn \in Readers
    PROVE  Leaves
  BY DEF Leaves, Readers

LEMMA WriterAnswers ==
    ASSUME call'.fn \notin Readers
    PROVE  AnswersRight'
  BY DEF AnswersRight, LengthsRight, StrnlenReads, OrderRight, Readers

LEMMA SizeIs ==
    ASSUME NEW p \in Addresses, IsString(p)
    PROVE  \E len \in Nat : Ends(mem, p, len) /\ Size(p) = len + 1 /\ strlen(mem, p) = len
  <1>1. PICK len \in Nat : Ends(mem, p, len) BY StringEnds DEF IsString
  <1>2. strlen(mem, p) = len BY <1>1, StrlenIs
  <1> QED BY <1>1, <1>2 DEF Size

LEMMA LengthsStep ==
    ASSUME mem \in Memory, NEW p \in Addresses, NEW n \in Nat, n < ADDRESSES, Lengths(p, n)
    PROVE  StringStep
  <1>1. mem' = mem /\ mem' \in Memory BY DEF Lengths
  <1>p. p \in Nat /\ DOMAIN mem = Addresses /\ MemSize \in Nat BY CStringAssumption, MemoryIs DEF Addresses
  <1>2. CASE IsString(p) /\ Return("strlen", p, 0, n, strlen(mem, p))
    <2>1. PICK len \in Nat : Ends(mem, p, len) /\ strlen(mem, p) = len BY <1>2, SizeIs
    <2>2. call'.fn = "strlen" /\ call'.p = p /\ call'.ret = len BY <1>2, <2>1, Returned
    <2>3. Len(Chars(mem, p)) = len BY <1>p, <2>1, CharsAre, BlockIs
    <2>4. LengthsRight' BY <1>1, <2>2, <2>3 DEF LengthsRight
    <2>5. StrnlenReads' /\ OrderRight' BY <2>2 DEF StrnlenReads, OrderRight
    <2>6. Leaves BY <1>1, <2>2, ReaderLeaves DEF Readers
    <2> QED BY <1>1, <2>4, <2>5, <2>6 DEF StringStep, AnswersRight
  <1>3. CASE (IsString(p) \/ Fits(p, n)) /\ Return("strnlen", p, 0, n, strnlen(mem, p, n))
    <2>1. PICK len \in Nat : Cut(mem, p, n, len) /\ Bounded(mem, p, n) = Block(mem, p, len)
      BY <1>3, BoundedIs DEF IsString, Fits
    <2> DEFINE ret == strnlen(mem, p, n)
    <2>2. call'.fn = "strnlen" /\ call'.p = p /\ call'.n = n /\ call'.ret = ret BY <1>3, Returned
    <2>3. ret.len = len /\ Near(p, n, len, ret.reads) BY <2>1, StrnlenIs
    <2>4. Len(Bounded(mem, p, n)) = len BY <2>1, BlockIs
    <2> HIDE DEF ret
    <2>5. LengthsRight' BY <1>1, <2>2, <2>3, <2>4 DEF LengthsRight
    <2>6. StrnlenReads' BY <1>1, <2>2, <2>3, <2>4 DEF StrnlenReads, Near
    <2>7. OrderRight' BY <2>2 DEF OrderRight
    <2>8. Leaves BY <1>1, <2>2, ReaderLeaves DEF Readers
    <2> QED BY <1>1, <2>5, <2>6, <2>7, <2>8 DEF StringStep, AnswersRight
  <1> QED BY <1>2, <1>3 DEF Lengths

(* A signed char is the int c when c is in its range and has the bits of   *)
(* the character.                                                          *)
LEMMA SignedMatches ==
    ASSUME NEW b \in Chars256, NEW c \in Int
    PROVE  Signed(b) = c <=> IsChar(c) /\ b = c % UCHAR
  <1> DEFINE h == UCHAR \div 2
  <1>1. UCHAR \in Nat /\ UCHAR > 0 /\ UCHAR % 2 = 0 BY CStringAssumption
  <1>2. h \in Nat /\ UCHAR = 2 * h BY <1>1
  <1>3. Signed(b) = IF b >= h THEN b - UCHAR ELSE b BY DEF Signed
  <1>4. IsChar(c) <=> -h <= c /\ c < h BY <1>2 DEF IsChar
  <1> HIDE DEF h
  <1>5. b \in Nat /\ b < UCHAR BY <1>1 DEF Chars256
  <1>6. CASE 0 <= c /\ c < h
    <2>1. c % UCHAR = c BY <1>1, <1>2, <1>6
    <2> QED BY <1>1, <1>2, <1>3, <1>4, <1>5, <1>6, <2>1
  <1>7. CASE -h <= c /\ c < 0
    <2>1. c % UCHAR = c + UCHAR BY <1>1, <1>2, <1>7
    <2> QED BY <1>1, <1>2, <1>3, <1>4, <1>5, <1>7, <2>1
  <1>8. CASE ~(-h <= c /\ c < h) BY <1>1, <1>2, <1>3, <1>4, <1>5, <1>8
  <1> QED BY <1>2, <1>6, <1>7, <1>8

LEMMA SearchesStep ==
    ASSUME mem \in Memory, NEW p \in Addresses, NEW c \in Int, Searches(p, c)
    PROVE  StringStep
  <1>1. mem' = mem /\ mem' \in Memory BY DEF Searches
  <1>p. /\ p \in Nat /\ DOMAIN mem = Addresses /\ MemSize \in Nat
        /\ \A a \in Addresses : mem[a] \in Chars256
    BY CStringAssumption, MemoryIs DEF Addresses
  <1>2. PICK len \in Nat : Ends(mem, p, len) BY SizeIs DEF Searches
  <1>3. call'.fn = "strchr" /\ call'.p = p /\ call'.n = c /\ call'.ret = strchr(mem, p, c)
    BY Returned DEF Searches
  <1>4. Len(Chars(mem, p)) = len BY <1>p, <1>2, CharsAre, BlockIs
  <1> DEFINE hits == {i \in 0 .. len : Signed(mem[p + i]) = c}
             bits == {i \in 0 .. len : mem[p + i] = c % UCHAR}
  <1>5. strchr(mem, p, c) = IF hits = {} THEN NULL ELSE p + Min(hits) BY <1>p, <1>2, StrchrIs
  <1>6. hits = IF IsChar(c) THEN bits ELSE {}
    <2>1. \A i \in 0 .. len : p + i \in Addresses BY <1>p, <1>2 DEF Ends, Addresses
    <2>2. \A i \in 0 .. len : Signed(mem[p + i]) = c <=> IsChar(c) /\ mem[p + i] = c % UCHAR
      BY <1>p, <2>1, SignedMatches
    <2> QED BY <2>2
  <1>7. strchr(mem, p, c) = IF bits = {} \/ ~IsChar(c) THEN NULL ELSE p + Min(bits) BY <1>5, <1>6
  <1>8. LengthsRight' BY <1>1, <1>3, <1>4, <1>7 DEF LengthsRight
  <1>9. StrnlenReads' /\ OrderRight' BY <1>3 DEF StrnlenReads, OrderRight
  <1>10. Leaves BY <1>1, <1>3, ReaderLeaves DEF Readers
  <1> QED BY <1>1, <1>8, <1>9, <1>10 DEF StringStep, AnswersRight

LEMMA ComparesStep ==
    ASSUME mem \in Memory, NEW p \in Addresses, NEW q \in Addresses, NEW n \in Nat, Compares(p, q, n)
    PROVE  StringStep
  <1>1. mem' = mem /\ mem' \in Memory BY DEF Compares
  <1>p. p \in Nat /\ DOMAIN mem = Addresses /\ MemSize \in Nat BY CStringAssumption, MemoryIs DEF Addresses
  <1>2. CASE IsString(p) /\ IsString(q) /\ Return("strcmp", p, q, n, strcmp(mem, p, q))
    <2>1. PICK plen \in Nat : Ends(mem, p, plen) BY <1>2, SizeIs
    <2>2. PICK qlen \in Nat : Ends(mem, q, qlen) BY <1>2, SizeIs
    <2>3. call'.fn = "strcmp" /\ call'.p = p /\ call'.q = q /\ call'.ret = strcmp(mem, p, q) BY <1>2, Returned
    <2>4. Agrees(strcmp(mem, p, q), SignedBytes(Append(Chars(mem, p), 0)), SignedBytes(Append(Chars(mem, q), 0)))
      BY <2>1, <2>2, StrcmpAgrees
    <2>5. OrderRight' BY <1>1, <2>3, <2>4 DEF OrderRight
    <2>6. StrnlenReads' /\ LengthsRight' BY <2>3 DEF StrnlenReads, LengthsRight
    <2>7. Leaves BY <1>1, <2>3, ReaderLeaves DEF Readers
    <2> QED BY <1>1, <2>5, <2>6, <2>7 DEF StringStep, AnswersRight
  <1>3. CASE /\ (IsString(p) \/ Fits(p, n)) /\ (IsString(q) \/ Fits(q, n))
             /\ Return("strncmp", p, q, n, strncmp(mem, p, q, n))
    <2>1. PICK la \in Nat : Cut(mem, p, n, la) /\ Bounded(mem, p, n) = Block(mem, p, la)
      BY <1>3, BoundedIs DEF IsString, Fits
    <2>2. PICK lb \in Nat : Cut(mem, q, n, lb) /\ Bounded(mem, q, n) = Block(mem, q, lb)
      BY <1>3, BoundedIs DEF IsString, Fits
    <2>3. call'.fn = "strncmp" /\ call'.p = p /\ call'.q = q /\ call'.n = n /\ call'.ret = strncmp(mem, p, q, n)
      BY <1>3, Returned
    <2>4. Agrees(strncmp(mem, p, q, n), Block(mem, p, la), Block(mem, q, lb)) BY <2>1, <2>2, StrncmpAgrees
    <2>5. Agrees(strncmp(mem, p, q, n), Bounded(mem, p, n), Bounded(mem, q, n)) BY <2>1, <2>2, <2>4
    <2>6. OrderRight' BY <1>1, <2>3, <2>5 DEF OrderRight
    <2>7. StrnlenReads' /\ LengthsRight' BY <2>3 DEF StrnlenReads, LengthsRight
    <2>8. Leaves BY <1>1, <2>3, ReaderLeaves DEF Readers
    <2> QED BY <1>1, <2>6, <2>7, <2>8 DEF StringStep, AnswersRight
  <1>4. CASE Fits(p, n) /\ Fits(q, n) /\ Return("memcmp", p, q, n, memcmp(mem, p, q, n))
    <2>1. call'.fn = "memcmp" /\ call'.p = p /\ call'.q = q /\ call'.n = n /\ call'.ret = memcmp(mem, p, q, n)
      BY <1>4, Returned
    <2>2. Agrees(memcmp(mem, p, q, n), Block(mem, p, n), Block(mem, q, n)) BY <1>4, MemcmpAgrees DEF Fits
    <2>3. OrderRight' BY <1>1, <2>1, <2>2 DEF OrderRight
    <2>4. StrnlenReads' /\ LengthsRight' BY <2>1 DEF StrnlenReads, LengthsRight
    <2>5. Leaves BY <1>1, <2>1, ReaderLeaves DEF Readers
    <2> QED BY <1>1, <2>3, <2>4, <2>5 DEF StringStep, AnswersRight
  <1> QED BY <1>2, <1>3, <1>4 DEF Compares

LEMMA FillsStep ==
    ASSUME mem \in Memory, NEW p \in Addresses, NEW n \in Nat, Fills(p, n)
    PROVE  StringStep
  <1>p. p \in Nat BY CStringAssumption DEF Addresses
  <1>1. PICK val \in Bytes : mem' = IF val = 0 THEN bzero(mem, p, n) ELSE memset(mem, p, val, n) BY DEF Fills
  <1>2. call'.fn = "memset" /\ call'.p = p /\ call'.n = n
    <2>1. Return("memset", p, 0, n, p) BY DEF Fills
    <2> QED BY <2>1, Returned
  <1>3. mem' = Write(mem, p, [i \in 1 .. n |-> val]) BY <1>p, <1>1, MemsetWrites
  <1>4. val \in Chars256 BY CStringAssumption DEF Chars256
  <1>5. [i \in 1 .. n |-> val] \in Seq(Chars256) BY <1>4
  <1>6. mem' \in Memory BY <1>p, <1>3, <1>5, WriteKeeps
  <1>7. AnswersRight' BY <1>2, WriterAnswers DEF Readers
  <1>8. Leaves BY <1>2, <1>3 DEF Leaves, Readers
  <1> QED BY <1>6, <1>7, <1>8 DEF StringStep

LEMMA CopiesStep ==
    ASSUME mem \in Memory, NEW p \in Addresses, NEW q \in Addresses, NEW n \in Nat, Copies(p, q, n)
    PROVE  StringStep
  <1>p. p \in Nat /\ q \in Nat /\ MemSize \in Nat /\ ADDRESSES \in Nat /\ MemSize < ADDRESSES
    BY CStringAssumption DEF Addresses
  <1>i. IsMem(mem) /\ DOMAIN mem = Addresses BY MemoryIs
  <1>0. 0 \in Chars256 BY CStringAssumption DEF Chars256
  <1>1. CASE /\ Fits(p, n) /\ Fits(q, n) /\ Apart(p, q, n)
             /\ mem' = memcpy(mem, p, q, n) /\ Return("memcpy", p, q, n, p)
    <2>1. call'.fn = "memcpy" /\ call'.p = p /\ call'.q = q /\ call'.n = n BY <1>1, Returned
    <2>2. p + n <= MemSize /\ q + n <= MemSize /\ (p <= q \/ q + n <= p) BY <1>p, <1>1 DEF Fits, Apart
    <2>3. mem' = Write(mem, p, Block(mem, q, n)) BY <1>p, <1>i, <1>1, <2>2, CopyUpWrites DEF memcpy
    <2>4. Block(mem, q, n) \in Seq(Chars256) BY <1>p, <2>2, BlockIsSeq
    <2>5. mem' \in Memory BY <1>p, <2>3, <2>4, WriteKeeps
    <2>6. AnswersRight' BY <2>1, WriterAnswers DEF Readers
    <2>7. Leaves BY <2>1, <2>3 DEF Leaves, Readers
    <2> QED BY <2>5, <2>6, <2>7 DEF StringStep
  <1>2. CASE /\ Fits(p, n) /\ Fits(q, n)
             /\ mem' = memmove(mem, p, q, n) /\ Return("memmove", p, q, n, p)
    <2>1. call'.fn = "memmove" /\ call'.p = p /\ call'.q = q /\ call'.n = n BY <1>2, Returned
    <2>2. p + n <= MemSize /\ q + n <= MemSize BY <1>2 DEF Fits
    <2>3. mem' = Write(mem, p, Block(mem, q, n)) BY <1>p, <1>i, <1>2, <2>2, MemmoveWrites
    <2>4. Block(mem, q, n) \in Seq(Chars256) BY <1>p, <2>2, BlockIsSeq
    <2>5. mem' \in Memory BY <1>p, <2>3, <2>4, WriteKeeps
    <2>6. AnswersRight' BY <2>1, WriterAnswers DEF Readers
    <2>7. Leaves BY <2>1, <2>3 DEF Leaves, Readers
    <2> QED BY <2>5, <2>6, <2>7 DEF StringStep
  <1>3. CASE /\ IsString(q) /\ Fits(p, Size(q)) /\ Apart(p, q, Size(q))
             /\ mem' = strcpy(mem, p, q) /\ Return("strcpy", p, q, n, p)
    <2>1. call'.fn = "strcpy" /\ call'.p = p /\ call'.q = q BY <1>3, Returned
    <2>2. PICK len \in Nat : Ends(mem, q, len) /\ Size(q) = len + 1 BY <1>3, SizeIs
    <2>3. p + (len + 1) <= MemSize /\ (p + (len + 1) <= q \/ q + (len + 1) <= p) BY <1>3, <2>2 DEF Fits, Apart
    <2>4. mem' = Write(mem, p, Append(Chars(mem, q), 0)) BY <1>3, <2>2, <2>3, StrcpyWrites
    <2>5. q + (len + 1) <= MemSize /\ len + 1 \in Nat BY <1>p, <2>2 DEF Ends
    <2>6. Append(Chars(mem, q), 0) = Block(mem, q, len + 1) BY <2>2, Terminated
    <2>7. Append(Chars(mem, q), 0) \in Seq(Chars256) BY <1>p, <2>5, <2>6, BlockIsSeq
    <2>8. mem' \in Memory BY <1>p, <2>4, <2>7, WriteKeeps
    <2>9. AnswersRight' BY <2>1, WriterAnswers DEF Readers
    <2>10. Leaves BY <2>1, <2>4 DEF Leaves, Readers
    <2> QED BY <2>8, <2>9, <2>10 DEF StringStep
  <1>4. CASE /\ (IsString(q) \/ Fits(q, n)) /\ Fits(p, n) /\ Apart(p, q, n)
             /\ mem' = strncpy(mem, p, q, n) /\ Return("strncpy", p, q, n, p)
    <2>1. call'.fn = "strncpy" /\ call'.p = p /\ call'.q = q /\ call'.n = n BY <1>4, Returned
    <2>2. PICK len \in Nat : Cut(mem, q, n, len) /\ Bounded(mem, q, n) = Block(mem, q, len)
      BY <1>4, BoundedIs DEF IsString, Fits
    <2>3. p + n <= MemSize /\ (p + n <= q \/ q + n <= p) BY <1>4 DEF Fits, Apart
    <2> DEFINE rest(k) == [i \in 1 .. n - k |-> 0]
               src == Block(mem, q, len)
    <2>4. mem' = Write(mem, p, src \o rest(len)) BY <1>4, <2>2, <2>3, StrncpyWrites
    <2>5. q + len <= MemSize /\ len <= n /\ n - len \in Nat BY <2>2 DEF Cut
    <2>6. src \in Seq(Chars256) /\ Len(src) = len
      <3>1. src \in Seq(Chars256) BY <1>p, <2>5, BlockIsSeq
      <3> QED BY <3>1, BlockIs
    <2>7. rest(len) \in Seq(Chars256)
      <3> HIDE DEF Chars256
      <3> QED BY <1>0, <2>5
    <2>s. src = Bounded(mem, q, n) BY <2>2
    <2> HIDE DEF src
    <2>8. mem' \in Memory
      <3> HIDE DEF rest
      <3>1. src \o rest(len) \in Seq(Chars256) BY <2>6, <2>7
      <3> QED BY <1>p, <2>4, <3>1, WriteKeeps
    <2>9. AnswersRight' BY <2>1, WriterAnswers DEF Readers
    <2>10. mem' = Write(mem, p, Bounded(mem, q, n) \o rest(Len(Bounded(mem, q, n)))) BY <2>4, <2>6, <2>s
    <2>11. Leaves BY <2>1, <2>10 DEF Leaves, Readers
    <2> QED BY <2>8, <2>9, <2>11 DEF StringStep
  <1>5. CASE /\ IsString(p) /\ IsString(q) /\ Fits(p, Size(p) + Size(q) - 1)
             /\ p + Size(p) + Size(q) - 1 <= q \/ q + Size(q) <= p
             /\ mem' = strcat(mem, p, q) /\ Return("strcat", p, q, n, p)
    <2>1. call'.fn = "strcat" /\ call'.p = p /\ call'.q = q BY <1>5, Returned
    <2>2. PICK plen \in Nat : Ends(mem, p, plen) /\ Size(p) = plen + 1 BY <1>5, SizeIs
    <2>3. PICK qlen \in Nat : Ends(mem, q, qlen) /\ Size(q) = qlen + 1 BY <1>5, SizeIs
    <2>4. p + plen + qlen < MemSize /\ (p + plen + qlen < q \/ q + qlen < p) BY <1>p, <1>5, <2>2, <2>3 DEF Fits
    <2> DEFINE s == Chars(mem, p)
               t == Chars(mem, q)
    <2>5. mem' = Write(mem, p, s \o t) BY <1>5, <2>2, <2>3, <2>4, StrcatWrites
    <2>6. s \in Seq(Chars256)
      <3>1. p + plen <= MemSize BY <1>p, <2>2 DEF Ends
      <3> QED BY <1>p, <1>i, <2>2, <3>1, CharsAre, BlockIsSeq
    <2>7. t \in Seq(Chars256)
      <3>1. q + qlen <= MemSize BY <1>p, <2>3 DEF Ends
      <3> QED BY <1>p, <1>i, <2>3, <3>1, CharsAre, BlockIsSeq
    <2>8. mem' \in Memory
      <3> HIDE DEF s, t
      <3>1. s \o t \in Seq(Chars256) BY <2>6, <2>7
      <3> QED BY <1>p, <2>5, <3>1, WriteKeeps
    <2>9. AnswersRight' BY <2>1, WriterAnswers DEF Readers
    <2>10. Leaves BY <2>1, <2>5 DEF Leaves, Readers
    <2> QED BY <2>8, <2>9, <2>10 DEF StringStep
  <1> QED BY <1>1, <1>2, <1>3, <1>4, <1>5 DEF Copies

LEMMA EditsStep ==
    ASSUME mem \in Memory, NEW p \in Addresses, Edits(p)
    PROVE  StringStep
  <1>p. p \in Nat /\ MemSize \in Nat BY CStringAssumption DEF Addresses
  <1>i. IsMem(mem) /\ DOMAIN mem = Addresses BY MemoryIs
  <1>0. 0 \in Chars256 BY CStringAssumption DEF Chars256
  <1> DEFINE str == Chars(mem, p)
  <1>1. PICK len \in Nat : Ends(mem, p, len) /\ Size(p) = len + 1 BY SizeIs DEF Edits
  <1>2. str \in Seq(Chars256) /\ Len(str) = len
    <2>1. p + len <= MemSize BY <1>p, <1>1 DEF Ends
    <2>2. str = Block(mem, p, len) BY <1>i, <1>1, CharsAre
    <2>3. str \in Seq(Chars256) BY <1>p, <2>1, <2>2, BlockIsSeq
    <2> QED BY <2>2, <2>3, BlockIs
  <1>3. CASE Size(p) > 1 /\ mem' = backspace(mem, p) /\ Return("backspace", p, 0, 0, 0)
    <2>1. call'.fn = "backspace" /\ call'.p = p BY <1>3, Returned
    <2>2. len > 0 BY <1>1, <1>3
    <2>3. mem' = Write(mem, p, Append(Front(str), 0)) BY <1>1, <1>3, <2>2, BackspaceWrites
    <2>4. Append(Front(str), 0) \in Seq(Chars256)
      <3> HIDE DEF str, Chars256
      <3>1. Front(str) \in Seq(Chars256) BY <1>2, <2>2 DEF Front
      <3> QED BY <1>0, <3>1
    <2>5. mem' \in Memory BY <1>p, <2>3, <2>4, WriteKeeps
    <2>6. AnswersRight' BY <2>1, WriterAnswers DEF Readers
    <2>7. Leaves BY <2>1, <2>3 DEF Leaves, Readers
    <2> QED BY <2>5, <2>6, <2>7 DEF StringStep
  <1>4. CASE /\ Fits(p, Size(p) + 1)
             /\ \E c \in Bytes \ {0} : mem' = append(mem, p, c) /\ Return("append", p, 0, c, 0)
    <2>1. PICK c \in Bytes : mem' = append(mem, p, c) /\ Return("append", p, 0, c, 0) BY <1>4
    <2>2. call'.fn = "append" /\ call'.p = p /\ call'.n = c BY <2>1, Returned
    <2>3. p + len + 1 < MemSize BY <1>p, <1>1, <1>4 DEF Fits
    <2>4. mem' = Write(mem, p, str \o <<c, 0>>) BY <1>1, <2>1, <2>3, AppendWrites
    <2>5. c \in Chars256 BY CStringAssumption DEF Chars256
    <2>6. str \o <<c, 0>> \in Seq(Chars256)
      <3> HIDE DEF str, Chars256
      <3>1. <<c, 0>> \in Seq(Chars256) BY <1>0, <2>5
      <3> QED BY <1>2, <3>1
    <2>7. mem' \in Memory BY <1>p, <2>4, <2>6, WriteKeeps
    <2>8. AnswersRight' BY <2>2, WriterAnswers DEF Readers
    <2>9. Leaves BY <2>2, <2>4 DEF Leaves, Readers
    <2> QED BY <2>7, <2>8, <2>9 DEF StringStep
  <1>5. CASE mem' = strrev(mem, p) /\ Return("strrev", p, 0, 0, 0)
    <2>1. call'.fn = "strrev" /\ call'.p = p BY <1>5, Returned
    <2>2. mem' = Write(mem, p, Reverse(str)) BY <1>1, <1>5, StrrevWrites
    <2>3. Reverse(str) \in Seq(Chars256)
      <3> HIDE DEF str, Chars256
      <3>1. ASSUME NEW i \in 1 .. len PROVE str[(len - i) + 1] \in Chars256 BY <1>2
      <3>2. Reverse(str) = [i \in 1 .. len |-> str[(len - i) + 1]] BY <1>2 DEF Reverse
      <3> QED BY <3>1, <3>2
    <2>4. mem' \in Memory BY <1>p, <2>2, <2>3, WriteKeeps
    <2>5. AnswersRight' BY <2>1, WriterAnswers DEF Readers
    <2>6. Leaves BY <2>1, <2>2 DEF Leaves, Readers
    <2> QED BY <2>4, <2>5, <2>6 DEF StringStep
  <1> QED BY <1>3, <1>4, <1>5 DEF Edits

(* Every call of string.c answers and writes what its reference says. *)
LEMMA CallStep ==
    ASSUME mem \in Memory, StringCall
    PROVE  StringStep
  <1>p. MemSize \in Nat /\ ADDRESSES \in Nat /\ MemSize < ADDRESSES BY CStringAssumption
  <1>n. ASSUME NEW n \in Sizes \cup {ADDRESSES - 1} PROVE n \in Nat /\ n < ADDRESSES BY <1>p DEF Sizes
  <1>s. ASSUME NEW n \in Sizes PROVE n \in Nat BY <1>p DEF Sizes
  <1>1. PICK p \in Addresses :
            \/ \E n \in Sizes \cup {ADDRESSES - 1} : Lengths(p, n)
            \/ \E c \in Ints : Searches(p, c)
            \/ \E n \in Sizes : Fills(p, n)
            \/ \E q \in Addresses, n \in Sizes : Compares(p, q, n) \/ Copies(p, q, n)
            \/ Edits(p)
    BY DEF StringCall
  <1>2. CASE \E n \in Sizes \cup {ADDRESSES - 1} : Lengths(p, n)
    <2>1. PICK n \in Sizes \cup {ADDRESSES - 1} : Lengths(p, n) BY <1>2
    <2>2. n \in Nat /\ n < ADDRESSES BY <1>n
    <2> QED BY <2>1, <2>2, LengthsStep
  <1>3. CASE \E n \in Sizes : Fills(p, n) BY <1>3, <1>s, FillsStep
  <1>4. CASE \E q \in Addresses, n \in Sizes : Compares(p, q, n) \/ Copies(p, q, n)
    <2>1. PICK q \in Addresses, n \in Sizes : Compares(p, q, n) \/ Copies(p, q, n) BY <1>4
    <2>2. n \in Nat BY <1>s
    <2>3. CASE Compares(p, q, n) BY <2>2, <2>3, ComparesStep
    <2>4. CASE Copies(p, q, n) BY <2>2, <2>4, CopiesStep
    <2> QED BY <2>1, <2>3, <2>4
  <1>5. CASE Edits(p) BY <1>5, EditsStep
  <1>6. CASE \E c \in Ints : Searches(p, c)
    <2>1. Ints \subseteq Int BY CStringAssumption DEF Ints
    <2> QED BY <1>6, <2>1, SearchesStep
  <1> QED BY <1>1, <1>2, <1>3, <1>4, <1>5, <1>6

-----------------------------------------------------------------------------
(* The memory stays an array of bytes, and the answers right: the inductive *)
(* invariant of string.c.                                                   *)
StringInv == mem \in Memory /\ AnswersRight

LEMMA StringInitially == Init => StringInv
  <1> SUFFICES ASSUME Init PROVE StringInv OBVIOUS
  <1>1. mem \in [Addresses -> Bytes] /\ call.fn = "none" BY DEF Init, StringInit, NoCall
  <1>2. mem \in Memory BY <1>1, CStringAssumption DEF Memory
  <1>3. AnswersRight BY <1>1 DEF AnswersRight, LengthsRight, StrnlenReads, OrderRight
  <1> QED BY <1>2, <1>3 DEF StringInv

LEMMA StringsGoOn == StringInv /\ [Next]_vars => StringInv' /\ [Leaves]_string_vars
  <1> SUFFICES ASSUME StringInv, [Next]_vars PROVE StringInv' /\ [Leaves]_string_vars OBVIOUS
  <1>1. CASE UseStrings
    <2>1. mem \in Memory /\ StringCall BY <1>1 DEF StringInv, UseStrings
    <2>2. StringStep BY <2>1, CallStep
    <2> QED BY <2>2 DEF StringStep, StringInv
  <1>2. CASE UseFormat \/ Formatting \/ UseTable \/ UseStatics \/ UNCHANGED vars
    <2>1. UNCHANGED string_vars BY <1>2 DEF UseFormat, Formatting, UseTable, UseStatics, vars
    <2>2. mem' = mem /\ call' = call BY <2>1 DEF string_vars
    <2>3. AnswersRight' BY <2>2 DEF StringInv, AnswersRight, LengthsRight, StrnlenReads, OrderRight
    <2> QED BY <2>1, <2>2, <2>3 DEF StringInv
  <1> QED BY <1>1, <1>2 DEF Next

(* strlen, strnlen, strncmp and memcmp answer what C says (string.c:36,    *)
(* 46, 170, 245); strchr too, for the ints of a signed char, and nothing   *)
(* for others (string.c:223); strcmp what C says with characters ordered   *)
(* as signed ones, which is C's order up to 127 only (string.c:155); and   *)
(* strnlen reads only longwords that hold a byte it may look at            *)
(* (string.c:102): for every memory and every size of it, every address,   *)
(* alignment and limit, also one that overflows the address, every size of *)
(* a longword and every range of a character.                              *)
THEOREM StringsAnswer == Spec => []AnswersRight
  <1>1. StringInv => AnswersRight BY DEF StringInv
  <1> QED BY <1>1, StringInitially, StringsGoOn, PTL DEF Spec

(* memset, memcpy, memmove, strcpy, strncpy, strcat, backspace, append and *)
(* strrev leave in the memory what they are to leave, and change no other  *)
(* byte (string.c:189, 215, 254, 274): for every memory, every place and   *)
(* every length, and for memmove whichever way the ranges overlap.         *)
THEOREM StringsWrite == Spec => WritesRight
  <1> QED BY StringInitially, StringsGoOn, PTL DEF Spec, WritesRight

-----------------------------------------------------------------------------
(* The memory holds bytes; the width and the precision of a directive stay *)
(* in an unsigned int, whatever digits or argument they come from          *)
(* (vsprintf.c:135, 641-667); the table of destructors is never indexed    *)
(* behind its end (cxxabi.cpp:116, 127); guards are set or clear.  The     *)
(* four invariants above together.                                         *)
THEOREM RuntimeTypes == Spec => []TypeOK
  <1> DEFINE Inv == StringInv /\ FormatInv /\ TableInv /\ GuardInv
  <1>1. Init => Inv BY StringInitially, FormatInitially, TableInitially, GuardInitially
  <1>2. Inv /\ [Next]_vars => Inv' BY StringsGoOn, FormatGoesOn, TableGoesOn, GuardGoesOn
  <1>3. Inv => TypeOK
    <2> SUFFICES ASSUME Inv PROVE TypeOK OBVIOUS
    <2>1. mem \in [Addresses -> 0 .. UCHAR - 1] BY DEF StringInv, Memory
    <2>2. fmt.at \in Labels
      <3>1. CASE fmt = NoFormat BY <3>1 DEF NoFormat, Labels
      <3>2. CASE LocalsInv BY <3>2 DEF LocalsInv, Parts, Labels
      <3> QED BY <3>1, <3>2 DEF FormatInv
    <2>3. fmt.at # "none" => /\ fmt.width \in 0 .. 2 ^ INT_BITS - 1
                             /\ fmt.precision \in 0 .. 2 ^ INT_BITS - 1
                             /\ DOMAIN fmt.buffer = 0 .. BufBytes - 1
      <3>1. CASE fmt = NoFormat BY <3>1 DEF NoFormat
      <3>2. CASE LocalsInv BY <3>2 DEF LocalsInv, UInts
      <3> QED BY <3>1, <3>2 DEF FormatInv
    <2>4. /\ __atexit_func_count \in 0 .. ATEXIT_MAX_FUNCS
          /\ \A k \in DOMAIN fin : fin[k].i \in 0 .. ATEXIT_MAX_FUNCS
          /\ \A i \in Table : __atexit_funcs[i].f \in Destructors \cup {All}
      <3>1. TableTypes BY DEF TableInv
      <3>2. \A k \in DOMAIN fin : fin[k].i \in 0 .. ATEXIT_MAX_FUNCS BY <3>1, TypesAre DEF Frames
      <3> QED BY <3>1, <3>2 DEF TableTypes, Entries
    <2>5. guard \in [Statics -> BOOLEAN] BY DEF GuardInv
    <2> QED BY <2>1, <2>2, <2>3, <2>4, <2>5 DEF TypeOK
  <1> HIDE DEF Inv
  <1> QED BY <1>1, <1>2, <1>3, PTL DEF Spec
=============================================================================
