------------------------------ MODULE CString -------------------------------
(***************************************************************************)
(* libc/src/string/string.c.  Memory is an array of bytes; every function  *)
(* is an operator on the memory and its arguments.  A step is one call, by *)
(* any caller that keeps to the rules of C: strings end inside the memory, *)
(* writes stay inside it, only memmove gets ranges that overlap, and no    *)
(* pointer is null (strcat alone checks its two, string.c:210).            *)
(***************************************************************************)
EXTENDS Integers, SequencesExt, FiniteSetsExt

CONSTANTS MemSize, Bytes,   \* the addresses 0 .. MemSize - 1, the values used
          UCHAR,            \* 256
          WORD,             \* sizeof(unsigned long) = 8
          ADDRESSES         \* 2^64

ASSUME CStringAssumption ==
    /\ MemSize \in Nat /\ WORD \in Nat \ {0} /\ MemSize % WORD = 0
    /\ UCHAR \in Nat \ {0} /\ UCHAR % 2 = 0 /\ Bytes \subseteq 0 .. UCHAR - 1 /\ 0 \in Bytes
    /\ ADDRESSES \in Nat /\ MemSize < ADDRESSES

VARIABLES mem, call         \* the memory; the last call and what it returned

string_vars == <<mem, call>>

Addresses == 0 .. MemSize - 1
NULL == -1
NoCall == [fn |-> "none"]

StringInit == mem \in [Addresses -> Bytes] /\ call = NoCall

Signed(b) == IF b >= UCHAR \div 2 THEN b - UCHAR ELSE b

-----------------------------------------------------------------------------
(* Lengths and searches. *)
strlen(m, str) ==
    LET scan[len \in Nat] == IF m[str + len] # 0 THEN scan[len + 1] ELSE len IN scan[0]

(* strnlen: a byte at a time up to an aligned address, then a longword at  *)
(* a time.  A longword whose filter does not answer holds no zero byte.    *)
EndPtr_Wraps(str, maxlen) == (str + maxlen) % ADDRESSES     \* mutation: no check for overflow
EndPtr(str, maxlen) == LET end == (str + maxlen) % ADDRESSES IN
                       IF end < str THEN ADDRESSES - 1 ELSE end
Byte(m, a) == IF a \in DOMAIN m THEN m[a] ELSE 0    \* behind the memory: any value
(* longword - lomagic, byte by byte, the lowest first: a byte borrows when *)
(* a lower one is less than its magic and those between cannot pay either. *)
lomagic == 1
Borrow(m, w, i) == \E j \in 0 .. i - 1 : /\ Byte(m, w + j) < lomagic
                                        /\ \A k \in j + 1 .. i - 1 : Byte(m, w + k) <= lomagic
Difference(m, w, i) == (Byte(m, w + i) - lomagic - (IF Borrow(m, w, i) THEN 1 ELSE 0)) % UCHAR
Filter(m, w) == \E i \in 0 .. WORD - 1 : Difference(m, w, i) >= UCHAR \div 2
FirstZero(m, from, to) == LET zeros == {a \in from .. to : Byte(m, a) = 0} IN
                          IF zeros = {} THEN NULL ELSE Min(zeros)

FirstLongword(str) == str + ((WORD - (str % WORD)) % WORD)

(* The loop over longwords: where it leaves char_ptr, and where it stops   *)
(* reading.                                                                *)
Longwords(m, first, end) ==
    LET ZeroIn(k) == FirstZero(m, first + k * WORD, first + k * WORD + WORD - 1)
        scan[k \in Nat] ==
            IF first + k * WORD >= end THEN [char_ptr |-> IF k = 0 THEN first ELSE end, last |-> first + k * WORD]
            ELSE IF Filter(m, first + k * WORD) /\ ZeroIn(k) # NULL
                 THEN [char_ptr |-> ZeroIn(k), last |-> first + k * WORD + WORD]
                 ELSE scan[k + 1]
    IN scan[0]

(* The answer and the addresses read. *)
strnlen(m, str, maxlen) ==
    LET end   == EndPtr(str, maxlen)
        first == FirstLongword(str)
        head  == FirstZero(m, str, first - 1)
        found == Longwords(m, first, end)
        Answer(char_ptr, reads) == [len |-> (IF char_ptr > end THEN end ELSE char_ptr) - str, reads |-> reads]
    IN IF maxlen = 0 THEN [len |-> 0, reads |-> {}]
       ELSE IF head # NULL THEN Answer(head, str .. head)
       ELSE Answer(found.char_ptr, str .. found.last - 1)

(* The character, signed, against the int as it is passed. *)
strchr(m, s, c) ==
    LET scan[i \in Nat] == IF Signed(m[s + i]) = c THEN s + i ELSE IF m[s + i] = 0 THEN NULL ELSE scan[i + 1]
    IN scan[0]

-----------------------------------------------------------------------------
(* Comparisons.  char is signed on x86. *)
strcmp(m, src, dest) ==
    LET scan[i \in Nat] ==
            IF m[src + i] # 0 /\ m[dest + i] # 0 /\ m[src + i] = m[dest + i] THEN scan[i + 1]
            ELSE Signed(m[src + i]) - Signed(m[dest + i])
    IN scan[0]
strncmp(m, s1, s2, n) ==
    LET scan[i \in Nat] ==
            IF i = n THEN 0
            ELSE IF m[s1 + i] # m[s2 + i] THEN m[s1 + i] - m[s2 + i]
            ELSE IF m[s1 + i] = 0 THEN 0 ELSE scan[i + 1]
    IN scan[0]
memcmp(m, str1, str2, count) ==
    LET scan[i \in Nat] ==
            IF i = count THEN 0
            ELSE IF m[str1 + i] # m[str2 + i] THEN (IF m[str1 + i] < m[str2 + i] THEN -1 ELSE 1)
            ELSE scan[i + 1]
    IN scan[0]

-----------------------------------------------------------------------------
(* Writers, as the memory they leave behind. *)
memset(m, dest, val, len) == [a \in DOMAIN m |-> IF a \in dest .. dest + len - 1 THEN val % UCHAR ELSE m[a]]
bzero(m, dest, len) == memset(m, dest, 0, len)

Upward(len) == [k \in 1 .. len |-> k - 1]
Downward(len) == [k \in 1 .. len |-> len - k]
Copied(m, dest, src, order) ==
    LET after[k \in 0 .. Len(order)] ==
            IF k = 0 THEN m ELSE [after[k - 1] EXCEPT ![dest + order[k]] = after[k - 1][src + order[k]]]
    IN after[Len(order)]
memcpy(m, dest, src, len) == Copied(m, dest, src, Upward(len))
memmove_Forward(m, dest, src, len) == Copied(m, dest, src, Upward(len))     \* mutation
memmove(m, dest, src, len) ==
    Copied(m, dest, src, IF dest < src THEN Upward(len) ELSE Downward(len))

strcpy(m, dest, src) == Copied(m, dest, src, Upward(strlen(m, src) + 1))
strncpy(m, s1, s2, n) ==
    LET size == strnlen(m, s2, n).len IN memcpy(memset(m, s1 + size, 0, n - size), s1, s2, size)
(* strcat copies the characters, and no terminator. *)
strcat(m, dest, src) == Copied(m, dest + strlen(m, dest), src, Upward(strlen(m, src)))
(* On the empty string, backspace writes the byte before it. *)
backspace(m, src) == [m EXCEPT ![src + strlen(m, src) - 1] = 0]
append(m, src, c) ==
    LET len == strlen(m, src) IN [m EXCEPT ![src + len] = c % UCHAR, ![src + len + 1] = 0]
strrev(m, str) ==
    LET len == strlen(m, str)
        after[k \in 0 .. len \div 2] ==
            IF k = 0 THEN m
            ELSE [after[k - 1] EXCEPT ![str + k - 1] = after[k - 1][str + len - k],
                                      ![str + len - k] = after[k - 1][str + k - 1]]
    IN after[len \div 2]

-----------------------------------------------------------------------------
(* The rules callers keep. *)
IsString(p) == \E a \in p .. MemSize - 1 : mem[a] = 0
Fits(p, len) == p + len <= MemSize
Apart(p, q, len) == p + len <= q \/ q + len <= p
Size(p) == strlen(mem, p) + 1

Return(fn, p, q, n, ret) == call' = [fn |-> fn, p |-> p, q |-> q, n |-> n, ret |-> ret]

Lengths(p, n) ==
    /\ UNCHANGED mem
    /\ \/ n = 0 /\ IsString(p) /\ Return("strlen", p, 0, n, strlen(mem, p))
       \/ (IsString(p) \/ Fits(p, n)) /\ Return("strnlen", p, 0, n, strnlen(mem, p, n))

(* A char is passed as a negative int above 127, an unsigned char as it is. *)
Ints == -(UCHAR \div 2) .. UCHAR - 1
Searches(p, c) == UNCHANGED mem /\ IsString(p) /\ Return("strchr", p, 0, c, strchr(mem, p, c))

Compares(p, q, n) ==
    /\ UNCHANGED mem
    /\ \/ n = 0 /\ IsString(p) /\ IsString(q) /\ Return("strcmp", p, q, n, strcmp(mem, p, q))
       \/ /\ (IsString(p) \/ Fits(p, n)) /\ (IsString(q) \/ Fits(q, n))
          /\ Return("strncmp", p, q, n, strncmp(mem, p, q, n))
       \/ Fits(p, n) /\ Fits(q, n) /\ Return("memcmp", p, q, n, memcmp(mem, p, q, n))

Fills(p, n) ==
    /\ Return("memset", p, 0, n, p)
    /\ \E val \in Bytes : Fits(p, n) /\ mem' = IF val = 0 THEN bzero(mem, p, n) ELSE memset(mem, p, val, n)

Copies(p, q, n) ==
    \/ /\ Fits(p, n) /\ Fits(q, n) /\ Apart(p, q, n)
       /\ mem' = memcpy(mem, p, q, n) /\ Return("memcpy", p, q, n, p)
    \/ /\ Fits(p, n) /\ Fits(q, n)
       /\ mem' = memmove(mem, p, q, n) /\ Return("memmove", p, q, n, p)
    \/ /\ n = 0 /\ IsString(q) /\ Fits(p, Size(q)) /\ Apart(p, q, Size(q))
       /\ mem' = strcpy(mem, p, q) /\ Return("strcpy", p, q, n, p)
    \/ /\ (IsString(q) \/ Fits(q, n)) /\ Fits(p, n) /\ Apart(p, q, n)
       /\ mem' = strncpy(mem, p, q, n) /\ Return("strncpy", p, q, n, p)
    \/ /\ n = 0 /\ IsString(p) /\ IsString(q) /\ Fits(p, Size(p) + Size(q) - 1)
       /\ p + Size(p) + Size(q) - 1 <= q \/ q + Size(q) <= p
       /\ mem' = strcat(mem, p, q) /\ Return("strcat", p, q, n, p)

Edits(p) ==
    /\ IsString(p)
    /\ \/ Size(p) > 1 /\ mem' = backspace(mem, p) /\ Return("backspace", p, 0, 0, 0)
       \/ /\ Fits(p, Size(p) + 1)
          /\ \E c \in Bytes \ {0} : mem' = append(mem, p, c) /\ Return("append", p, 0, c, 0)
       \/ mem' = strrev(mem, p) /\ Return("strrev", p, 0, 0, 0)

Sizes == 0 .. MemSize
StringCall ==
    /\ call = NoCall
    /\ \E p \in Addresses :
         \/ \E n \in Sizes \cup {ADDRESSES - 1} : Lengths(p, n)
         \/ \E c \in Ints : Searches(p, c)
         \/ \E n \in Sizes : Fills(p, n)
         \/ \E q \in Addresses, n \in Sizes : Compares(p, q, n) \/ Copies(p, q, n)
         \/ Edits(p)

-----------------------------------------------------------------------------
(* References: the string at p, what it is compared by, what is written. *)
Block(m, p, n) == [i \in 1 .. n |-> m[p + i - 1]]
Chars(m, p) == Block(m, p, FirstZero(m, p, MemSize - 1) - p)
Bounded(m, p, n) ==
    IF \E a \in p .. MemSize - 1 : m[a] = 0
    THEN Block(m, p, Min({n, FirstZero(m, p, MemSize - 1) - p})) ELSE Block(m, p, n)
SignedBytes(s) == [i \in DOMAIN s |-> Signed(s[i])]
Lower(a, b) == \E i \in 1 .. Len(b) : /\ \A j \in 1 .. i - 1 : j <= Len(a) /\ a[j] = b[j]
                                      /\ i > Len(a) \/ a[i] < b[i]
Write(m, p, s) == [a \in DOMAIN m |-> IF a - p + 1 \in DOMAIN s THEN s[a - p + 1] ELSE m[a]]

(* strlen, strnlen and strchr find the first byte they look for, and       *)
(* strnlen stops at its limit: alignment, the limit inside a longword and  *)
(* a limit that overflows the address change nothing (string.c:46).  C's   *)
(* strchr converts its int to a char; string.c:223 compares it with a      *)
(* signed char as it is, so it finds what C finds for the ints of a signed *)
(* char, and nothing for those of an unsigned one above 127.               *)
IsChar(n) == n \in -(UCHAR \div 2) .. UCHAR \div 2 - 1
LengthsRight == LET p == call.p n == call.n IN
    /\ call.fn = "strlen" => call.ret = Len(Chars(mem, p))
    /\ call.fn = "strnlen" => call.ret.len = Len(Bounded(mem, p, n))
    /\ call.fn = "strchr" =>
           LET at == {i \in 0 .. Len(Chars(mem, p)) : mem[p + i] = n % UCHAR} IN
           call.ret = IF at = {} \/ ~IsChar(n) THEN NULL ELSE p + Min(at)

(* strnlen reads longwords, past the end of the string and past its limit, *)
(* but only longwords that hold a byte it may look at: it cannot touch a   *)
(* page the string is not on (string.c:102).                               *)
StrnlenReads ==
    call.fn = "strnlen" =>
        LET n == call.n
            mine == call.p .. call.p + Len(Bounded(mem, call.p, n)) - (IF call.ret.len = n THEN 1 ELSE 0)
        IN \A a \in call.ret.reads : \E b \in mine : a \div WORD = b \div WORD

(* The sign of a comparison is that of the lexicographic order, and zero   *)
(* means equal (string.c:155, string.c:170, string.c:245).  strncmp and    *)
(* memcmp order characters as C does, unsigned.  strcmp orders them as     *)
(* signed: it agrees with C and strncmp up to 127, and puts a character    *)
(* above 127 on the other side of one below.                               *)
Agrees(ret, a, b) == (ret < 0 <=> Lower(a, b)) /\ (ret > 0 <=> Lower(b, a)) /\ (ret = 0 <=> a = b)
OrderRight == LET p == call.p q == call.q n == call.n IN
    /\ call.fn = "strcmp" =>
           Agrees(call.ret, SignedBytes(Append(Chars(mem, p), 0)), SignedBytes(Append(Chars(mem, q), 0)))
    /\ call.fn = "strncmp" => Agrees(call.ret, Bounded(mem, p, n), Bounded(mem, q, n))
    /\ call.fn = "memcmp" => Agrees(call.ret, Block(mem, p, n), Block(mem, q, n))

(* The functions that only read, strlen, strnlen, strchr, strcmp, strncmp  *)
(* and memcmp, answer what the references above say and read no further    *)
(* than they may, for strings and limits at every alignment                *)
(* (string.c:36, string.c:46, string.c:155, string.c:170, string.c:245).   *)
(* The references are C's but for characters above 127: strcmp's order,    *)
(* and the ints strchr does not find.                                      *)
AnswersRight == LengthsRight /\ StrnlenReads /\ OrderRight

Readers == {"strlen", "strnlen", "strchr", "strcmp", "strncmp", "memcmp"}
Leaves ==
    LET p == call'.p q == call'.q n == call'.n
        str == Chars(mem, p)
        src == Chars(mem, q)
        rest == [i \in 1 .. n - Len(Bounded(mem, q, n)) |-> 0]
    IN /\ call'.fn = "memset" => \E val \in Bytes : mem' = Write(mem, p, [i \in 1 .. n |-> val])
       /\ call'.fn \in {"memcpy", "memmove"} => mem' = Write(mem, p, Block(mem, q, n))
       /\ call'.fn = "strcpy"    => mem' = Write(mem, p, Append(src, 0))
       /\ call'.fn = "strncpy"   => mem' = Write(mem, p, Bounded(mem, q, n) \o rest)
       /\ call'.fn = "strcat"    => mem' = Write(mem, p, str \o src)
       /\ call'.fn = "backspace" => mem' = Write(mem, p, Append(Front(str), 0))
       /\ call'.fn = "append"    => mem' = Write(mem, p, str \o <<n, 0>>)
       /\ call'.fn = "strrev"    => mem' = Write(mem, p, Reverse(str))
       /\ call'.fn \in Readers   => mem' = mem

(* Every writer leaves what C says, and no other byte changes: memmove     *)
(* whichever way its ranges overlap, strncpy zeros up to its limit; strcat *)
(* leaves the characters, the byte behind them as it was (string.c:189,    *)
(* string.c:215, string.c:254, string.c:274).                              *)
WritesRight == [][Leaves]_string_vars
=============================================================================
