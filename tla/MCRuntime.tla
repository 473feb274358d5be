----------------------------- MODULE MCRuntime ------------------------------
(* Types of 2, 3, 4 and 8 bits for char, short, int and long; as in the    *)
(* kernel, the conversion buffer holds as many digits as an int has bits.  *)
EXTENDS Runtime

Words == {0, 5, 8, 15, 128, 200}
WithArgs(format, va) == [format |-> format, va |-> va]
W(word) == [word |-> word, char |-> "?", str |-> <<>>]
C(char) == [word |-> 7, char |-> char, str |-> <<>>]
S(str)  == [word |-> 9, char |-> "?", str |-> str]
(* Behind the arguments of the caller is other memory. *)
Padded(fn, form) == form.va \o Repeat(W(3), IF fn = "sprintf_" THEN Len(TestFormat) ELSE Len(form.format))
Written(fn, null, count, form) ==
    [fn |-> fn, null |-> null, count |-> count, format |-> form.format, va |-> Padded(fn, form)]

FlagChars == {<<>>, <<"0">>, <<"-">>, <<"+">>, <<" ">>, <<"#">>, <<"0", "#">>, <<"0", "+">>, <<"-", "#">>}
Widths == {WithArgs(<<>>, <<>>), WithArgs(<<"3">>, <<>>), WithArgs(<<"6">>, <<>>),
           WithArgs(<<"*">>, <<W(4)>>), WithArgs(<<"*">>, <<W(8)>>)}
Precisions == {WithArgs(<<>>, <<>>), WithArgs(<<".">>, <<>>), WithArgs(<<".", "2">>, <<>>),
               WithArgs(<<".", "*">>, <<W(5)>>), WithArgs(<<".", "*">>, <<W(15)>>)}
LengthChars == {<<>>, <<"l">>, <<"l", "l">>, <<"h">>, <<"h", "h">>, <<"t">>, <<"j">>, <<"z">>}
Conversions == UNION {{WithArgs(<<c>>, <<W(v)>>) : v \in Words} : c \in Specifiers \ {"c", "s"}}
               \cup {WithArgs(<<"s">>, <<S(s)>>) : s \in {<<>>, <<"a">>, <<"a", "b", "c", "d">>}}
               \cup {WithArgs(<<"c">>, <<C("k")>>), WithArgs(<<"%">>, <<>>), WithArgs(<<"q">>, <<>>), WithArgs(<<>>, <<>>)}

Joined(flags, w, p, l, c) ==
    WithArgs(<<"%">> \o flags \o w.format \o p.format \o l \o c.format, w.va \o p.va \o c.va)

(* Every combination of flags, width, precision, int or long, conversion   *)
(* and argument; every length; and messages as the kernel prints them in   *)
(* buffers of every size.                                                  *)
OneDirective ==
    {Joined(flags, w, p, l, c) : flags \in FlagChars, w \in Widths, p \in Precisions,
                                 l \in {<<>>, <<"l">>}, c \in Conversions}
    \cup {Joined(<<>>, w, WithArgs(<<>>, <<>>), l, c) : w \in Widths, l \in LengthChars, c \in Conversions}
Messages ==
    {WithArgs(<<"a", ":">>, <<>>), WithArgs(<<>>, <<>>), WithArgs(<<"%", "d", "%", "l", "x">>, <<W(15), W(200)>>),
     WithArgs(<<"%", "c", "=", "%", "s">>, <<C("k"), S(<<"a", "b">>)>>), WithArgs(<<"5", "%", "%">>, <<>>),
     WithArgs(<<"%", "%", "%">>, <<>>), WithArgs(<<"%", "-", "%", "%">>, <<>>),
     WithArgs(<<"%", "u", "NL", "%", "l", "d">>, <<W(15), W(129)>>), WithArgs(<<"%", "3", "d", "%", "l", "u">>, <<W(7), W(255)>>)}

MCFormatCalls ==
    {Written("vsnprintf_", FALSE, 8, form) : form \in OneDirective}
    \cup {Written("snprintf_", null, count, form) : null \in BOOLEAN, count \in 0 .. 8, form \in Messages}
    \cup {Written("sprintf_", FALSE, 0, WithArgs(<<"a", ":">>, <<W(w)>>)) : w \in Words}
=============================================================================
