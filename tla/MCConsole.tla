----------------------------- MODULE MCConsole ------------------------------
(* A screen of 2 rows of 5 cells and a buffer of 5 bytes. *)
EXTENDS Console

Say(fn, text) == [fn |-> fn, text |-> text]
MCChars == {"a", "b", "c", "d", "e", "f", "g", "h", "i", "p", "q", "r", "t", "u", "x", "y", "z",
            "1", "2", "3", "4", "5", "6", "NL", "TAB", "BS"}
MCHello == <<"h", "i", "NL", "a", "b", "c", "d", "e", "f", "NL", "g">>
MCTickText == <<"t", "NL">>
MCUnhandledText == <<"u">>

(* A message before sti and one after it, as TIMER::init has them; one     *)
(* that fills the buffer and the line; tabs past the edge; the other       *)
(* functions.                                                              *)
MCPrograms == {
    <<Say("info", <<"p", "NL">>), Say("sti", <<>>), Say("info", <<"x", "y", "NL">>)>>,
    <<Say("sti", <<>>), Say("err", <<"1", "2", "3", "4", "5", "6">>), Say("printf", <<"q", "NL", "r">>)>>,
    <<Say("printf", <<"a", "BS", "BS", "TAB">>), Say("sti", <<>>), Say("warn", <<"TAB", "TAB", "z", "NL">>),
      Say("clear", <<>>), Say("printf", <<"c">>)>>}
=============================================================================
