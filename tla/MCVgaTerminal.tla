---------------------------- MODULE MCVgaTerminal ----------------------------
(* Values for the constants of VgaTerminal that a .cfg cannot write.       *)
EXTENDS VgaTerminal

Plain(text)  == [conv |-> "plain", text |-> text]
String(text) == [conv |-> "string", text |-> text]
Char(c)      == [conv |-> "char", text |-> <<c>>]
End          == [conv |-> "end", text |-> <<>>]

(* Plain text; a number between texts, with a newline, as most of the      *)
(* kernel's messages; a character, and a stray % at the end.               *)
MCFormats ==
  { <<Plain(<<"a", "b">>)>>,
    <<Plain(<<"c">>), String(<<"1">>), Plain(<<"LF">>)>>,
    <<Char("high"), End>> }

MCTexts == { <<"a", "b">>, <<"c", "1", "LF">>, <<"high">> }
=============================================================================
