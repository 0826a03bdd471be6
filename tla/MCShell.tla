-------------------------------- MODULE MCShell --------------------------------
(* A buffer of eight characters and three tokens; every line of up to five *)
(* characters made of six words, with or without a blank in front, and one *)
(* with a word more than there are tokens.                                 *)
EXTENDS ShellHistory

Vocabulary == {<<"c">>, <<"e">>, <<"r">>, <<">">>, <<"f">>, <<"f", "g">>}
Blank == <<SP>>
OneWord   == Vocabulary
TwoWords  == {v \o Blank \o w : v, w \in Vocabulary}
ThreeWords == {v \o Blank \o w : v \in TwoWords, w \in Vocabulary}
Short == {l \in OneWord \cup TwoWords \cup ThreeWords : Len(l) < 6}
MCLines == {<<>>, Blank} \cup Short \cup {Blank \o l : l \in Short}
           \cup {<<"e", SP, "f", SP, ">", SP, "r">>}

MCclear    == <<"c">>
MCWriters  == {<<"e">>}
MCRedirect == <<">">>
MCCommands == {<<"r">>}
=============================================================================
