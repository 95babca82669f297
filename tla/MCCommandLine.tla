---------------------------- MODULE MCCommandLine ----------------------------
(* Two options that share a beginning, passwords that are a part of them or *)
(* a whole one, abbreviations, typos and stray values.                      *)
EXTENDS CommandLine

MCPort == <<"-", "-", "ts", "3", "port">>
MCPassword == <<"-", "-", "ts", "3", "pass", "word">>
MCHelp == <<"-", "-", "help">>
MCOptions == <<MCHelp, MCPort, MCPassword>>
MCHelpText == <<" ", "(default:", " ", "8000", ")">>

Pass == <<"-", "-", "ts", "3", "pass">>
Ts3 == <<"-", "-", "ts", "3">>
Typo == <<"-", "-", "ts", "3", "pasword">>
With(name, value) == name \o <<"=">> \o value

MCTokens == {
  MCPort, MCPassword, MCHelp, Pass, Ts3, Typo,
  <<"secret">>, <<"3">>, <<"8000">>, <<"-", "secret">>,
  With(MCPassword, <<"secret">>), With(MCPassword, <<>>), With(Pass, MCPort),
  With(Ts3, <<"secret">>), With(MCHelp, <<"secret">>), With(Typo, <<"3">>) }
MCSecretSets == {{}, {<<"8000">>}, {MCPort, <<>>}}

MCRedacted == <<"*censored*">>
MCCandidates == <<"#", "~">>
MCControls == [c \in {} |-> ""]
===============================================================================
