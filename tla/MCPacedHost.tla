----------------------------- MODULE MCPacedHost -----------------------------
(* The times of the code, a fifth of a second to the tick, and TeamSpeak's *)
(* default of 10 commands per 3 seconds.  170 virtualservers reach the     *)
(* longest budget there is, 900 seconds.                                   *)
EXTENDS PacedHost

MCOnline == {0, 3, 150, 170}
MCChunks == {<<"TS3", "text">>, <<"text", "ok">>, <<"ok">>, <<"flood">>, <<"other">>}
MCLatencies == {0, 1, 3}
MCEarlier == {0, 4, 10}
AtOnce == {0}
===============================================================================
