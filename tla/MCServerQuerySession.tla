----------------------- MODULE MCServerQuerySession -----------------------
(* Scaled-down times: a socket timeout of 3, a budget of 6 that grows by 2 *)
(* per virtualserver up to 9.                                              *)
EXTENDS ServerQuerySession

MCWaits == {0, 2, 5}
MCOnline == {0, 1, 2}
MCChunks ==
  {<<>>} \cup {<<line>> : line \in Lines} \cup
  {<<"text", "ok">>, <<"ok", "ok">>, <<"TS3", "text">>, <<"text", "flood">>}
Blocking == {0, 1, 3}
===============================================================================
