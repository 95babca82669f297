---------------------------- MODULE MCLineReader ----------------------------
(* Names and passwords over the characters the conversions tell apart, and *)
(* lines of every length around the limit; passwords that end in the       *)
(* ellipsis a label is cut with.                                           *)
EXTENDS LineReader, TLC

MCRedacted == <<"*", "c", "*">>
MCCandidates == <<"#", "~", "^", "%">>
MCControls == ("LF" :> "n" @@ "CR" :> "r")

Alphabet == {Backslash, "n", "s", " ", "LF", "CR", "|", "=", "NBSP", "*", "c"}
Core == {Backslash, "n", "LF", "*", "c"}
MCName == <<"k">>

Named(text) == MCName :> text
MCAnswers ==
  {<<Named(text)>> : text \in BoundedSeq(Alphabet, 2) \cup [1..3 -> Core]} \cup
  {<<Named(<<"c", "n", x, "c", "s">>)>> : x \in Core \cup {Ellipsis}} \cup
  {<<Named(x) @@ <<"l">> :> y, Named(y)>> : x, y \in BoundedSeq({"NBSP", "|", " "}, 1)}

Xs(n) == [i \in 1..n |-> "x"]
MCRawAnswers ==
  {Xs(n) : n \in 0..12} \cup {<<"LF">>, <<"CR", "LF">>} \cup
  {Xs(6) \o LINE_TERMINATOR \o Xs(n) \o LINE_TERMINATOR \o Xs(4) : n \in {0, 5}}

Secret == UNION {[1..n -> Core] : n \in {1, 2}}
MCSecretSets ==
  {{s} : s \in Secret} \cup {{<<>>, <<"*">>, s} : s \in Secret} \cup
  {{<<"n", "n">>, s} : s \in Secret} \cup {{<<"LF", "c">>, s} : s \in Secret} \cup
  {{<<Ellipsis>>}} \cup {{<<"n">>, s \o <<Ellipsis>>} : s \in Secret} \cup
  {{s \o <<Ellipsis>>} : s \in Secret}
MCTemplate == <<"c", "n">>
MCOtherwise == <<"c", "*", "*">>
===============================================================================
