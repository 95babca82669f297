------------------------------- MODULE Texts -------------------------------
(***************************************************************************)
(* A text is a sequence of characters, or of pieces no operation divides.  *)
(***************************************************************************)
EXTENDS Integers, Sequences

\* One pass over a text from left to right, as re.sub or a loop over an index makes
\* it: what is written at each place, and how far it is from there to the next one.
Rewritten(length, written, width) ==
  LET from[i \in 1..(length + 1)] ==
        IF i > length THEN <<>> ELSE written[i] \o from[i + width[i]]
  IN from[1]
===============================================================================
