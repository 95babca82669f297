-------------------------------- MODULE Wire --------------------------------
(***************************************************************************)
(* The ServerQuery wire format (wire.py) as pure operators.  A text is a   *)
(* sequence of characters; control characters are written by their names.  *)
(***************************************************************************)
EXTENDS Texts, SequencesExt

LINE_TERMINATOR == <<"LF", "CR">>
Backslash == "\\"

\* _ESCAPES: <<raw, letter>>, in the order the code replaces them.
Escapes == <<
  <<Backslash, Backslash>>, <<"/", "/">>, <<" ", "s">>, <<"|", "p">>,
  <<"BEL", "a">>, <<"BS", "b">>, <<"FF", "f">>, <<"LF", "n">>, <<"CR", "r">>,
  <<"TAB", "t">>, <<"VT", "v">> >>

\* text.replace(raw, escaped)
Replaced(text, pair) ==
  Rewritten(Len(text),
    [i \in DOMAIN text |-> IF text[i] = pair[1] THEN <<Backslash, pair[2]>> ELSE <<text[i]>>],
    [i \in DOMAIN text |-> 1])

AllReplaced(text, pairs) ==
  LET after[k \in 0..Len(pairs)] ==
        IF k = 0 THEN text ELSE Replaced(after[k - 1], pairs[k])
  IN after[Len(pairs)]

\* The backslash goes first: the ones the other replacements add stay single.
Mutant_escape(text) == AllReplaced(text, Reverse(Escapes))
escape(text) == AllReplaced(text, Escapes)

Letters == {Escapes[k][2] : k \in DOMAIN Escapes}
RawOf(letter) ==
  Escapes[CHOOSE k \in DOMAIN Escapes : Escapes[k][2] = letter][1]

\* One pass from left to right; an unknown escape and a last backslash stay.
unescape(text) ==
  LET Escaped(i) == text[i] = Backslash /\ i < Len(text) /\ text[i + 1] \in Letters
  IN Rewritten(Len(text),
       [i \in DOMAIN text |-> IF Escaped(i) THEN <<RawOf(text[i + 1])>> ELSE <<text[i]>>],
       [i \in DOMAIN text |-> IF Escaped(i) THEN 2 ELSE 1])

-----------------------------------------------------------------------------

Positions(text, c) == {i \in DOMAIN text : text[i] = c}

\* text.split(c): from each place on, the piece up to the next separator.
Split(text, c) ==
  LET length == Len(text) + 1
      End(i) == Min({j \in Positions(text, c) \cup {length} : j >= i})
  IN Rewritten(length,
       [i \in 1..length |-> <<SubSeq(text, i, End(i) - 1)>>],
       [i \in 1..length |-> End(i) + 1 - i])

\* str.strip: white space in Python's sense, at both ends.
Whitespace == {" ", "LF", "CR", "TAB", "VT", "FF", "NBSP"}

Strip(text) ==
  LET solid == {i \in DOMAIN text : text[i] \notin Whitespace}
  IN IF solid = {} THEN <<>> ELSE SubSeq(text, Min(solid), Max(solid))

\* chunk.partition('='): the key, and the value if there is a separator.
Key(chunk) ==
  IF Positions(chunk, "=") = {} THEN chunk
  ELSE SubSeq(chunk, 1, Min(Positions(chunk, "=")) - 1)

Value(chunk) ==
  unescape(SubSeq(chunk, Min(Positions(chunk, "=")) + 1, Len(chunk)))

\* A record: a function from keys to values; of a repeated key the last counts.
decode_record(payload, none) ==
  LET chunks == Split(Strip(payload), " ")
      filled == {k \in DOMAIN chunks : chunks[k] # <<>>}
      LastOf(key) == Max({k \in filled : Key(chunks[k]) = key})
  IN [key \in {Key(chunks[k]) : k \in filled} |->
        IF Positions(chunks[LastOf(key)], "=") = {} THEN none
        ELSE Value(chunks[LastOf(key)])]
===============================================================================
