------------------------------ MODULE Changelog ------------------------------
(***************************************************************************)
(* changelog_section.py: the section of one version cut out of             *)
(* CHANGELOG.md, to stand alone as the notes of its GitHub release.        *)
(*                                                                         *)
(* A document is a sequence of blocks with blank lines between them: a     *)
(* version heading, a paragraph with a link reference (text, while nothing *)
(* defines it), a definition, a code fence (which opens a code block or    *)
(* closes the open one), and a list item whose code block is still open    *)
(* when the item ends.  markdown-it-py decides what a block means; its     *)
(* rules that matter here are Visible, FirstOf and what links counts.      *)
(***************************************************************************)
EXTENDS Integers, Sequences, FiniteSets, SequencesExt, FiniteSetsExt

CONSTANTS Versions, References, Targets

Heading(v) == [kind |-> "heading", version |-> v]
Text(r) == [kind |-> "text", uses |-> r]
Definition(r, target) == [kind |-> "definition", defines |-> r, href |-> target]
Fence == [kind |-> "fence"]
OpenItem == [kind |-> "open item"]

Blocks ==
  {Heading(v) : v \in Versions} \cup {Text(r) : r \in References}
    \cup {Definition(r, target) : r \in References, target \in Targets}
    \cup {Fence, OpenItem}

-----------------------------------------------------------------------------

\* What an open code block does not swallow, of one kind.
Visible(doc, kind) ==
  {i \in DOMAIN doc : doc[i].kind = kind /\
     Cardinality({j \in 1..(i - 1) : doc[j].kind = "fence"}) % 2 = 0}

Defined(doc) == {doc[i].defines : i \in Visible(doc, "definition")}

\* The first definition of a reference is the one in effect.
FirstOf(doc, r) == Min({i \in Visible(doc, "definition") : doc[i].defines = r})

\* unclosed_fences: of the document, or of an item.
unclosed_fences(doc) ==
  \/ Cardinality({i \in DOMAIN doc : doc[i].kind = "fence"}) % 2 = 1
  \/ Visible(doc, "open item") # {}

\* links: what a document links to, with the definitions of `outside` for those
\* it has not itself.
links(doc, outside) ==
  LET used == {doc[i].uses : i \in Visible(doc, "text")}
  IN {<<r, doc[FirstOf(doc, r)].href>> : r \in used \cap Defined(doc)}
       \cup {<<r, outside[FirstOf(outside, r)].href>> :
               r \in (used \cap Defined(outside)) \ Defined(doc)}

-----------------------------------------------------------------------------

\* The blocks of a document at these positions, in their order: the k-th is the
\* one at the position with k of them up to it.
At(positions, k) ==
  CHOOSE i \in positions : Cardinality({j \in positions : j <= i}) = k
Only(doc, positions) == [k \in 1..Cardinality(positions) |-> doc[At(positions, k)]]

\* without_the_link_block: of the definitions at the end, those stay whose
\* absence changes a link.
Mutant_without_the_link_block(body) ==
  SubSeq(body, 1, Max({0} \cup {i \in DOMAIN body : i \notin Visible(body, "definition")}))
Mutant_keeping_all(body) ==
  LET cut == Max({0} \cup {i \in DOMAIN body : i \notin Visible(body, "definition")})
      block == SubSeq(body, cut + 1, Len(body))
  IN SubSeq(body, 1, cut) \o Only(block, {FirstOf(block, r) : r \in Defined(block)})
without_the_link_block(body) ==
  LET cut == Max({0} \cup {i \in DOMAIN body : i \notin Visible(body, "definition")})
      block == SubSeq(body, cut + 1, Len(body))
      first == {FirstOf(block, r) : r \in Defined(block)}
      used == {i \in first : links(RemoveAt(body, cut + i), <<>>) # links(body, <<>>)}
  IN SubSeq(body, 1, cut) \o Only(block, used)

Refused(reason) == [status |-> "refused", reason |-> reason]
Taken(notes) == [status |-> "taken", notes |-> notes]

\* Where the section of a version begins and ends: the first heading of that
\* name, up to the next heading of any.
Start(changelog, v) ==
  Min({i \in Visible(changelog, "heading") : changelog[i].version = v})
Later(changelog, v) == {i \in Visible(changelog, "heading") : i > Start(changelog, v)}

\* section
section(changelog, v) ==
  IF \A i \in Visible(changelog, "heading") : changelog[i].version # v
  THEN Refused("no section")
  ELSE LET isLast == Later(changelog, v) = {}
           end == IF isLast THEN Len(changelog) ELSE Min(Later(changelog, v)) - 1
           body == SubSeq(changelog, Start(changelog, v) + 1, end)
       IN IF unclosed_fences(body) THEN Refused("never closed")
          ELSE Taken(IF isLast THEN without_the_link_block(body) ELSE body)

\* broken_links: the links that need a definition from outside the notes.
Mutant_broken_links(notes, changelog) ==
  {l \in links(notes, changelog) : \A i \in DOMAIN notes :
     notes[i].kind = "definition" => notes[i].defines # l[1]}
broken_links(notes, changelog) == links(notes, changelog) \ links(notes, <<>>)

release_notes(changelog, v) ==
  LET taken == section(changelog, v)
  IN CASE taken.status = "refused" -> taken
       [] taken.status = "taken" /\ taken.notes = <<>> -> Refused("empty")
       [] OTHER -> IF broken_links(taken.notes, changelog) # {}
                   THEN Refused("broken links") ELSE taken
===============================================================================
