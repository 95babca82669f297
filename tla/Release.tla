------------------------------- MODULE Release -------------------------------
(***************************************************************************)
(* A release, from the changelog to the registries: the changelog is       *)
(* written and merged, tags are pushed, and every tag gets a run of        *)
(* release.yml, which validates the tag, takes the notes, pushes the image *)
(* under its references to one or two registries, attests it and creates   *)
(* the GitHub release.  Runs of two tags are not serialised.  Any step may *)
(* fail; the maintainers do then what docs/releasing.md tells them.        *)
(***************************************************************************)
EXTENDS Changelog

CONSTANTS
  OddTag,      \* a tag the trigger 'v*.*.*' matches and that is no version
  MaxBlocks,   \* bound on the length of the changelog
  MaxAttempts, \* bound on the runs of one tag
  None

Tags == Versions \cup {OddTag}
Registries == {"ghcr.io", "docker.io"}
\* "latest" stands for every reference that moves: {{major}} and
\* {{major}}.{{minor}} are computed and pushed like it.
Names == Tags \cup {"latest"}

ASSUME BoundsAssumption == MaxBlocks \in Nat /\ MaxAttempts \in Nat \ {0}
ASSUME TagsAssumption ==
  OddTag \notin Versions /\ None \notin Tags /\ "latest" \notin Tags

VARIABLES
  changelog,  \* CHANGELOG.md while it is written
  merged,     \* per tag, what its run will find in it; None before the merge
  code,       \* __version__ at the commit of the tag
  step,       \* where the run of a tag is
  attempt,    \* which run it is
  docker,     \* whether the run has the credentials of docker.io
  images,     \* what every reference in every registry points to
  attested,   \* images with a provenance attestation
  releases    \* GitHub releases: None, "standalone", or "broken"

runVars == <<step, attempt, docker>>
vars == <<changelog, merged, code, runVars, images, attested, releases>>

Image(t) == <<t, attempt[t]>>

Init ==
  /\ changelog = <<>> /\ merged = None
  /\ code = [t \in Tags |-> None]
  /\ step = [t \in Tags |-> "none"] /\ attempt = [t \in Tags |-> 0]
  /\ docker = [t \in Tags |-> FALSE]
  /\ images = [r \in Registries |-> [n \in Names |-> None]]
  /\ attested = {} /\ releases = [t \in Tags |-> None]

-----------------------------------------------------------------------------

\* The section of a version as the changelog shows it.
Section(v) ==
  LET end == Min(Later(changelog, v) \cup {Len(changelog) + 1}) - 1
  IN SubSeq(changelog, Start(changelog, v) + 1, end)

Paragraphs(doc) == Only(doc, DOMAIN doc \ Visible(doc, "definition"))

\* References with a definition in an earlier section too: that one is in effect
\* in the changelog, the section's own one in its notes.
Shadowed(v) ==
  {r \in Defined(Section(v)) : FirstOf(changelog, r) < Start(changelog, v)}

\* Where the notes of a version should link to: where the changelog does, as long
\* as the reference is not shadowed there.
Destination(v, r) ==
  IF r \in Shadowed(v) THEN Section(v)[FirstOf(Section(v), r)].href
  ELSE changelog[FirstOf(changelog, r)].href

\* What a reader of the notes alone sees is what the changelog shows of the
\* version: its paragraphs, no code block that swallows what follows it, and
\* every link a link, to its destination.
Standalone(v, notes) ==
  /\ Paragraphs(notes) = Paragraphs(Section(v))
  /\ Visible(notes, "open item") = {}
  /\ Len(notes) + 1 \in Visible(Append(notes, Fence), "fence")
  /\ links(notes, <<>>) =
       LET used == {Section(v)[i].uses : i \in Visible(Section(v), "text")}
       IN {<<r, Destination(v, r)>> : r \in used \cap Defined(changelog)}

\* A block is added to the changelog.
Write ==
  /\ merged = None /\ Len(changelog) < MaxBlocks
  /\ \E block \in Blocks : changelog' = Append(changelog, block)
  /\ UNCHANGED <<merged, code, runVars, images, attested, releases>>

\* The run of a tag reads two things of the changelog: whether grep finds
\* "## [version]" anywhere, in code too, and what release_notes answers.
Finds(v) ==
  LET taken == release_notes(changelog, v)
  IN [listed |-> \E i \in DOMAIN changelog : changelog[i] = Heading(v),
      notes |-> IF taken.status = "refused" THEN "refused"
                ELSE IF Standalone(v, taken.notes) THEN "standalone" ELSE "broken"]

\* The changelog is merged to main, where tags are made.
Merge ==
  /\ merged = None /\ changelog # <<>>
  /\ merged' = [t \in Tags |-> Finds(t)] /\ changelog' = <<>>
  /\ UNCHANGED <<code, runVars, images, attested, releases>>

Begin(t) ==
  /\ step' = [step EXCEPT ![t] = "validate"]
  /\ attempt' = [attempt EXCEPT ![t] = @ + 1]
  /\ \E enabled \in BOOLEAN : docker' = [docker EXCEPT ![t] = enabled]

\* git push origin vX.Y.Z, of a commit with any __version__.
PushTag(t) ==
  /\ merged # None /\ step[t] = "none"
  /\ \E v \in Versions : code' = [code EXCEPT ![t] = v]
  /\ Begin(t)
  /\ UNCHANGED <<changelog, merged, images, attested, releases>>

Goto(t, next) ==
  step' = [step EXCEPT ![t] = next] /\ UNCHANGED <<changelog, merged, code, attempt, docker>>

\* validate-release-tag.sh
Mutant_Valid(t) == t \in Versions /\ merged[t].listed
Valid(t) == t \in Versions /\ code[t] = t /\ merged[t].listed

Validate(t) ==
  /\ step[t] = "validate"
  /\ Goto(t, IF Valid(t) THEN "notes" ELSE "failed")
  /\ UNCHANGED <<images, attested, releases>>

TakeNotes(t) ==
  /\ step[t] = "notes"
  /\ Goto(t, IF merged[t].notes = "refused" THEN "failed" ELSE "push")
  /\ UNCHANGED <<images, attested, releases>>

\* The images: and tags: of metadata-action.
Pushes(t) ==
  {r \in Registries : r = "docker.io" => docker[t]} \X {t, "latest"}

Unpushed(t) == {p \in Pushes(t) : images[p[1]][p[2]] # Image(t)}

\* build-push-action: reference by reference, in any order.
Push(t) ==
  /\ step[t] = "push"
  /\ \E p \in Unpushed(t) :
       /\ images' = [images EXCEPT ![p[1]][p[2]] = Image(t)]
       /\ Goto(t, IF Unpushed(t) = {p} THEN "attest" ELSE "push")
  /\ UNCHANGED <<attested, releases>>

Attest(t) ==
  /\ step[t] = "attest" /\ Goto(t, "release")
  /\ attested' = attested \cup {Image(t)}
  /\ UNCHANGED <<images, releases>>

CreateRelease(t) ==
  /\ step[t] = "release" /\ Goto(t, "done")
  /\ releases' = [releases EXCEPT ![t] = merged[t].notes]
  /\ UNCHANGED <<images, attested>>

\* A step fails for a reason of its own.
Breaks(t) ==
  /\ step[t] \in {"validate", "notes", "push", "attest", "release"}
  /\ Goto(t, "failed")
  /\ UNCHANGED <<images, attested, releases>>

\* Some reference points to an image of this tag.
Published(t) == \E r \in Registries, n \in Names :
                  images[r][n] # None /\ images[r][n][1] = t

\* "Once the images are pushed, do not re-run."
Mutant_MayRerun(t) == step[t] = "failed" /\ releases[t] = None
MayRerun(t) == step[t] = "failed" /\ ~Published(t)

Rerun(t) ==
  /\ MayRerun(t) /\ attempt[t] < MaxAttempts
  /\ Begin(t)
  /\ UNCHANGED <<changelog, merged, code, images, attested, releases>>

\* "Finish the missing steps by hand instead", with the notes of the workflow.
FinishByHand(t) ==
  /\ step[t] = "failed" /\ images["ghcr.io"][t] # None
  /\ Goto(t, "done")
  /\ attested' = attested \cup {Image(t)}
  /\ images' = [r \in Registries |-> [images[r] EXCEPT ![t] =
                  IF <<r, t>> \in Pushes(t) THEN Image(t) ELSE @]]
  /\ releases' = [releases EXCEPT ![t] = merged[t].notes]

Next ==
  \/ Write \/ Merge
  \/ \E t \in Tags :
       \/ PushTag(t) \/ Validate(t) \/ TakeNotes(t) \/ Push(t) \/ Attest(t)
       \/ CreateRelease(t) \/ Breaks(t) \/ Rerun(t) \/ FinishByHand(t)

Spec == Init /\ [][Next]_vars

-----------------------------------------------------------------------------
(* Properties.                                                             *)

\* Notes that are accepted are a document of their own: they show the paragraphs
\* of the section and, as links, exactly what is a link in the changelog, to the
\* target it has there.  Only a reference that an earlier section defines too
\* keeps the target its own section gives it (tests/test_release_notes.py:153).
NotesStandalone ==
  \A v \in Versions :
    LET taken == release_notes(changelog, v)
    IN taken.status = "taken" => Standalone(v, taken.notes)

\* Of the definitions behind the last section, which are those of the whole
\* changelog, its notes have only such that taking one out of them changes a link.
LinkBlockDropped ==
  \A v \in Versions :
    LET taken == release_notes(changelog, v)
        own == Visible(taken.notes, "definition")
    IN taken.status = "taken" /\ Later(changelog, v) = {} =>
         \A i \in own : i..Len(taken.notes) \subseteq own =>
           links(RemoveAt(taken.notes, i), <<>>) # links(taken.notes, <<>>)

\* A section is refused for its links only if it needs a definition from
\* elsewhere -- or defines a reference twice: the trailing definitions are tried
\* one by one, each of the two is found superfluous, and both are dropped.
RefusedForCause ==
  \A v \in Versions : release_notes(changelog, v) = Refused("broken links") =>
    LET body == Section(v) IN
    \/ \E i \in Visible(body, "text") : body[i].uses \in Defined(changelog) \ Defined(body)
    \/ \E i \in Visible(body, "definition") : i # FirstOf(body, body[i].defines)

\* Nothing is published that was not validated: whatever points to an image is a
\* reference of its tag, the tag is the version the code reports, and the notes
\* were good.  A release has its image in the registry, attested, and the same
\* image in both registries it was made for.
PublishedHonest ==
  /\ \A r \in Registries, n \in Names : images[r][n] # None =>
       LET t == images[r][n][1] IN
       /\ n \in {t, "latest"}
       /\ t \in Versions /\ code[t] = t /\ merged[t].notes = "standalone"
  /\ \A t \in Tags : releases[t] # None =>
       /\ releases[t] = "standalone" /\ images["ghcr.io"][t] \in attested
       /\ docker[t] => images["docker.io"][t] = images["ghcr.io"][t]

\* A version's reference, once pulled by someone, never points elsewhere.
VersionsImmutable ==
  [][\A r \in Registries, v \in Versions :
       images[r][v] # None => images'[r][v] = images[r][v]]_vars
===============================================================================
