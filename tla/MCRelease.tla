------------------------------ MODULE MCRelease ------------------------------
(* Two versions, two references with two targets, changelogs of up to six  *)
(* blocks, two runs of every tag.                                          *)
EXTENDS Release, TLC

CONSTANTS v10, v11, docs, guide, x, y

MCVersions == {v10, v11}
MCReferences == {docs, guide}
MCTargets == {x, y}
Symmetric == Permutations(MCReferences) \cup Permutations(MCTargets)
===============================================================================
