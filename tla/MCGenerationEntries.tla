------------------------ MODULE MCGenerationEntries ------------------------
EXTENDS GenerationEntries, TLC

CONSTANTS a, b, lamp, moon

\* Two submits with different words, and the same words submitted twice.
TwoWords == (a :> lamp) @@ (b :> moon)
SameWords == (a :> lamp) @@ (b :> lamp)
=============================================================================
