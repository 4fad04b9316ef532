----------------------------- MODULE MCGlobMatch -----------------------------
(***************************************************************************)
(* Instances of GlobMatch for TLC: patterns of many segments over simple   *)
(* segments, and patterns of one segment over many characters.             *)
(***************************************************************************)
EXTENDS GlobLanguage

\* Sequences of at least lo and at most hi elements of S.
Between(S, lo, hi) == UNION {[1..n -> S] : n \in lo..hi}

MCChars == {"*", "a", "b"}

\* The pattern "**" and four more; the path of the workspace itself is one empty
\* segment.
MCPatterns == Between({DoubleStar, <<"a">>, <<"b">>}, 1, 5)
MCPaths == Between({<<"a">>, <<"b">>}, 1, 5) \cup {<<<<>>>>}

MixedPatterns == Between({DoubleStar, <<"*">>, <<"a", "*">>, <<"b">>}, 1, 3)
MixedPaths == Between({<<"a">>, <<"b">>, <<"*", "b">>}, 1, 3)

MCGlobs == {<<g>> : g \in Between(MCChars, 1, 5)}
MCSegments == {<<g>> : g \in Between(MCChars, 1, 4)}

MCInputs ==
  [pattern : MCPatterns, path : MCPaths]
    \cup [pattern : MixedPatterns, path : MixedPaths]
    \cup [pattern : MCGlobs, path : MCSegments]
===============================================================================
