----------------------------- MODULE MCDocuments -----------------------------
(***************************************************************************)
(* What is asked of documents besides their revisions (MCEvolution): of    *)
(* chains with traits (MCTraits), of the places of a schema and its        *)
(* reference keywords (MCKeywords), of patterns and their spelling         *)
(* (MCPatterns) and of structs that generate schemas (MCMacros).           *)
(***************************************************************************)
EXTENDS MCTraits, MCKeywords, MCPatterns, MCMacros

DocumentFamilyOf(k) ==
    CASE k = 1 -> Patches         [] k = 2 -> Traited       [] k = 3 -> Keyworded
      [] k = 4 -> ShortPatterns   [] k = 5 -> WidePatterns  [] k = 6 -> Spelling
      [] k = 7 -> Spelled         [] k = 8 -> Diagnosed     [] k = 9 -> Operands
      [] k = 10 -> Reentering     [] k = 11 -> Structs
=============================================================================
