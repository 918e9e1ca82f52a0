------------------------------- MODULE Strings -------------------------------
(***************************************************************************)
(* The functions of the C library the program takes strings apart with.    *)
(* A string is a sequence of characters, or of words where the characters  *)
(* of a word do not matter.                                                *)
(***************************************************************************)
EXTENDS Integers, SequencesExt

(* strspn: the length of the longest prefix of s with elements of S.       *)
Span(s, S) == Min({k \in 0..Len(s) : k = Len(s) \/ s[k + 1] \notin S})

(* What is left of s without its first n elements.                         *)
From(s, n) == SubSeq(s, n + 1, Len(s))

(* strchr: s up to the first c and what is behind it.                      *)
Before(s, c) == SubSeq(s, 1, Span(s, ToSet(s) \ {c}))
After(s, c) == From(s, Span(s, ToSet(s) \ {c}) + 1)

(* strtok( s, c ) and the strtok( 0, "" ) after it: <<>> is a null pointer.*)
Token(s, c) == Before(From(s, Span(s, {c})), c)
RestOf(s, c) == After(From(s, Span(s, {c})), c)

=============================================================================
