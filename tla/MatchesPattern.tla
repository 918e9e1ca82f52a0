---------------------------- MODULE MatchesPattern ----------------------------
(***************************************************************************)
(* WindowManager::matchesPattern, a step for each turn of its loop.        *)
(* pattern and literal are what is left behind its two pointers.           *)
(***************************************************************************)
EXTENDS Strings

CONSTANTS
  Chars,     \* the characters of titles
  Lower(_)   \* the lower-case form of a character

Wildcards == {"*", "?"}

CharsAssumption == Chars \cap Wildcards = {}

VARIABLES
  call,     \* the arguments: [pattern, title, casesensitive]
  pattern,
  literal,
  result    \* "none" before a call, "open" in the loop, "true" or "false"

matchVars == <<call, pattern, literal, result>>

Init ==
  /\ call = [pattern |-> <<>>, title |-> <<>>, casesensitive |-> FALSE]
  /\ pattern = <<>> /\ literal = <<>>
  /\ result = "none"

Call(p, t, casesensitive) ==
  /\ call' = [pattern |-> p, title |-> t, casesensitive |-> casesensitive]
  /\ pattern' = p /\ literal' = t
  /\ result' = "open"

Return(b) ==
  /\ result' = IF b THEN "true" ELSE "false"
  /\ UNCHANGED <<call, pattern, literal>>

(* The loop goes on behind p characters of the pattern, l of the title.    *)
GoOn(p, l) ==
  /\ pattern' = From(pattern, p)
  /\ literal' = From(literal, l)
  /\ UNCHANGED <<call, result>>

Same(c, d) == c = d \/ (~call.casesensitive /\ Lower(c) = Lower(d))

(* strstr and strcasestr: how many characters of the title lie before an   *)
(* occurrence of s.                                                        *)
Occurrences(s) ==
  {k \in 0..(Len(literal) - Len(s)) :
     \A i \in DOMAIN s : Same(s[i], literal[k + i])}

(* FAULT: the first occurrence is taken.                                   *)
StarFirst ==
  LET m == Span(pattern, Wildcards)
      match == From(pattern, m)
      length == Span(match, Chars)
      found == Occurrences(SubSeq(match, 1, length))
  IN  /\ pattern # <<>> /\ Head(pattern) = "*"
      /\ IF match = <<>> THEN Return(TRUE)
         ELSE IF found = {} THEN Return(FALSE)
         ELSE GoOn(m + length, Min(found) + length)

(* All wildcards that follow are skipped, and then the title up to the last*)
(* occurrence of what stands between them and the next wildcard.           *)
Star ==
  LET m == Span(pattern, Wildcards)
      match == From(pattern, m)
      length == Span(match, Chars)
      found == Occurrences(SubSeq(match, 1, length))
  IN  /\ pattern # <<>> /\ Head(pattern) = "*"
      /\ IF match = <<>> THEN Return(TRUE)
         ELSE IF found = {} THEN Return(FALSE)
         ELSE GoOn(m + length, Max(found) + length)

One ==
  /\ pattern # <<>> /\ Head(pattern) = "?"
  /\ IF literal = <<>> THEN Return(FALSE) ELSE GoOn(1, 1)

Literal ==
  /\ pattern # <<>> /\ Head(pattern) \in Chars
  /\ IF literal = <<>> \/ ~Same(Head(pattern), Head(literal))
     THEN Return(FALSE)
     ELSE GoOn(1, 1)

EndOfPattern == pattern = <<>> /\ Return(literal = <<>>)

Next == result = "open" /\ (Star \/ One \/ Literal \/ EndOfPattern)

-----------------------------------------------------------------------------
(* A ? directly behind a * counts for nothing: Star skips it.              *)
Void(i) ==
  /\ call.pattern[i] = "?"
  /\ \E j \in 1..(i - 1) : /\ call.pattern[j] = "*"
                          /\ \A k \in (j + 1)..(i - 1) : call.pattern[k] = "?"

(* What the wildcards mean: how much of the title the first i characters of*)
(* the pattern can stand for.                                              *)
Reach[i \in 0..Len(call.pattern)] ==
  IF i = 0 THEN {0}
  ELSE IF Void(i) THEN Reach[i - 1]
  ELSE IF call.pattern[i] = "*"
  THEN {k \in 0..Len(call.title) : \E h \in Reach[i - 1] : h <= k}
  ELSE {k \in 1..Len(call.title) :
          /\ k - 1 \in Reach[i - 1]
          /\ call.pattern[i] = "?" \/ Same(call.pattern[i], call.title[k])}

Matches == Len(call.title) \in Reach[Len(call.pattern)]

(* One stretch of literal characters follows the first *, and after it     *)
(* there are at most other *.                                              *)
Simple(p) ==
  \A i, j \in DOMAIN p :
    i < j /\ p[i] = "*" /\ p[j] \in Chars /\ j < Len(p) /\ p[j + 1] \in Wildcards =>
      p[j + 1] = "*" /\ \A k \in (j + 1)..Len(p) : p[k] \in Wildcards

(* What is decided about a title is what the wildcards mean, if a ?        *)
(* directly behind a * is read as nothing (Star skips it).  Only of        *)
(* patterns that are not simple, some titles that match are rejected, as   *)
(* only the last occurrence behind a * is tried: *a? rejects the title aa. *)
DecidesRight ==
  /\ result = "true" => Matches
  /\ result = "false" /\ Simple(call.pattern) => ~Matches

=============================================================================
