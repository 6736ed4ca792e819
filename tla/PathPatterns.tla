----------------------------- MODULE PathPatterns -----------------------------
(***************************************************************************)
(* The glob matcher of allow_paths, deny_paths and stack rules: a pattern   *)
(* is a sequence of tokens, and a path is matched by running the tokens as  *)
(* a nondeterministic automaton over its characters.                       *)
(*                                                                         *)
(* A pattern is [anchored, tokens]; cutting its text into tokens is left    *)
(* out.  A path is a sequence of characters, "/" being one of them.         *)
(***************************************************************************)
EXTENDS Integers, Sequences

CONSTANTS
    Paths,      \* repository-relative paths
    PathChars   \* the characters of a path

ASSUME PathAssumption == \A p \in Paths : Len(PathChars[p]) \in Nat

Literal(c) == [kind |-> "literal", chars |-> {c}]
Star == [kind |-> "star", chars |-> {}]
Globstar == [kind |-> "globstar", chars |-> {}]
Question == [kind |-> "question", chars |-> {}]
Class(cs) == [kind |-> "class", chars |-> cs]
NegatedClass(cs) == [kind |-> "negated", chars |-> cs]

\* A leading "/" binds a pattern to the root of the repository.
Anchored(tokens) == [anchored |-> TRUE, tokens |-> tokens]
Floating(tokens) == [anchored |-> FALSE, tokens |-> tokens]

\* The pattern AMEND writes for a literal path: the whole path, anchored.
LiteralPattern(path) == Anchored([i \in 1..Len(path) |-> Literal(path[i])])

---------------------------------------------------------------------------
(* The automaton *)

matchesCharacter(token, c) ==
    \/ token.kind \in {"literal", "class"} /\ c \in token.chars
    \/ token.kind = "question" /\ c # "/"
    \/ token.kind = "negated" /\ c \notin token.chars

\* State i: the first i tokens are matched.  A star may match nothing; the
\* one pass from left to right closes chains of stars too.
addEmptyTransitions(states, tokens) ==
    {j \in 0..Len(tokens) :
        \E i \in states : /\ i <= j
                          /\ \A k \in (i + 1)..j : tokens[k].kind \in {"star", "globstar"}}

\* One character read.  The accepting state has no successor.
Advance(states, tokens, c) ==
    {i \in states \ {Len(tokens)} :
        \/ tokens[i + 1].kind = "globstar"
        \/ tokens[i + 1].kind = "star" /\ c # "/"}
    \cup {i + 1 : i \in {k \in states \ {Len(tokens)} : matchesCharacter(tokens[k + 1], c)}}

\* Position pos lies between characters pos and pos + 1.
StartsAt(path, pattern, pos) ==
    pos = 0 \/ (~pattern.anchored /\ path[pos] = "/")
EndsAt(path, pattern, pos) ==
    pos = Len(path) \/ (~pattern.anchored /\ path[pos + 1] = "/")

matchesPath(path, pattern) ==
    LET Reached[pos \in 0..Len(path)] ==
            addEmptyTransitions(
                (IF StartsAt(path, pattern, pos) THEN {0} ELSE {})
                \cup (IF pos = 0 THEN {}
                      ELSE Advance(Reached[pos - 1], pattern.tokens, path[pos])),
                pattern.tokens)
    IN \E pos \in 0..Len(path) :
           EndsAt(path, pattern, pos) /\ Len(pattern.tokens) \in Reached[pos]

---------------------------------------------------------------------------
(* Path rules.  rules is any record with the lists allow and deny. *)

matchPathPattern(path, patterns) == \E q \in patterns : matchesPath(PathChars[path], q)

\* No allow pattern allows every path; a deny pattern always wins.
MatchedAllow(rules, path) == rules.allow = {} \/ matchPathPattern(path, rules.allow)
MatchedDeny(rules, path) == matchPathPattern(path, rules.deny)
PathAllowed(rules, path) == MatchedAllow(rules, path) /\ ~MatchedDeny(rules, path)

---------------------------------------------------------------------------
(* What the glob language means, without an automaton: the tokens share out *)
(* a stretch of the path that starts and ends at the borders of segments.   *)

Takes(token, path, from, to) ==
    \/ /\ token.kind \in {"literal", "class", "question", "negated"}
       /\ to = from + 1
       /\ matchesCharacter(token, path[to])
    \/ token.kind = "star" /\ \A k \in (from + 1)..to : path[k] # "/"
    \/ token.kind = "globstar"

Denotes(path, pattern) ==
    LET n == Len(pattern.tokens)
        Cuts == {cut \in [0..n -> 0..Len(path)] : \A k \in 1..n : cut[k - 1] <= cut[k]}
    IN \E cut \in Cuts :
           /\ StartsAt(path, pattern, cut[0])
           /\ EndsAt(path, pattern, cut[n])
           /\ \A k \in 1..n : Takes(pattern.tokens[k], path, cut[k - 1], cut[k])
=============================================================================
