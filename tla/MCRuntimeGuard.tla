---------------------------- MODULE MCRuntimeGuard ----------------------------
(***************************************************************************)
(* RuntimeGuard for TLC: a file in scope, a file out of scope, a path that   *)
(* may be a link from the one to the other, and the tool's own directory.    *)
(* The file out of scope is recognised by the name ./d but not by d, as a     *)
(* Makefile would be.                                                      *)
(***************************************************************************)
EXTENDS RuntimeGuard, TLC

CONSTANTS b1, b2, r1, i1, v1

MCPaths == {"src", "doc", "alias", "own"}
MCPathChars == [src |-> <<"s", "/", "a">>, doc |-> <<"d">>, alias |-> <<"s", "/", "l">>,
                own |-> <<"o">>]
MCNames == MCPaths \cup {"./doc", "../out"}
MCMeaning == [n \in MCNames |-> CASE n = "./doc" -> "doc" [] n = "../out" -> Outside [] OTHER -> n]
MCPathLike == MCNames \ {"doc"}
MCSensitive == [src |-> {}, doc |-> {"config"}, alias |-> {}, own |-> {}]

Src == Floating(<<Literal("s")>>)
Doc == Floating(<<Literal("d")>>)

MCRules ==
    (b1 :> [allow |-> {Src}, deny |-> {}, newFiles |-> FALSE, permits |-> {}, compiles |-> TRUE,
            known |-> TRUE, maxFiles |-> 1, maxLines |-> 2])
    @@ (b2 :> [allow |-> {}, deny |-> {Floating(<<Literal("o")>>)}, newFiles |-> TRUE,
               permits |-> {"config"}, compiles |-> TRUE, known |-> TRUE,
               maxFiles |-> NoLimit, maxLines |-> NoLimit])

MCTerms == [scope |-> {Src}, newFiles |-> FALSE, permits |-> {}, maxFiles |-> 1, maxLines |-> 1]
\* alias is no file: a reference may name it, an edit has no such facts.
MCRequests == {[path |-> p, maxFiles |-> 1, maxLines |-> 1] : p \in {"src", "alias"}}

Entry(kind, place) == [kind |-> kind, place |-> place]
Disk(src, doc, alias) == [src |-> src, doc |-> doc, alias |-> alias, own |-> Entry("file", NoPath)]
MCDisks ==
    {Disk(Entry("file", NoPath), Entry("file", NoPath), Entry("link", "doc")),
     Disk(Entry("missing", NoPath), Entry("unsafe", NoPath), Entry("linked directory", "src"))}

MCRequired == r1 :> {i1}
MCAuthority == [worker |-> [max |-> 1, constraint |-> "HARD"]]
Ask(id, amount) ==
    [id |-> id, kind |-> "worker", amount |-> amount, minimum |-> 0, value |-> v1,
     necessity |-> "optional", refs |-> {r1}, evidence |-> TRUE]
MCEnvelopes == {[state |-> "EXECUTING", authority |-> MCAuthority, evidence |-> (r1 :> {}),
                 ledger |-> <<[proposal |-> Ask("x", 1)]>>]}
MCInputs == {[kind |-> "INVALID", proposal |-> Ask("x", 1)]}
            \cup {[kind |-> "VALID", proposal |-> p] : p \in {Ask("x", 1), Ask("x", 2), Ask("y", 2)}}

Command(own, intent, words) ==
    [own |-> own, intent |-> intent, pathless |-> FALSE, words |-> words, inferred |-> NoPath]
MCEvents ==
    {[action |-> "edit", resources |-> r] :
         r \in {{}, {"src"}, {"alias", "doc"}, {"../out"}}}
    \cup {[action |-> "shell", resources |-> {c}] :
              c \in {Command("none", "mutate", <<"doc", "./doc", "src">>),
                     Command("none", "read-only", <<>>),
                     Command("changebudget-managed-mutation", "mutate", <<>>),
                     Command("changebudget-unsupported", "mutate", <<>>)}}
    \cup {[action |-> a, resources |-> {}] : a \in {"read", "shell"}}

ContractSymmetry == Permutations(Contracts)

\* The rules of a contract are written from the root; a grant's request is held
\* against them with a "/" in front, where an anchored pattern matches nothing.
ASSUME AnchoredRulesUnseenByGrants ==
    \A p \in Paths : /\ matchPathPattern(p, {LiteralPattern(PathChars[p])})
                     /\ ~matchRootedPath(p, {LiteralPattern(PathChars[p])})

\* An empty list of allowed paths allows every path to CHECK and to the guard,
\* and none to a grant.
ASSUME EmptyAllowIsNoneForGrants ==
    \A p \in Paths : /\ PathAllowed([allow |-> {}, deny |-> {}], p)
                     /\ ~matchRootedPath(p, {})

\* What the guard projects of an operation while CHECK says PASS.
Projected(operation, scope) ==
    projectRuntimeDecision(toRuntimeContext([p \in Paths |-> Entry("file", NoPath)], operation,
        [inited |-> TRUE, decision |-> "PASS", scope |-> scope, blocked |-> FALSE]))
DocDenied == [MCRules[b1] EXCEPT !.deny = {Doc}, !.allow = {}, !.newFiles = TRUE]

\* A denied path is blocked under a name that looks like a path and allowed under
\* one that does not, and nothing is asked where there is no contract
\* (index.ts:301-319, 1138-1157; specs/004's spec.md:202 (FR-007): MUST block).
ASSUME UnrecognisedNamesUnjudged ==
    /\ Projected(EditContext("./doc"), DocDenied) = "block"
    /\ Projected(EditContext("doc"), DocDenied) = "allow"
    /\ Projected(EditContext("src"), NoScope) = "block"
    /\ Projected(EditContext("doc"), NoScope) = "allow"

\* A command is held against the scope by the first path among its words alone
\* (index.ts:463-476).
ASSUME LaterWordsUnjudged ==
    LET Copy(words) == Projected(extractCommandContext(Command("none", "mutate", words)), DocDenied)
    IN Copy(<<"./doc", "src">>) = "block" /\ Copy(<<"src", "./doc">>) = "allow"

\* Patterns that do not compile deny nothing: the denied path is asked about
\* (index.ts:1078-1080).
ASSUME BrokenPatternsAsk ==
    Projected(EditContext("./doc"), [DocDenied EXCEPT !.compiles = FALSE]) = "ask"
=============================================================================
