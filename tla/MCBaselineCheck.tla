---------------------------- MODULE MCBaselineCheck ----------------------------
(***************************************************************************)
(* Two paths, four objects (two files, one of them also executable, and a   *)
(* link), and trees that start clean or dirty in the ways START treats       *)
(* differently.                                                            *)
(***************************************************************************)
EXTENDS BaselineCheck

MCPaths == {"src", "doc"}
MCPathChars == [src |-> <<"s", "/", "a">>, doc |-> <<"d">>]
MCLiterals == {"src", "doc"}

MCObjects == {"one", "two", "exec", "link"}
MCKind == [one |-> "file", two |-> "file", exec |-> "file", link |-> "symlink"]
MCMode == [one |-> "100644", two |-> "100644", exec |-> "100755", link |-> "120000"]
MCBytes == [one |-> "1", two |-> "2", exec |-> "2", link |-> "3"]
MCLineCount == [one |-> 1, two |-> 2, exec |-> 2, link |-> 1]
MCBinary == {}

Holds(src, doc) == [src |-> src, doc |-> doc]
MCHead == {Holds("one", Absent)}
MCTrees ==
    {<<Holds("one", Absent), Holds("one", Absent)>>,     \* clean
     <<Holds("one", Absent), Holds("two", Absent)>>,     \* modified
     <<Holds("one", Absent), Holds("one", "two")>>,        \* a new file
     <<Holds("one", Absent), Holds("one", "link")>>,       \* a new link
     <<Holds("two", Absent), Holds("two", Absent)>>,     \* staged
     <<Holds(Absent, "one"), Holds(Absent, "one")>>,     \* a staged rename
     <<Holds("one", Absent), Holds(Absent, Absent)>>,    \* deleted
     <<Holds(Absent, Absent), Holds("one", Absent)>>}  \* removed from the index only

MCProfiles == {"node"}
MCRuleIds == {"r1", "r2"}
MCBuiltin == [node |-> {"r1"}]
MCRulePatterns == [r1 |-> {Floating(<<Literal("d")>>)}, r2 |-> {Floating(<<Literal("s")>>)}]
MCOverrides ==
    {[wellFormed |-> TRUE, disable |-> {"r1"}, added |-> {"r2"}],
     [wellFormed |-> FALSE, disable |-> {}, added |-> {}]}

Budget(allow, deny, files, lines, new, profile, disabled, base) ==
    [allow |-> allow, deny |-> deny, maxFiles |-> files, maxLines |-> lines,
     newFiles |-> new, profile |-> profile, disabled |-> disabled, base |-> base,
     budgetHistory |-> <<>>, scopeHistory |-> <<>>]
MCContracts ==
    {Budget({Anchored(<<Literal("s"), Globstar>>)}, {}, 1, NoLimit, FALSE, NoProfile, {}, "HEAD"),
     Budget({}, {Floating(<<Literal("d")>>)}, NoLimit, 2, TRUE, "node", {}, "commit")}
MCRequests ==
    {[maxFiles |-> 1, maxLines |-> NotAsked, paths |-> {}, reason |-> FALSE],
     [maxFiles |-> 2, maxLines |-> NotAsked, paths |-> {}, reason |-> FALSE],
     [maxFiles |-> 2, maxLines |-> 3, paths |-> {"doc"}, reason |-> TRUE],
     [maxFiles |-> NotAsked, maxLines |-> NotAsked, paths |-> {"doc"}, reason |-> TRUE]}

\* The automaton accepts what the glob language means: every path of up to
\* three characters and every pattern of up to three tokens.
SequencesUpTo(S, n) == UNION {[1..k -> S] : k \in 0..n}
SmallTokens == {Literal("a"), Star, Globstar, Question, Class({"b", "/"}), NegatedClass({"a"})}
ASSUME MatcherIsTheGlob ==
    \A path \in SequencesUpTo({"a", "b", "/"}, 3), tokens \in SequencesUpTo(SmallTokens, 3),
       anchored \in BOOLEAN :
        LET pattern == [anchored |-> anchored, tokens |-> tokens]
        IN matchesPath(path, pattern) <=> Denotes(path, pattern)

\* The source of a rename staged before START has no entry, so the deletion that
\* was there before is charged, and putting the file back is not
\* (observe.ts:93-123, compare.ts:42-66).
ASSUME RenameSourceCharged ==
    LET head == Holds("one", Absent)
        tree == Holds(Absent, "one")
        entries == {entryFor(o, tree) : o \in Observations(head, tree, tree)}
        items == collectChangedItems(NameStatus(head, tree, tree), Numstat(head, tree, tree), <<>>)
    IN {i.path : i \in projectBaselineChanges(entries, items, tree)} = {"src"}

\* START refuses what git reports of a staged deletion, of a path removed from the
\* index alone and of a file that became a link (observe.ts:50, 81); an unstaged
\* deletion it reads.
ASSUME StagedDeletionsRefused ==
    LET head == Holds("one", Absent)
        Refused(staged, tree) == Malformed(Observations(head, staged, tree))
    IN /\ Refused(Holds(Absent, Absent), Holds(Absent, Absent))
       /\ Refused(Holds(Absent, Absent), head)
       /\ Refused(head, Holds("link", Absent))
       /\ ~Refused(head, Holds(Absent, Absent))
=============================================================================
