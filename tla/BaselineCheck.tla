----------------------------- MODULE BaselineCheck -----------------------------
(***************************************************************************)
(* The working tree, the baseline START captures of it and the CHECKs that  *)
(* judge what changed since, while an editor goes on editing, staging,       *)
(* committing, amending the contract and rewriting the override file.       *)
(*                                                                         *)
(* A path holds an object: a file or a symbolic link with a mode and bytes.  *)
(* commits is the history of HEAD, index what is staged, disk the working    *)
(* tree.  START observes twice and reads every dirty path twice, one path    *)
(* at a time; a CHECK runs its git commands and then reads the baseline's    *)
(* paths.  Ignored paths, submodules and unmerged paths are left out.       *)
(***************************************************************************)
EXTENDS ContractAmendments

CONSTANTS
    Objects,       \* what a path can hold
    Absent,        \* a path that does not exist
    NotRead,       \* what a command has not read yet
    Kind,          \* "file" or "symlink" of an object
    Mode,          \* its git mode
    Bytes,         \* its bytes: contents of a file, target of a link
    LineCount,     \* the number of lines of an object
    Binary,        \* the objects git calls binary
    InitialHead,   \* the trees HEAD may have at first
    InitialTrees,  \* the <<index, disk>> pairs the user may have at first
    Contracts,     \* the contracts START may be given
    OverrideFiles, \* the override files a user may write
    Requests,      \* the amendments a user may ask for
    MaxAttempts,   \* attempts of a capture
    MaxCommits,    \* bound: commits
    MaxMoves       \* bound: steps of the user

NoMode == "none"
NoSource == "none"
Tree == [Paths -> Objects \cup {Absent}]

ASSUME BaselineAssumption ==
    /\ IsFiniteSet(Paths)
    /\ Absent \notin Objects /\ NotRead \notin Objects \cup {Absent}
    /\ Kind \in [Objects -> {"file", "symlink"}]
    /\ Mode \in [Objects -> {"100644", "100755", "120000"}]
    /\ \A o \in Objects : Kind[o] = "symlink" <=> Mode[o] = "120000"
    /\ \A o, u \in Objects :
           Kind[o] = Kind[u] /\ Mode[o] = Mode[u] /\ Bytes[o] = Bytes[u] => o = u
    /\ LineCount \in [Objects -> Nat]
    /\ Binary \subseteq Objects
    /\ InitialHead \subseteq Tree
    /\ InitialTrees \subseteq Tree \X Tree
    /\ \A c \in Contracts :
           ContractTyped(c) /\ c.budgetHistory = <<>> /\ c.scopeHistory = <<>>
    /\ Requests \subseteq AmendRequest
    /\ MaxAttempts \in Nat \ {0} /\ MaxMoves \in Nat

VARIABLES
    commits,    \* the trees of HEAD's history, oldest first
    index,      \* the staged tree
    disk,       \* the working tree
    overrides,  \* the repository's stack policy override file
    contract,   \* the contract START activates and AMEND rewrites
    baseline,   \* the evidence file of the active contract
    start,      \* the START command
    check,      \* the CHECK command
    moves,      \* steps the user has taken
    past,       \* every object a path held while START was capturing
    moment,     \* the working tree between the two readings of the last attempt
    touched     \* paths the user has touched since the CHECK began to collect

treeVars == <<commits, index, disk>>
ghosts == <<past, moment, touched>>
vars == <<commits, index, disk, overrides, contract, baseline, start, check, moves, ghosts>>

HeadTree == commits[Len(commits)]
Same(o, u) == o # Absent /\ u # Absent /\ Kind[o] = Kind[u] /\ Bytes[o] = Bytes[u]

---------------------------------------------------------------------------
(* Git, as the code uses it *)

\* Exact renames between two trees: a path that is gone and one that is new
\* with the same kind and bytes, each in one pair at most.  Which pairs git picks
\* when there is a choice is left open by CHOOSE.
RenamePairs(from, to) ==
    LET Pairs == {r \in Paths \X Paths :
                     /\ from[r[1]] # Absent /\ to[r[1]] = Absent
                     /\ from[r[2]] = Absent /\ to[r[2]] # Absent
                     /\ Same(from[r[1]], to[r[2]])}
        Matching(M) == \A p, q \in M : p # q => p[1] # q[1] /\ p[2] # q[2]
    IN CHOOSE M \in SUBSET Pairs :
           Matching(M) /\ \A N \in SUBSET Pairs : Matching(N) => Cardinality(N) <= Cardinality(M)

Sources(pairs) == {r[1] : r \in pairs}
Targets(pairs) == {r[2] : r \in pairs}

\* git status --porcelain=v2 --untracked-files=all.  The record of a tracked
\* path compares HEAD, index and disk; the source of a rename has none.
Observations(head, staged, tree) ==
    LET renames == RenamePairs(head, staged)
        Dirty(p) == /\ p \notin Sources(renames)
                    /\ head[p] # staged[p] \/ (staged[p] # Absent /\ staged[p] # tree[p])
        Gone(p) == /\ p \notin Targets(renames)
                   /\ staged[p] = Absent \/ tree[p] = Absent
        KindChanges(o, u) == o # Absent /\ u # Absent /\ Kind[o] # Kind[u]
        Retyped(p) == KindChanges(head[p], staged[p]) \/ KindChanges(staged[p], tree[p])
        Tracked(p) == [path |-> p, tracked |-> TRUE, deleted |-> Gone(p),
                       renamed |-> p \in Targets(renames),
                       source |-> IF p \in Targets(renames)
                                  THEN (CHOOSE r \in renames : r[2] = p)[1] ELSE NoSource,
                       staged |-> head[p] # staged[p], unstaged |-> staged[p] # tree[p],
                       mode |-> IF Gone(p) \/ tree[p] = Absent THEN NoMode ELSE Mode[tree[p]],
                       noIndexMode |-> staged[p] = Absent,
                       kindChanged |-> Retyped(p)]
        Untracked(p) == [path |-> p, tracked |-> FALSE, deleted |-> FALSE, renamed |-> FALSE,
                         source |-> NoSource, staged |-> FALSE, unstaged |-> FALSE, mode |-> NoMode,
                         noIndexMode |-> FALSE, kindChanged |-> FALSE]
    IN {Tracked(p) : p \in {q \in Paths : Dirty(q)}}
       \cup {Untracked(p) : p \in {q \in Paths : staged[q] = Absent /\ tree[q] # Absent}}

\* What the parser of the records refuses.  It wants a kind of object of each:
\* of a deleted path the index's mode tells it, which is 000000 when the deletion
\* is staged, and of a renamed one the disk's, 000000 when it is gone again.
\* It does not know the status letter of a change of kind, T.
Malformed(observed) ==
    \E o \in observed :
        \/ o.renamed /\ o.mode = NoMode
        \/ o.deleted /\ o.noIndexMode
        \/ o.kindChanged

\* What git diff compares with a commit: the working tree of tracked paths.
TrackedTree(staged, tree) == [p \in Paths |-> IF staged[p] = Absent THEN Absent ELSE tree[p]]
Pairing(p, renames) == IF p \in Targets(renames) THEN "target"
                       ELSE IF p \in Sources(renames) THEN "source" ELSE "none"

\* git diff --name-status --find-renames <revision>
NameStatus(revision, staged, tree) ==
    LET now == TrackedTree(staged, tree)
        renames == RenamePairs(revision, now)
        Type(p) == IF p \in Targets(renames) THEN "renamed"
                   ELSE IF now[p] = Absent THEN "deleted"
                   ELSE IF revision[p] = Absent THEN "added"
                   ELSE "modified"
    IN [p \in {q \in Paths : revision[q] # now[q]} |->
            [type |-> Type(p), pair |-> Pairing(p, renames)]]

\* git diff --numstat: objects with different bytes share no line, and binary
\* ones count none.
Numstat(revision, staged, tree) ==
    LET now == TrackedTree(staged, tree)
        renames == RenamePairs(revision, now)
        Lines(p, tree1, tree2) ==
            IF tree1[p] = Absent \/ Same(tree1[p], tree2[p]) \/ Pairing(p, renames) # "none"
            THEN 0 ELSE LineCount[tree1[p]]
    IN [p \in {q \in Paths : revision[q] # now[q]} |->
            [pair |-> Pairing(p, renames),
             added |-> Lines(p, now, revision), removed |-> Lines(p, revision, now),
             binary |-> {revision[p], now[p]} \cap Binary # {}]]

\* git ls-files --others --exclude-standard, with what git says of their bytes
Others(staged, tree) ==
    [p \in {q \in Paths : staged[q] = Absent /\ tree[q] # Absent} |-> tree[p] \in Binary]

---------------------------------------------------------------------------
(* From git's answers to changed items, and from these to what changed since *)
(* the baseline                                                             *)

\* Counts of another reading of the tree are used only for the same kind of
\* record; a path git calls deleted that is on disk untracked is a new file.
ChangedItem(p, names, stats, others) ==
    LET counted == /\ p \in DOMAIN names /\ p \in DOMAIN stats
                   /\ stats[p].pair = names[p].pair
    IN [path |-> p,
        type |-> IF p \notin DOMAIN names THEN "added"
                 ELSE IF names[p].type = "deleted" /\ p \in DOMAIN others THEN "added"
                 ELSE names[p].type,
        added |-> IF counted THEN stats[p].added ELSE 0,
        removed |-> IF counted THEN stats[p].removed ELSE 0,
        binary |-> (counted /\ stats[p].binary) \/ (p \in DOMAIN others /\ others[p])]

collectChangedItems(names, stats, others) ==
    {ChangedItem(p, names, stats, others) : p \in DOMAIN names \cup DOMAIN others}

\* mutant: the mode of every file is compared
CurrentMode_Always(entry, o) == Mode[o]

\* The mode of a file that was untracked at START was not recorded, and is not
\* compared; the mode of a symbolic link always is.
CurrentMode(entry, o) == IF Kind[o] = "file" /\ entry.mode = NoMode THEN NoMode ELSE Mode[o]

entryEquals(entry, o) ==
    IF entry.deleted THEN o = Absent
    ELSE o # Absent /\ Same(entry.object, o) /\ entry.mode = CurrentMode(entry, o)

EntryPaths(entries) == {e.path : e \in entries}

\* A path of the baseline is an item exactly when it is no longer what it was.
projectBaselineChanges(entries, items, values) ==
    LET Moved == {e \in entries : ~entryEquals(e, values[e.path])}
        Unlisted == {e \in Moved : \A i \in items : i.path # e.path}
    IN {i \in items : \A e \in entries \ Moved : e.path # i.path}
       \cup {[path |-> e.path, added |-> 0, removed |-> 0,
              type |-> IF values[e.path] = Absent THEN "deleted" ELSE "modified",
              binary |-> {e.object, values[e.path]} \cap Binary # {}] : e \in Unlisted}

---------------------------------------------------------------------------
(* The user *)

Unread == [p \in Paths |-> NotRead]
NoPast == [p \in Paths |-> {}]
Capturing == start.phase \in {"observe", "scan", "read", "activate"}
Collecting == check.phase \in {"collect", "values", "done"}

\* During a capture nobody puts back bytes a path had since it began, nor deletes
\* again what they created: two equal readings cannot tell that from no change
\* at all.
Returns(p, o) == o \in past[p] \/ \E u \in past[p] \ {Absent} : Same(o, u)

Move(p) ==
    /\ moves < MaxMoves /\ moves' = moves + 1
    /\ touched' = IF Collecting THEN touched \cup {p} ELSE {}

Edit(p, o) ==
    /\ Move(p)
    /\ o # disk[p] /\ (Capturing => ~Returns(p, o))
    /\ disk' = [disk EXCEPT ![p] = o]
    /\ past' = IF Capturing THEN [past EXCEPT ![p] = @ \cup {o}] ELSE past
    /\ UNCHANGED <<commits, index, overrides, contract, baseline, start, check, moment>>

\* git add, git rm --cached and git reset -- path
Stage(p, o) ==
    /\ Move(p)
    /\ o \in {disk[p], Absent, HeadTree[p]} /\ o # index[p]
    /\ index' = [index EXCEPT ![p] = o]
    /\ UNCHANGED <<commits, disk, overrides, contract, baseline, start, check, past, moment>>

\* A commit moves the base of a draft that names HEAD, and so touches what it
\* commits.
BaseMoves == /\ Collecting /\ check.mode # "active"
             /\ check.phase = "done" => check.items # NotRead
             /\ check.budget.base = "HEAD"

Commit ==
    /\ moves < MaxMoves /\ moves' = moves + 1
    /\ Len(commits) < MaxCommits /\ index # HeadTree
    /\ commits' = Append(commits, index)
    /\ touched' = IF BaseMoves THEN touched \cup {p \in Paths : index[p] # HeadTree[p]}
                  ELSE touched
    /\ UNCHANGED <<index, disk, overrides, contract, baseline, start, check, past, moment>>

WriteOverrides(file) ==
    /\ moves < MaxMoves /\ moves' = moves + 1
    /\ file # overrides /\ overrides' = file
    /\ UNCHANGED <<treeVars, contract, baseline, start, check, ghosts>>

\* AMEND rewrites the contract under the locks of module Lifecycle; a CHECK
\* takes none of them.
Amend(request) ==
    /\ moves < MaxMoves /\ moves' = moves + 1
    /\ start.phase = "active" /\ AmendAccepted(contract, request)
    /\ contract' = amendContractUnderLock(contract, request)
    /\ UNCHANGED <<treeVars, overrides, baseline, start, check, ghosts>>

\* The evidence file is lost, damaged, or another contract's.
LoseBaseline ==
    /\ moves < MaxMoves /\ moves' = moves + 1
    /\ baseline.state = "intact"
    /\ baseline' = [baseline EXCEPT !.state = "unsafe"]
    /\ UNCHANGED <<treeVars, overrides, contract, start, check, ghosts>>

---------------------------------------------------------------------------
(* START: captureBaseline, then the activation *)

Idle == [phase |-> "idle", attempt |-> 0, head |-> 0, headTree |-> Unread, staged |-> Unread,
         seen |-> Unread, observed |-> {}, values |-> Unread, first |-> NotRead]

\* A CHECK of a draft shares nothing with START that either writes: the two are
\* not interleaved.
StartBegin ==
    /\ start.phase \in {"idle", "failed"} /\ check.phase = "idle"
    /\ PolicyConfigurationValid(contract, overrides)
    /\ start' = [Idle EXCEPT !.phase = "observe", !.attempt = 1, !.head = Len(commits)]
    /\ past' = [p \in Paths |-> {disk[p]}]
    /\ UNCHANGED <<treeVars, overrides, contract, baseline, check, moves, moment, touched>>

\* git status reads HEAD and the index, then every path of the working tree.
StartObserve ==
    /\ start.phase = "observe"
    /\ start' = [start EXCEPT !.phase = "scan", !.headTree = HeadTree, !.staged = index,
                              !.seen = Unread, !.values = Unread]
    /\ UNCHANGED <<treeVars, overrides, contract, baseline, check, moves, ghosts>>

StartScan(p) ==
    /\ start.phase = "scan" /\ start.seen[p] = NotRead
    /\ start' = [start EXCEPT !.seen[p] = disk[p]]
    /\ UNCHANGED <<treeVars, overrides, contract, baseline, check, moves, ghosts>>

Failed == [Idle EXCEPT !.phase = "failed"]

StartList ==
    /\ start.phase = "scan" /\ \A p \in Paths : start.seen[p] # NotRead
    /\ LET observed == Observations(start.headTree, start.staged, start.seen)
       IN start' = IF Malformed(observed) THEN Failed
                   ELSE [start EXCEPT !.phase = "read", !.observed = observed]
    /\ UNCHANGED <<treeVars, overrides, contract, baseline, check, moves, ghosts>>

\* The paths a pass reads: a deleted one has no bytes.
ToRead == {o.path : o \in {r \in start.observed : ~r.deleted}}

readObservedValue(p) ==
    /\ start.phase = "read" /\ p \in ToRead /\ start.values[p] = NotRead
    /\ start' = IF disk[p] = Absent THEN Failed ELSE [start EXCEPT !.values[p] = disk[p]]
    /\ UNCHANGED <<treeVars, overrides, contract, baseline, check, moves, ghosts>>

PassRead == start.phase = "read" /\ \A p \in ToRead : start.values[p] # NotRead

StartSecondPass ==
    /\ PassRead /\ start.first = NotRead
    /\ start' = [start EXCEPT !.phase = "observe",
                              !.first = [observed |-> start.observed, values |-> start.values]]
    /\ moment' = disk
    /\ UNCHANGED <<treeVars, overrides, contract, baseline, check, moves, past, touched>>

\* mutant: the bytes of the two passes are not compared
Stable_Records(first, observed, values) == first.observed = observed

\* Both passes saw the same records, and each path with the same bytes.
Stable(first, observed, values) ==
    /\ first.observed = observed
    /\ \A o \in {r \in observed : ~r.deleted} : Same(first.values[o.path], values[o.path])

\* mutant: one attempt too many
StartCompare_OffByOne ==
    /\ PassRead /\ start.first # NotRead
    /\ start' = IF Stable(start.first, start.observed, start.values)
                THEN [start EXCEPT !.phase = "activate"]
                ELSE IF start.attempt <= MaxAttempts
                THEN [start EXCEPT !.phase = "observe", !.attempt = @ + 1, !.first = NotRead]
                ELSE Failed
    /\ UNCHANGED <<treeVars, overrides, contract, baseline, check, moves, ghosts>>

StartCompare ==
    /\ PassRead /\ start.first # NotRead
    /\ start' = IF Stable(start.first, start.observed, start.values)
                THEN [start EXCEPT !.phase = "activate"]
                ELSE IF start.attempt < MaxAttempts
                THEN [start EXCEPT !.phase = "observe", !.attempt = @ + 1, !.first = NotRead]
                ELSE Failed
    /\ UNCHANGED <<treeVars, overrides, contract, baseline, check, moves, ghosts>>

\* The values are those of the first pass.
entryFor(o, values) ==
    [path |-> o.path, deleted |-> o.deleted, renamed |-> o.renamed,
     object |-> IF o.deleted THEN Absent ELSE values[o.path], mode |-> o.mode]

Entries(first) == {entryFor(o, first.values) : o \in first.observed}

\* Two records of one path are an ambiguous baseline.
OneRecordEach(entries) == \A e, f \in entries : e.path = f.path => e = f

\* reloadBaselineEvidence under the lifecycle lock: the evidence is coherent
\* and HEAD is where it was when START began.
StartActivate ==
    /\ start.phase = "activate"
    /\ IF OneRecordEach(Entries(start.first)) /\ Len(commits) = start.head
       THEN /\ start' = [Idle EXCEPT !.phase = "active"]
            /\ baseline' = [state |-> "intact", head |-> start.head,
                            entries |-> Entries(start.first)]
       ELSE start' = Failed /\ UNCHANGED baseline
    /\ past' = NoPast
    /\ UNCHANGED <<treeVars, overrides, contract, check, moves, moment, touched>>

Start == \/ StartBegin \/ StartObserve \/ StartList \/ StartSecondPass \/ StartCompare
         \/ StartActivate
         \/ \E p \in Paths : StartScan(p) \/ readObservedValue(p)

---------------------------------------------------------------------------
(* CHECK.  A draft is judged against its base revision; so is an active      *)
(* contract from before baselines were recorded.                           *)

NoCheck == [phase |-> "idle", mode |-> "none", budget |-> NotRead, rules |-> {},
            names |-> NotRead, stats |-> NotRead, others |-> NotRead, values |-> Unread,
            items |-> NotRead, result |-> "none"]

\* The answer needs neither what was read nor which step gave it.
Answer(result) == [NoCheck EXCEPT !.phase = "done", !.mode = check.mode, !.result = result]

CheckBegin(mode) ==
    /\ check.phase = "idle"
    /\ start.phase \in (IF mode = "active" THEN {"active"} ELSE {"idle", "failed"})
    /\ check' = [NoCheck EXCEPT !.phase = "policy", !.mode = mode, !.budget = contract]
    /\ UNCHANGED <<treeVars, overrides, contract, baseline, start, moves, ghosts>>

getStackPolicyResolution ==
    /\ check.phase = "policy"
    /\ check' = IF PolicyValid(check.budget.profile, overrides, check.budget.disabled)
                THEN [check EXCEPT !.phase = "reload",
                          !.rules = resolveStackPolicy(check.budget.profile, overrides,
                                                       check.budget.disabled)]
                ELSE Answer("ERROR")
    /\ UNCHANGED <<treeVars, overrides, contract, baseline, start, moves, ghosts>>

reloadBaselineEvidence ==
    /\ check.phase = "reload"
    /\ check' = IF /\ check.mode = "active"
                   /\ baseline.state # "intact" \/ Len(commits) # baseline.head
                THEN Answer("HUMAN_REVIEW")
                ELSE [check EXCEPT !.phase = "collect"]
    /\ UNCHANGED <<treeVars, overrides, contract, baseline, start, moves, ghosts>>

\* mutant: the tree is compared with HEAD
Revision_Head == HeadTree

\* The commit START recorded; or, for a draft, what the text of base_revision
\* means to git when this command runs.
Revision == IF check.mode = "active" THEN commits[baseline.head]
            ELSE IF check.budget.base = "HEAD" THEN HeadTree ELSE commits[1]

\* The git commands of collectChangedItems run at the same time.
CheckNames ==
    /\ check.phase = "collect" /\ check.names = NotRead
    /\ check' = [check EXCEPT !.names = NameStatus(Revision, index, disk)]
    /\ UNCHANGED <<treeVars, overrides, contract, baseline, start, moves, ghosts>>

CheckStats ==
    /\ check.phase = "collect" /\ check.stats = NotRead
    /\ check' = [check EXCEPT !.stats = Numstat(Revision, index, disk)]
    /\ UNCHANGED <<treeVars, overrides, contract, baseline, start, moves, ghosts>>

CheckOthers ==
    /\ check.phase = "collect" /\ check.others = NotRead
    /\ check' = [check EXCEPT !.others = Others(index, disk)]
    /\ UNCHANGED <<treeVars, overrides, contract, baseline, start, moves, ghosts>>

CheckCollected ==
    /\ check.phase = "collect" /\ NotRead \notin {check.names, check.stats, check.others}
    /\ check' = [check EXCEPT !.phase = "values", !.names = NotRead, !.stats = NotRead,
                     !.others = NotRead,
                     !.items = collectChangedItems(check.names, check.stats, check.others)]
    /\ UNCHANGED <<treeVars, overrides, contract, baseline, start, moves, ghosts>>

CheckEntries == IF check.mode = "active" THEN baseline.entries ELSE {}

readCurrentBaselineValue(p) ==
    /\ check.phase = "values" /\ p \in EntryPaths(CheckEntries) /\ check.values[p] = NotRead
    /\ check' = [check EXCEPT !.values[p] = disk[p]]
    /\ UNCHANGED <<treeVars, overrides, contract, baseline, start, moves, ghosts>>

CheckEvaluate ==
    /\ check.phase = "values"
    /\ \A p \in EntryPaths(CheckEntries) : check.values[p] # NotRead
    /\ LET items == projectBaselineChanges(CheckEntries, check.items, check.values)
       IN check' = [check EXCEPT !.phase = "done", !.values = Unread, !.items = items,
                        !.result = evaluateBudgetCheck(check.budget, check.rules, items, NoEvidence)]
    /\ UNCHANGED <<treeVars, overrides, contract, baseline, start, moves, ghosts>>

\* A git command or a file cannot be read: the error is reported as it is, or
\* as a review when git's output is malformed.
CheckFails(result) ==
    /\ check.phase \in {"policy", "reload", "collect", "values"}
    /\ check' = Answer(result)
    /\ UNCHANGED <<treeVars, overrides, contract, baseline, start, moves, ghosts>>

CheckReturns ==
    /\ check.phase = "done"
    /\ check' = NoCheck /\ touched' = {}
    /\ UNCHANGED <<treeVars, overrides, contract, baseline, start, moves, past, moment>>

Check == \/ CheckReturns
         \/ \E mode \in {"active", "draft"} : CheckBegin(mode)
         \/ getStackPolicyResolution \/ reloadBaselineEvidence
         \/ CheckNames \/ CheckStats \/ CheckOthers \/ CheckCollected
         \/ \E p \in Paths : readCurrentBaselineValue(p)
         \/ CheckEvaluate
         \/ \E result \in {"ERROR", "HUMAN_REVIEW"} : CheckFails(result)

User == \/ \E p \in Paths, o \in Objects \cup {Absent} : Edit(p, o) \/ Stage(p, o)
        \/ Commit
        \/ \E file \in OverrideFiles : WriteOverrides(file)
        \/ \E request \in Requests : Amend(request)
        \/ LoseBaseline

Init ==
    /\ commits \in {<<tree>> : tree \in InitialHead}
    /\ \E trees \in InitialTrees : index = trees[1] /\ disk = trees[2]
    /\ overrides = NoOverrides
    /\ contract \in Contracts
    /\ baseline = [state |-> "none", head |-> 0, entries |-> {}]
    /\ start = Idle
    /\ check = NoCheck
    /\ moves = 0
    /\ past = NoPast /\ moment = Unread /\ touched = {}

Next == User \/ Start \/ Check

Spec == Init /\ [][Next]_vars

---------------------------------------------------------------------------
(* Types *)

EntryType == [path : Paths, deleted : BOOLEAN, renamed : BOOLEAN, object : Objects \cup {Absent},
              mode : {"100644", "100755", "120000", NoMode}]
ItemType == [path : Paths, type : ChangeTypes, added : Nat, removed : Nat, binary : BOOLEAN]
ReadTree == [Paths -> Objects \cup {Absent, NotRead}]

\* Every variable has its type.
TypeOK ==
    /\ commits \in Seq(Tree) /\ commits # <<>>
    /\ index \in Tree /\ disk \in Tree
    /\ ContractTyped(contract)
    /\ baseline.state \in {"none", "intact", "unsafe"}
    /\ baseline.head \in 0..Len(commits)
    /\ baseline.entries \subseteq EntryType
    /\ start.phase \in {"idle", "observe", "scan", "read", "activate", "active", "failed"}
    /\ start.attempt \in 0..MaxAttempts
    /\ start.head \in 0..Len(commits)
    /\ start.seen \in ReadTree /\ start.values \in ReadTree
    /\ start.headTree \in ReadTree /\ start.staged \in ReadTree
    /\ check.phase \in {"idle", "policy", "reload", "collect", "values", "done"}
    /\ check.result \in Decisions \cup {"none", "ERROR"}
    /\ check.items = NotRead \/ check.items \subseteq ItemType
    /\ moves \in 0..MaxMoves
    /\ moment \in ReadTree /\ touched \subseteq Paths

---------------------------------------------------------------------------
(* Properties *)

EntryExplains(e, o) ==
    IF e.deleted THEN o = Absent ELSE o # Absent /\ Same(e.object, o)

\* The baseline of an active contract is the working tree as it was at one
\* moment, although git status and the reading of the paths took many steps
\* with the user editing and committing in between: the paths with an entry
\* held its bytes then, and the others were those of the activation commit, but
\* for the source of a staged rename, which was absent: see RenameSourceCharged.
\* (captureBaseline, capture.ts; activateBaseline's verification.)
BaselineIsOneMoment ==
    baseline.state = "intact" =>
        \A p \in Paths :
            IF p \in EntryPaths(baseline.entries)
            THEN \A e \in baseline.entries : e.path = p => EntryExplains(e, moment[p])
            ELSE \/ moment[p] = commits[baseline.head][p]
                 \/ moment[p] = Absent /\ \E e \in baseline.entries : e.renamed

\* What a finished CHECK compares a path with: the moment of the baseline if it
\* has an entry, or else the activation commit; for a draft, HEAD or the commit
\* its base names.
Evaluated == check.phase = "done" /\ check.items # NotRead
Base == IF check.mode = "active" THEN commits[baseline.head]
        ELSE IF check.budget.base = "HEAD" THEN HeadTree ELSE commits[1]
Boundary(p) == IF p \in EntryPaths(CheckEntries) THEN moment[p] ELSE Base[p]
ModeUnknown(p) ==
    check.mode = "active" /\ \E e \in baseline.entries : e.path = p /\ e.mode = NoMode
ChangedSince(p) ==
    /\ disk[p] # Boundary(p)
    /\ ~(ModeUnknown(p) /\ Same(disk[p], Boundary(p)))
\* Changes the user left alone while the CHECK read the tree.
KeptChanges == {p \in Paths \ touched : ChangedSince(p)}

\* No change of the working tree since the boundary escapes a CHECK by being
\* staged, unstaged, renamed or undone in the index, whatever the user does
\* meanwhile to other paths: it is among the items, and PASS means that it is
\* allowed, matches no rule and that there are no more of them than max_files.
\* Nor does it escape by being committed, unless the contract has no baseline
\* and its base is the text HEAD: the commit is then the base (see README,
\* section 5).  A change of nothing but the mode of a file that was untracked at
\* START is not a change here: see EveryDeltaFound.
\* (collectChangedItems, projectBaselineChanges and evaluateBudgetCheck together.)
KeptChangesJudged ==
    Evaluated =>
        /\ \A p \in KeptChanges : \E i \in check.items : i.path = p
        /\ check.result = "PASS" =>
               /\ \A p \in KeptChanges :
                      /\ PathAllowed(check.budget, p)
                      /\ \A r \in check.rules : ~matchPathPattern(p, RulePatterns[r])
               /\ ~Exceeds(Cardinality(KeptChanges), check.budget.maxFiles)

\* A path that has an entry in the baseline and holds the same object is not
\* charged to the contract, however it was staged or unstaged since.  A symbolic
\* link that was untracked is the exception: see UnchangedNeverCharged.  A tree
\* with a staged deletion or a staged change of kind has no baseline at all: see
\* DirtyTreeObserved.
\* (projectBaselineChanges, compare.ts:33-69.)
InheritedExcluded ==
    Evaluated /\ check.mode = "active" =>
        \A e \in baseline.entries :
            (/\ e.path \notin touched /\ disk[e.path] = moment[e.path]
             /\ ~(e.mode = NoMode /\ ~e.deleted /\ Kind[e.object] = "symlink"))
            => \A i \in check.items : i.path # e.path

\* An unchanged pre-existing entry is excluded, a symbolic link as well: what
\* specs/013's spec.md:187 (FR-030) says.  (observe.ts:149 records no mode for an
\* untracked path, diff.ts:536 compares a link's with 120000: it does not hold.)
UnchangedNeverCharged ==
    Evaluated /\ check.mode = "active" =>
        \A e \in baseline.entries :
            e.path \notin touched /\ disk[e.path] = moment[e.path]
            => \A i \in check.items : i.path # e.path

\* Any change of an entry that was there before START is found, its mode
\* included, tracked or not: what specs/013's spec.md:146 (FR-004) and 149
\* (FR-007) say.  (diff.ts:542 compares no mode where START recorded none: it does not hold.)
EveryDeltaFound ==
    Evaluated /\ check.mode = "active" =>
        \A e \in baseline.entries :
            e.path \notin touched /\ disk[e.path] # moment[e.path]
            => \E i \in check.items : i.path = e.path

\* START reads what git reports of any working tree, staged deletions and changes
\* of kind included: what specs/013's spec.md:63 (scenario 3), 143 (FR-001), 150
\* (FR-008) and 187 (FR-030) ask for.  (observe.ts:50 and 81 refuse such records: it
\* does not hold, whoever touches the tree or nobody.)
DirtyTreeObserved == [][StartList => start'.phase # "failed"]_vars

\* No sequence of amendments leads to a contract whose histories AMEND or CLOSE
\* refuse as corrupt, or that does not allow a path they say was added.
\* (contracts.ts:95-184, budget-amendment.ts:146, scope-amendment.ts:161.)
OwnHistoryAccepted ==
    /\ HistoriesExplainBudget(contract)
    /\ \A i \in DOMAIN contract.scopeHistory :
           \A p \in contract.scopeHistory[i] : PathAllowed(contract, p)
=============================================================================
