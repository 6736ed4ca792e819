# ChangeBudget: formal models

TLA+ models of ChangeBudget's core, checked with TLC on small instances and, where it says so, proved with
TLAPS for every value of the constants. Paths below are relative to the repository root (`src/src/...` is the CLI
and core, `src/opencode-plugin/src/...` the OpenCode plugin).

## 1. The system

ChangeBudget keeps a *change contract* (what an agent may change, and how much) in `.changebudget/` of a Git
repository. There is no server: every CLI command and every plugin call is a process of its own, and they meet
only in files.

| Component | State | Operations | What is hard | What makes it correct |
|---|---|---|---|---|
| Lifecycle state, write-ahead audit (`core/state/state.ts`, `transitions.ts`) | `state.json`: phase, active pointer, last closed, audit history | persist, complete, abort, recover | crashes between writes, old copies written back, recovery from postconditions | the history explains the files; nothing is lost from it |
| Lifecycle commands (`init`, `start`, `amend`, `close`) | `contracts/<id>.json`, `baselines/<id>.json`, their locks | the four commands | three files changed by one command, cleanup after an error, two locks | one contract governs at a time; pointer, contract and baseline agree |
| State lock and `recover` (`lifecycle-lock-recovery.ts`) | `state.json.lock`, the recovery audit file | create, fill, release, inspect, remove | a file created in two steps, inspected and removed by path | a live lock is never removed; no removal unrecorded |
| Execution gate and envelope (`execution-gate.ts`, `execution-envelope.ts`, `check.ts`) | the envelope inside a contract: authorities, evidence, decision ledger | attach, submit evidence, propose | CHECK decides on a copy read before the lock; proposals retried | satisfaction is earned, a decision never exceeds the envelope |
| Authority registry and grants (`core/authority/registry.ts`, `authority-service.ts`, `grants.ts`) | a user-local registry of bindings, grants, lifecycle, audit; its lock; a public locator in each repository | create, revoke, authorize use, verify, list | commits of unknown outcome, one-shot grants, several repositories, expiry | a one-shot grant is used once; every accepted use is on record |
| Authority work context and read observation (`work-context.ts`) | none | a lock-free consistent read of four files | writers in between | the observation is one moment of the files |
| Working-tree baseline (`core/baseline`) | `baselines/<id>.json` | capture, compare, persist, activate | edits while capturing | a stable capture is the tree at one moment |
| Budget engine (`core/check`) | none | diff, patterns, stack rules, verdict | boundaries, precedence of rules | the verdict is a function of measurements and contract |
| Amendment models (`models/*-amendment.ts`) | histories inside a contract | append, effective budget | order | the effective budget is the last amendment's |
| Runtime guard (`opencode-plugin/src`) | none (reads) | evaluate, project, answer the permission hook | state read before CHECK and used after | never more permissive than CHECK and the gate |
| Integration, self-update (`core/integration`, `core/update`) | the plugin wrapper, the installed package | install, remove, update, refresh | update done and refresh failed; a file changed between inspection and write | only managed files are changed |
| Diagnose, Spec Kit bridge, CLI, Git access | none | pure functions and I/O | - | - |

Interaction: commands take the state lock, then a contract's lock; CHECK and the envelope take the contract's lock
only; the authority service takes state, contract and registry locks in this order; the plugin reads without locks;
`recover` removes a state lock whose owner is dead (or, with `--force`, unidentified).

## 2. Modules

| Module | Models |
|---|---|
| `LifecycleStore` | the files, the audit records, `resolveLifecycleAuditUnlocked` and its postconditions, `mergeAuditHistory`, the transitions |
| `Lifecycle` | INIT, START, AMEND, CLOSE as concurrent processes, recovery of pending records, locks, failed writes, crashes, removal of a dead process's state lock |
| `LifecycleAbstract` | one contract governs at a time; each change is one step |
| `LockRecovery` | `acquireLifecycleStateLock`, `safeRemoveOwnedLock`, `inspectLifecycleLock`, `recoverLifecycleLock` and the audit file of recoveries |
| `ExecutionGate` | `evaluateMaterialDecision` and what it calls, as operators |
| `ExecutionEnvelope` | attach, CHECK's evidence, recorded decisions, AMEND and CLOSE of the contract, each as read, lock, decide, write, unlock |
| `EnvelopeAbstract` | the same operations done at once |
| `AuthorityRegistry` | `createGrant`, `revokeGrant`, `authorizeUse`, the rejected use, and `transactAuthorityRegistry` under all of them |
| `AuthorityAbstract` | the life of a grant: made once, used while active, a one-shot grant once, ended for good |
| `AuthorityObservation` | `verifyGrant` and `withAuthorityReadObservation`: the grant judged on files opened one after another without a lock; extends `Lifecycle` and `RuntimePolicy` |
| `PathPatterns` | the glob matcher of path rules and stack rules |
| `BudgetRules` | limits and their provenance, the stack policy and its overrides, the verdict of CHECK, as operators |
| `ContractAmendments` | what AMEND accepts and writes, and what its histories must satisfy |
| `BaselineCheck` | START's capture of the working tree and CHECK's judgement of it, read by read, beside the user; extends `ContractAmendments` |
| `RuntimePolicy` | the guard's classification of targets and its projection of a decision, as operators; extends `ExecutionGate`, `PathPatterns` |
| `RuntimeGuard` | the permission hook beside lifecycle commands, registry transactions and edits; extends `AuthorityObservation` |
| `Integration` | `integrate opencode` (install, preview, remove), `update` and `update --check` |
| `*_proofs` | the theorems of section 6 |
| `MC*` | constants for TLC |

How to read them against the code: a module's variables are its files and locks; `pc[p]` names the code process `p` is
about to run and `job[p]` holds its locals; one action is one durable file operation or the read that decides it.
`Free` is a lock file that does not exist, `Stale` one whose owner died. A conversion that only formats (JSON, messages,
timestamps) has no state here. Contract identifiers, scopes, evidence items and decision values are model values.

### Lifecycle

`state` is `state.json` (phase, pointer, last closed, `audits`), `contract` and `baseline` the files by identifier.
A command starts with `recoverPendingLifecycleAudits`: the pending records are read without the lock (`Begin`) and
resolved under it one by one (`RecoverNext`). It takes the state lock again, refuses when a record is pending
(`NoPendingAudits`), checks the pointer, appends its own pending record, writes its files and completes the record.
`WriteFails` can stop each write and sends the command into the code's own catch block; `Crash` stops a process anywhere
and leaves its lock files `Stale`. `RecoverStateLock` is the `recover` command seen from here: it removes the state lock
of a dead owner. START's `StartActivate` writes the lifecycle state computed from the copy read earlier
(`job[p].snapshot`), merged with the history on disk as `writeLifecycleStateUnlocked` does.

Left out: the schema migration of old state files; a failing removal of a process's own contract lock.

### LockRecovery

A lock file is an inode with an owner and contents (`empty`, `metadata`). Recovery inspects twice, with its PENDING record
in between, then removes by path. Code comments (`lifecycle-lock-recovery.ts:695-697`) say the inspection and the unlink
are not atomic and leave the gap to the operator: forced recovery is for a repository where nothing runs. The model takes
the operator at that word, in two places: recoveries do not overlap, and a forced one starts when no process is between
creating and filling a lock. The rest (probing, `EPERM`, failed unlinks, crashes of the recovery) is free.

### ExecutionGate and ExecutionEnvelope

Numeric kinds have a ceiling and a HARD or SOFT constraint, allowlist kinds a set of values with alternatives, other kinds
neither. CHECK reads the contract, computes evidence, and submits it later under the lock (`BeginCheck`, `Submit`).
`writeExecutionEnvelopeInPlace` and `evaluateAndRecordMaterialDecisionInPlace` are exported and, at this commit, called by
tests only; they are modelled as any process calling them. The plugin calls the gate without recording. FAST_PATH
operations are outside the gate's material decisions and not modelled.

### AuthorityRegistry

`registry` is the user's one `registry.json`: the bound repositories, a row per grant (status, repository, the contract
revision it was made for) and the audit. `registryLock` is its lock file, `stateLock[r]` the state lock of a repository (the
contract's lock, taken right after it by `withWorkContextCandidate`, is always taken inside it here and is folded into it),
`reference` the repositories with a public locator, `work[r]` the contract revision that governs. A call is `enter` (state
lock and context), `locate` (first grant of a repository writes its locator) or `recheck` (revoke), `lock`, `apply` (read and
decide under the registry lock), `replace` (`validateBeforeReplace` and the rename), `ack` (readback and `validateBeforeAck`),
`release`; an error before the rename goes through `abort`, one after it keeps the lock file. `Left` is that lock file, or the
one of a dead process: no code removes it (a state lock `Left` behind is what the `recover` command removes). `AfterError` is the catch of `authorizeUse`: a rejected use runs a transaction of
its own, inside or outside the state lock depending on the error.

The three callbacks of each mutation (`apply`, `validateBeforeReplace`, `validateBeforeAck`) are `Applies`, checked twice, and
`Acknowledged`; `ensureMutationBounded` is `Bounded`. A use may be refused although the grant is usable: whether the grant
covers the request is a free choice at each of the three checks, since paths on disk can change between them. A contract is
started, amended or closed by `Govern`, the clock passes `expires_at` by `Expire`.

Left out: `validateSnapshot` on the snapshot about to be written (`SnapshotValid` says that it never refuses one);
`verifyGrant`, which is in `AuthorityObservation`; `listGrants` and `inspectGrant`, the same observation without a judgement;
`valid_from`; physical identities, taken as constant;
the refresh after `createGrant`'s and `revokeGrant`'s commit, which only turns an answer into an error; the byte limit.

### AuthorityObservation

`obs` is a verification under way: its next look (`Script` lists the looks of `withAuthorityReadObservation` in the order of
the code), the copies it has read (`seen`) and its answer. A look at a lock file finds it absent or ends the verification;
`Pin` opens a file and reads it, `Validate` looks whether the path still is that file. Beside it run the commands of
`Lifecycle`, transactions on the registry (local ones hold the state lock and the contract lock; those of another repository
only the registry lock) and edits of the user. `authorityUseFails` is the judgement: binding, life cycle, path, permissions and
ceilings, against the grant and against the contract's rules.

Abstracted: `Validate` compares contents, where the code compares the identity and times of the file too, so the code refuses
more often; the public reference file is not one of the observed files; reasons of refusal. Grants hold a path with a "/" in
front against the contract's patterns, where an anchored pattern matches nothing, and take an empty list of allowed paths for
"none", where CHECK takes it for "all": `AnchoredRulesUnseenByGrants` and `EmptyAllowIsNoneForGrants` in `MCRuntimeGuard`
state both. An amended contract is other work than the one its grants were made for.

### PathPatterns, BudgetRules, ContractAmendments

A pattern is a sequence of tokens; `matchesPath` runs them as the nondeterministic automaton of the code (`addEmptyTransitions`,
`Advance`). `Denotes` says what the glob language means without an automaton, and `MatcherIsTheGlob` in `MCBaselineCheck`
compares the two on all paths of up to three characters and patterns of up to three tokens. `evaluateBudgetCheck` takes a budget,
the rules in force, the changed items and the provenance evidence (which no command passes, so an exceeded limit is for a human).
Cutting patterns, override files and the output of git into tokens and records is left out, and so are reason codes and their
order.

### BaselineCheck

`commits` is HEAD's history, `index` what is staged, `disk` the working tree. The user edits, stages, commits, amends the
contract, rewrites the override file and loses the baseline file between any two reads of a command. START observes (git status),
reads every dirty path, reads every one again, observes again and compares; when something moved it tries again, `MaxAttempts`
times at most. CHECK reads the policy and the baseline, runs its four git commands, which see the tree at different moments,
reads the current value of each entry, projects the baseline and judges. `past`, `moment` and `touched` are not in the code: they
record what the tree was, for the properties.

Abstracted: bytes are model values, and objects with different bytes share no line; ignored paths, submodules and unmerged
paths are left out, as are size limits and the spelling of paths. During a capture nobody puts back bytes that a path held since
it began (a change and its undoing between two reads cannot be seen by any reader). Which of several exact renames git
picks is fixed by `CHOOSE`. Of git's records the parser refuses (`Malformed`) a staged deletion, whose index mode is 000000
(`observe.ts:81`), the status letter T of a change of kind (`observe.ts:50`) and a rename whose target is gone again: START fails,
and such a tree has no baseline. A contract with a baseline is judged against the commit the baseline names; one without
(drafts, legacy contracts) against the text of `base_revision`, which every git command resolves again (`Revision`): a contract
based on `HEAD` follows HEAD. Section 5 lists what this module found.

### RuntimePolicy and RuntimeGuard

`guard` is one evaluation of the permission hook: `ReadState`, `CheckReadsState` and `CheckDecides` (CHECK's own reading; its
decision is arbitrary here, `BaselineCheck` derives it), `ResolveContract` (the third reading, with the first state), then
the operations of the event one by one, each target classified on the disk of that moment, then the authority reference and its
verification. The most restrictive projection and the host's own effect give the answer; an exception denies.

An event names its resources, and a name is not yet a path. `toRepoRelativePath` takes for paths only the names
`looksLikePath` knows (with a slash or an extension of plain characters, not `Makefile` nor `src/[id].ts`; `PathLike` is that
set) and normalises those (`Meaning`, or `Outside`); any other name leaves the operation without a path, and it is then held
against no allow, deny or sensitive rule. Of a shell command only the first word that looks like a path becomes its target
(`extractCommandContext`); an event without resources is one empty command, an unresolved mutation. Rules whose patterns do not
compile match nothing. A command line's class, and cutting it into words, are inputs (`Events`).

### Integration

The wrapper is a marker and a body. A write is what `writeFile` does: open and truncate (`Torn`), write at the start of the file,
and only then, in steps of their own, the end of `installIntegration` (`Ended`) and the command's answer (`Answer`): `integrate`
exits, `update` weighs the exit of its child. Between any two of them other shells open, truncate, write and unlink the same
path: two writers may leave the end of the longer content (`Spliced`), and one whose file is unlinked or replaced meanwhile
writes into a file that has no name (`writeUnlinked`). The child of an update is killed after 15 seconds (`TimesOut`), and goes on as
an install nobody waits for when its parent dies (`Dies`). npm, the registry, other releases and the user, who may write in
place or rename a file over the wrapper, are the environment; `NpmInstall` may fail with or without its effect, every call may
fail and a process may die anywhere. No command takes a lock. `disturbed` and `abandoned` are not in the code: they record
whose looks are no longer true, and whether the file is empty because a write was given up.

Abstracted: the user's write is one step, the ownership an `update` sees is held against the running package's root as in the
code, and the processes npm itself starts are part of `NpmInstall`. Two consequences that no document excludes: an `update` whose
discovery is old can install over a newer global package, and an `update` that installed nothing answers 0 for a refresh that is
refused because the guard is not compiled.

## 3. Runs

| Run | Question | Bounds |
|---|---|---|
| `lifecycle_safety` | do the files, their history and the locks stay coherent through any interleaving, two failures or crashes, and do they refine one-contract-at-a-time? | 2 processes, 2 contracts, 2 scopes, 5 audit records, 2 faults |
| `lifecycle_live` | is every pending record settled and does every command end? | 2 processes, 2 contracts, 2 scopes, 3 records, 1 fault |
| `lifecycle_halfclose` | does running CLOSE again reconcile a half-done CLOSE? (no) | 1 process, 1 contract |
| `lifecycle_orphan` | is an orphan contract of a dead START removed? (no) | 1 process, 2 contracts |
| `lock_recovery` | does recovery ever take a live lock, lose a removal, or report a false one? | 4 processes, 1 not probeable |
| `envelope` | do overlapping CHECKs, proposals, AMEND and CLOSE keep the envelope? | 2 processes, 2 criteria, 2 items, 4 proposals, 2 envelopes, 1 fault |
| `envelope_replay` | is a recorded decision returned when it is proposed again? (no) | the same |
| `authority` | does an accepted use stay on record, a one-shot grant get used once, the registry stay readable, an uncertain commit freeze it? | 2 repositories, 2 processes, a one-shot and a reusable grant, limit 1 grant, 3 audit records, 1 contract revision, 1 fault |
| `authority_live` | does every call end, whatever locks are left behind? | 1 repository, 2 processes, 1 grant, 2 audit records, 1 fault |
| `check` | is a baseline one moment of the tree, does no kept change escape CHECK, is nothing inherited charged, are a contract's own histories accepted? | 2 paths, 4 objects (two files, an executable, a link), 8 initial trees, 2 contracts, 4 amendments, 2 override files, 2 attempts, 2 commits, 2 steps of the user |
| `guard` | does the guard allow a change of what it takes for a path only under one active contract, and is a grant verified on one moment? | 1 lifecycle process, 2 contracts, 4 paths under 6 names, 2 initial disks, 4 audit records, 2 registry writes, 1 edit, of these at most 4 together |
| `integration` | does what a command that answers 0 did still stand as it answers, and is an empty wrapper one somebody writes or gave up writing? | 2 shells, 2 package roots in 3 layouts, versions 1.0, 1.1, 2.0, 2 steps of the user |

Why the bounds suffice for the questions: two processes already produce every pair of overlapping commands; two contracts
let one govern after, and be confused with, another; five records hold two complete commands, an aborted one and a
pending one; two faults let the recovery of a first crash crash itself. In the lock model, an owner, a contender that creates
the next lock, a recovery and a process that cannot be probed are four. The envelopes declare a HARD and a SOFT limit, and the
four proposals meet every verdict, two of them under one identifier. In the registry, two repositories hold different state
locks, so their calls meet at the registry lock alone; three records hold a creation, a use and a revocation, and two calls
race for the last record and for the only grant the limit leaves. `Permutations` of processes and of repositories are the
symmetry of `authority`: no definition tells two of either apart. In `check`, two paths are a rename, a dirty path beside a
clean one, and an edit of one while the other is read; two steps of the user fall between any two of the reads, or undo
each other through the index; the initial trees are a clean one, one for each way in which START records a path (modified, staged,
untracked file, untracked link, staged rename, deleted) and one it refuses (removed from the index only). In `guard`, four changes beneath the hook let a contract
close and another start between two of its readings. In `integration`, two shells give every overlap of two commands, and
the layouts hold a guard that is not compiled and a root other than npm's global one. The contracts of `guard` and the shells
of `integration` are symmetric.

`lock_recovery` does not check deadlock: each process runs once, and a lock left by a dead process may stay. Nor do the
authority runs: grants expire, limits are reached and a lock left behind stays, so calls may become impossible.

Properties, with the hazard each is for: `LedgerExplainsFiles` (replaying the history gives the files), `WriteAhead`,
`AuditHistoryKept` (old copies written back), `GovernedArtifactsKept` (START's cleanup), `AtMostOnePending`,
`PointerCoherent`, `StateLockExcludes`, `RefinesAbstract`, `PendingSettles`, `CommandsEnd`; `Exclusive`, `LiveLockKept`,
`RemovalRecorded`, `RecoveredMeansGone`; `SatisfiedIffComplete`, `LedgerWithinAuthority`, `AnsweredIsRecorded`,
`GrantsOnlyShrink`; `AcceptedOnRecord` (answers against the durable record), `SnapshotValid` (no sequence of calls makes the
registry unreadable), `GrantsLocated`, `FreshWhenRecorded` (decided on a copy, recorded later), `RetainedLockFreezes`,
`CallsEnd`; `BaselineIsOneMoment` (a capture torn by edits), `KeptChangesJudged` (a change hidden by staging, committing,
renaming, or by reads of different moments), `InheritedExcluded`, `OwnHistoryAccepted` (legal amendments that corrupt the
contract, or add a path it still does not allow); `AllowedUnderOneContract` (three unlocked readings of two files), `VerifiedWasSettled` (a judgement on a mixture of
files); `SuccessStands` (a wrapper unlinked, truncated or half written between
a write and its answer), `TornMeansAbandoned`. Each module has a type invariant; the run of `integration` leaves its
to the proof.

## 4. Fairness

Liveness is checked under weak fairness of each process's steps (a running command keeps running), of the start of commands
(`BeginInit`: somebody uses the tool) and of `RecoverStateLock` (the operator runs `recover` on a lock whose owner is dead).
The two refuted promises are checked under `RetrySpec`, which adds strong fairness of starting CLOSE and START, since
"re-run close" is what the message asks for. No fairness is assumed of faults.
`CallsEnd` of the authority service needs only that a running call keeps running (`WF_vars(Step(p))`): no call waits for a
lock, it fails on it.

`PendingSettles` excludes three leftovers the code itself refuses to judge: a half-done CLOSE, an orphan candidate, and a
contract lock of a dead process that recovery needs. The first two are the findings below.

## 5. Where the code and its documents disagree

1. `HalfCloseReconciles`: `reliability-guarantees.md:21` and the message of `contracts.ts:171` say that running `close` again
   reconciles a CLOSE stopped between its two writes. Its pending record is judged uncertain and refuses every command.
2. `OrphanContractRemoved`: `data-model.md:26` of spec 008 says an active contract no state references is removed
   deterministically. A START that dies after writing its contract leaves it for good.
3. `ReplayReturnsRecorded`: `data-model.md:43` of spec 014 says an identical proposal replays its result. It is evaluated again
   and can be answered DEFER where REPLACE is on record.

Seen while modelling and stated in the models, without a run of its own. As an INVARIANT or PROPERTY of `MCBaselineCheck.cfg` or
`MCIntegration.cfg` each named property gives TLC's counterexample; those of the guard are `ASSUME`s of `MCRuntimeGuard`, which
TLC evaluates in the run `guard`:

- `DirtyTreeObserved` (`BaselineCheck`): spec 013 has START work on any dirty tree, deletions and changes of kind included
  (`spec.md:63` and `64`, scenarios 3 and 4; `143`, FR-001; `150`, FR-008; `187`, FR-030). A staged deletion and a change of kind are
  records the parser refuses (`observe.ts:81` and `50`): START fails with `GitOutputError`, also after `git rm --cached` of a file
  that is kept. So no baseline ever records one, and `BaselineIsOneMoment` and `InheritedExcluded` say nothing of them.
- The base of a draft or legacy contract is a text (`check.ts:602` and `733`, `diff.ts:468-470`), where `plan.md:84` of spec 001 and
  `data-model.md:13` of spec 002 speak of the commit the contract starts from: based on `HEAD`, a change that is committed is no longer a
  change. `KeptChangesJudged` holds against the base as it is when the CHECK runs.
- `UnchangedNeverCharged` (`BaselineCheck`): `spec.md:187` of spec 013 says an unchanged pre-existing symlink is excluded. START
  records no mode for an untracked path, CHECK gives a link the mode 120000, and the two differ: the link is charged.
- `EveryDeltaFound` (`BaselineCheck`): `spec.md:146` and `149` of spec 013 say that every delta of a pre-existing entry is found,
  of its mode too. An untracked file's mode is compared with none and a `chmod` is not found.
- `UnrecognisedNamesUnjudged` and `LaterWordsUnjudged` (`MCRuntimeGuard`): `spec.md:202` of spec 004 (FR-007, and SC-002) says that a
  denied or out-of-scope path MUST be blocked. Under a name `looksLikePath` does not know it is allowed while CHECK says PASS, and
  so is the second path of a command. `spec.md:205` (FR-010) protects `.changebudget/**` before initialisation too; the projection
  allows everything where nothing is initialised.
- `BrokenPatternsAsk` (`MCRuntimeGuard`): a path is asked about, not blocked, when the contract's patterns do not compile.
- `UsersFilesSurvive` (`Integration`): `spec.md:19` of spec 009, its SC-003, FR-010, SC-005 and SC-006, and `README.md:141` say that user
  content is never overwritten or removed. A file that comes to stand at the wrapper's path after a command's look is emptied or
  unlinked, and one put into the directory after it was found empty goes with it. `UsersFilesKept` proves what is left of it.
- `RefreshedMeansWritten` (`Integration`): `progress.ts:102` prints "Integration refreshed" and `README.md:127` says so.
  `update.ts:95-97` drops the answer of `installIntegration`, which may have refused (guard not compiled, or the wrapper became the
  user's meanwhile), and nobody looks at the file again.
- `NoPartialWrapper` (`Integration`): `opencode-integration-contract.md:53` of spec 009 says there is no partial state. A write that
  is given up leaves an empty file, which every later command takes for the user's and refuses.
- Story 3 of spec 009 (scenario 2) says that a removal takes `.opencode/` too; the code removes `plugins/` only.
- Contradicting no sentence of the repository: the source of a rename staged before START gets no entry, so its deletion is
  charged and putting it back is not (`RenameSourceCharged`); the two readings of path rules by grants above.

## 6. Proofs

| Theorem | Says |
|---|---|
| `Lifecycle_proofs!TypeCorrect`, `StateLockExclusion`, `PointerCoherence` | shape; at most one command inside the state lock; with nothing pending, pointer, contracts and baselines agree |
| `Lifecycle_proofs!WritesAreAhead`, `HistoryIsKept`, `GovernedIsKept`, `OneIsPending`, `LifecycleRefines` | nothing is written but under a pending record; the history only grows; what governed is kept; one record is pending at most; the refinement of `LifecycleAbstract` |
| `LifecycleLedger_proofs!LedgerExplains` | with no record pending, replaying the audit history gives the state file and every contract file |
| `LockRecovery_proofs!RecoveryTypes`, `RecoveryExcludes`, `RecoveryKeepsLiveLocks`, `RemovalIsRecorded`, `RecoveredLocksAreGone` | shape and the four safety properties of lock recovery |
| `ExecutionEnvelope_proofs!TypeCorrect`, `SatisfactionIsEarned`, `LedgerStaysWithin`, `AnswersAreRecorded`, `GrantsNeverGrow`, `EnvelopeRefines` | all the properties of the `envelope` run, the refinement included |
| `AuthorityRegistry_proofs!RegistryTypeOK`, `RegistryAcceptedOnRecord`, `RegistryFreezes`, `RegistryFresh`, `RegistryLocated`, `RegistrySnapshotValid`, `RegistryRefines` | all the properties of the `authority` run, the refinement of `AuthorityAbstract` included |
| `RuntimeGuard_proofs!GuardTypes`, `VerifiedIsSettled`, `AllowedIsUnderOneContract` | all the properties of the `guard` run |
| `BaselineCheck_proofs!BaselineCheckTypes`, `BaselineOfOneMoment`, `ChangesJudged`, `InheritedNotCharged`, `HistoriesAccepted` | all the properties of the `check` run |
| `BaselineCheck_proofs!PassIsFits`, `PassIsMonotone`, `AmendKeepsPass` | PASS is exactly what the contract says of the items; undoing changes, and amendments that lower no limit, keep it |
| `BaselineCheck_proofs!MatcherIsTheGlob` | the automaton that matches paths accepts what the glob language denotes, whatever the length |
| `Integration_proofs!IntegrationTypes`, `SuccessHolds`, `TornIsAbandoned`, `UsersFilesKept` | shape, the properties of the `integration` run, and that a file that stands at a command's last look is not lost to it |

They hold for every set of processes, contracts, scopes, criteria, proposals, paths, objects and versions, and for any number of
faults and steps of the user, under the `ASSUME`s of the modules: sentinels are not members of the sets they stand beside;
limits, line counts and versions are naturals; there are finitely many paths; an object is its kind, mode and bytes, and exactly
the links have a link's mode (`BaselineAssumption`); START is given a contract with no amendments yet (INIT writes none), and a
request names naturals and paths (`AmendRequest`); a path has a length (`PathAssumption`); a name the guard takes for a path means a path
or something outside the repository (`PolicyAssumption`).

*Lifecycle.* `PointerCoherent` is not inductive: while a record is pending the files are between two states. `Inductive`
(in `Lifecycle`) says, for each `pc`, which prefix of its writes the command inside the lock has done and what its pending
record says; with nobody inside, it says that the files are coherent or that one pending record explains them. The proof
has one lemma per action group and the state lock's exclusion is what lets a step look at one process only.

*LockRecovery.* The invariant ties what a recovery observed (inode and owner) to the file at the path: while the observed owner
is dead or the file is unfilled with nobody to fill it, nothing else can be at that path.

*ExecutionEnvelope.* The contract's lock makes the copy read under it the current one; ledger entries were within the envelope's
authority when made and the authority never changes; `MergedEvidence` only adds.

*AuthorityRegistry.* `AcceptedOnRecord` is not inductive: it needs that the event of the use about to be answered is the last
of the registry and no answer names it yet. `Local` says it through the lock: a call past `acquireLock` owns the lock, the copy
it decided on is the file until it replaces it, and the file is its own proposal from then to the release. `ConsumedOnce` (a
consumption is recorded once and its grant is consumed since) makes the one-shot case follow. Crashes and uncertain commits
turn the lock into `Left`, which no action takes.

`SnapshotValid` is strengthened by `Accounted` (each turn of a grant has one event), `SortedUses` (uses before the revocation) and
`Bound` (the repository of a grant is bound); `GrantsLocated` by the fact that a call past `Locate` has seen or written its
locator (`LocatorsKept`), for nothing removes one.

*The lifecycle's history* (second half of `Lifecycle_proofs`). `Kept` adds to `Inductive`: one record is pending at most
(`OnePending`); the last closed contract is closed on file (`LatestClosed`); the file the pointer names was written
(`ActiveWritten`) and files carry the scope of a request (`Scoped`); and a command inside the lock knows its candidate not to be
closed, the phase, and its own request (`Held`). Each of the action properties then looks at one kind of step: appends, settlements and writes.

*The ledger* (`LifecycleLedger_proofs`). `Ledger` has four parts. `Told`: the history can be replayed, and each view it
leads to explains the files (`Explains`); while the last record is pending, `Half` says for its operation which of the
files may already hold the new value. `TailPending`: only the last record is pending. `Baselined`: a contract file and its
baseline exist together, but for a START under way. `Records`: what a command knows of its own record and of the files it
is about to write. A settlement takes its outcome from the evidence on disk, and `EvidenceIsRight` is the heart of the
proof: where it says applied, all the files of the record are written, where it says not applied, none is. The replay is a
recursive function of the history's length, but no induction is needed: `ViewOf` says that some function with that
recursion ends in the view, and a step appends one record (`AppendedView`) or settles the last one (`SettledView`).

*RuntimeGuard.* `GuardInv` says, for each phase, what the earlier readings were: the scope read last belongs to the contract seen
first, and `Past` that a contract once seen active is active or closed for good, never another's. So a decision PASS of CHECK and a
scope that resolves are of one contract. For the verification, `Steady` says that what has been read is still
on file, or that the change shows: while no record is pending every change of the lifecycle's files appends a record, and every
change of the registry raises its revision, so a later look that finds a file as read proves that nothing moved before. `EventsAssumption`
(an event's operations are of the classes the module lists) is the one assumption about inputs.

*BaselineCheck, the capture.* `BaselineIsOneMoment` speaks of an instant at which no step of START looks at the tree. `Captured`
says, for each phase, what the values read so far were: objects the path held since START began (`past`); and what a path held
and no longer holds does not come back (`PastIsGone`, from the user's guard `Returns`). So what the first pass saw and is no longer there at
`moment` never returns (`FirstLook`, `FirstRead`), and what the second pass sees that differs from `moment` came after it
(`SecondRead`): equal readings in both are `moment`. Paths nobody reads are settled by the records of
`git status` agreeing: without a record a path is HEAD's, or the source of a staged rename. Of the renames git chooses the proofs use only that
they are pairs of paths with the same bytes.

*BaselineCheck, the judgement.* `Checked` says that what each git command returned stays true of the paths the user has not
touched since: such a path is in `names` if it differs from the revision, in `others` if it is untracked, and each value read is
still on disk. The commands see different moments of the tree, and it is enough that each is right about untouched paths. `ProjectedItems`
carries this through `projectBaselineChanges`, where `EntryCompares` says what `entryEquals` decides. `PassIsFits` unfolds the verdict:
with the evidence commands pass no limit is ever HARD, an exceeded one asks for a human, and PASS is left to trees that fit.

*BaselineCheck, the contract.* `ContractKept` adds to the histories' validity that the paths they name are allowed now:
an amendment adds only paths that are not denied, denials never change, and a contract with an empty allow list (which allows
all) takes no path. `AmendKeepsPass` rests on the same: `allow` grows from a list that was not empty, never from the empty one.

*Data of any length.* Three results need induction, and get it as a least counterexample (`WFMin`, with the library's
well-founded orders on naturals and on finite subsets): the states of the glob automaton after `k` tokens (`MatcherIsTheGlob`),
the lines counted by a fold (`LinesCounted`: the sum is the cardinality of a set of lines, so that fewer items are fewer
lines), and the newest of finitely many versions (`GreatestNatural`).

*Integration.* `Knows` says what a command remembers at each `pc`: one about to open, write or unlink the wrapper last saw no
file of the user's there, one about to remove the directory saw both files gone, and an update knows its target to be of its own
major and newer (`SelectedIsCompatible`). `Holds` says what a command may rely on while nobody disturbs it: a refresh that its
wrapper is managed or about to be written as it wants it, a writer and an installation that is over that the wrapper stands, a
removal that none is there. It is kept by the command's own steps (`OwnHolds`) and by those of others that agree with it or
leave the wrapper alone (`OthersHold`, for which a writer that goes on counts as well as what it writes); who relies on nothing holds
all of it (`OnlyRelying`). `SuccessHolds` is then about the two steps that answer 0 (`InstallStands`, `RemovalStands`), and
`UsersFilesKept` about those that write or unlink (`StepLoses`).

Only model-checked: the three liveness properties (`PendingSettles`, `CommandsEnd`, `CallsEnd`), which need fairness and so ENABLED.
The two spec sentences refuted in `lifecycle_*` and the one in `envelope_replay` are runs, not theorems.

## 7. Plan

All components with state are modelled, some in part (section 2 says what each leaves out). What would come next: the identity and times of pinned files in
`AuthorityObservation`; CHECK's own verdict inside `RuntimeGuard` in place of an arbitrary one; that what `EnvelopeAbstract` and
`AuthorityAbstract` promise is kept by the two of them together; that the order in which items are judged does not matter to
the reasons CHECK gives.

Not modelled, and why:

- the diagnose advisor: advice computed from the counts of a diff, no state and nothing depends on it;
- the Spec Kit task bridge, CLI parsing, help and output: text in, text out;
- Git access and npm: external programs, modelled by what the code asks of them where it does;
- build and release scripts, generated `dist`: not part of the running program;
- the identity of the `changebudget` executable in the guard (`first-party-identity.ts`) and the cutting of shell
  commands into words: inputs of `RuntimeGuard`, which takes the class of a command and its words as given;
- the schema migration of old state files, byte limits and the physical identity of repositories.
