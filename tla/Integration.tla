------------------------------ MODULE Integration ------------------------------
(***************************************************************************)
(* The OpenCode integration and the self-update.  `integrate opencode`       *)
(* writes or removes one file of the project, the wrapper that loads the     *)
(* guard of a ChangeBudget package; `update` installs a newer package and    *)
(* refreshes the wrapper.  No command takes a lock: commands of other         *)
(* shells and the user come between any two of a command's looks and writes. *)
(*                                                                         *)
(* The wrapper's content is its marker line and the package root its URL     *)
(* points into.  npm, the registry and the file system are external.         *)
(***************************************************************************)
EXTENDS Naturals, FiniteSets

CONSTANTS
    Procs,             \* the shells that run commands
    Roots, Global,     \* where packages are installed; where npm --global installs
    Versions,          \* what is ever published: [major, minor]
    InitialPackages,   \* [Roots -> [version, guard]]: guard is its compiled entry
    InitialPublished,
    NoVersion, NoRoot,
    Missing,           \* no such file
    Torn,              \* the body of a file opened for writing and not written yet
    MaxEdits           \* bound: what the user does to the project's files

ASSUME IntegrationAssumption ==
    /\ Global \in Roots
    /\ Versions \subseteq [major : Nat, minor : Nat]
    /\ InitialPublished \subseteq Versions /\ IsFiniteSet(InitialPublished)
    /\ InitialPackages \subseteq
           [Roots -> [version : Versions \cup {NoVersion}, guard : BOOLEAN]]
    /\ Missing \notin [marker : BOOLEAN, body : Roots \cup Nat \cup {Torn}]
    /\ Torn \notin Nat
    /\ MaxEdits \in Nat

VARIABLES
    package,     \* the installed packages
    published,   \* the versions the registry lists
    wrapper,     \* .opencode/plugins/changebudget.js
    plugin,      \* another file of that directory, the user's
    directory,   \* whether .opencode/plugins exists
    edits,       \* what the user has done so far
    pc, job,     \* the commands
    disturbed,   \* the commands under whose feet the wrapper has changed since they looked
    abandoned    \* whether the wrapper is empty because a write was given up

project == <<wrapper, plugin, directory>>
world == <<package, published, edits>>
kept == <<disturbed, abandoned>>
integrationVars == <<package, published, wrapper, plugin, directory, edits, pc, job, kept>>

NoJob == [command |-> "none", root |-> NoRoot, current |-> NoVersion, target |-> NoVersion,
          updated |-> FALSE, guarded |-> FALSE, saw |-> Missing, sawPlugin |-> Missing,
          outcome |-> "none", code |-> 0]

---------------------------------------------------------------------------
(* The wrapper and who it belongs to                                        *)

generateWrapperContent(root) == [marker |-> TRUE, body |-> root]
TornFile == [marker |-> FALSE, body |-> Torn]
\* The beginning of what one writer wrote and the end of what another did.
Spliced == [marker |-> TRUE, body |-> Torn]

detectOwnership(file, root) ==
    IF file = Missing THEN "MISSING"
    ELSE IF ~file.marker THEN "CONFLICT"
    ELSE IF file = generateWrapperContent(root) THEN "MANAGED_CURRENT" ELSE "MANAGED_STALE"

detectOwnershipForRemoval(file) ==
    IF file = Missing THEN "MISSING" ELSE IF file.marker THEN "MANAGED_CURRENT" ELSE "CONFLICT"

---------------------------------------------------------------------------
(* Which version to install                                                 *)

compareSemVer(v, w) ==
    IF v.major = w.major THEN v.minor > w.minor ELSE v.major > w.major

\* The newest version of the running package's major, when it is newer.
determineUpdateCheckResult(current, versions) ==
    LET compatible == {v \in versions : v.major = current.major /\ compareSemVer(v, current)}
    IN IF compatible = {} THEN NoVersion
       ELSE CHOOSE v \in compatible : \A w \in compatible : v = w \/ compareSemVer(v, w)

---------------------------------------------------------------------------
(* A command goes on, or answers                                             *)

GoOn(p, next, record) ==
    /\ pc' = [pc EXCEPT ![p] = next]
    /\ job' = [job EXCEPT ![p] = record]

Return(p, code) == GoOn(p, "done", [NoJob EXCEPT !.code = code])

\* mutant: a refresh that fails without an update is no failure of the command
refreshCode_Swallowed(updated, outcome) == IF updated /\ outcome # "READY" THEN 4 ELSE 0
\* After an update the refresh is a process of its own, and its exit code counts;
\* without one, it is a call that may throw and whose result is not looked at.
refreshCode(updated, outcome) ==
    IF outcome = "READY" \/ (~updated /\ outcome = "NEEDS_ATTENTION") THEN 0 ELSE 4

\* UNKNOWN is an error of the file system that nothing has wrapped.
exitCode(outcome) ==
    CASE outcome = "READY" -> 0 [] outcome = "NEEDS_ATTENTION" -> 2
      [] outcome = "ERROR" -> 4 [] outcome = "UNKNOWN" -> 10

\* installIntegration is over; the command has not answered.
Ended(p, record, outcome) == GoOn(p, "ended", [record EXCEPT !.outcome = outcome])

\* `integrate` exits, `update` weighs what its call or its child came to.
Answer(p) ==
    /\ pc[p] = "ended"
    /\ Return(p, IF job[p].command = "update" THEN refreshCode(job[p].updated, job[p].outcome)
                 ELSE exitCode(job[p].outcome))
    /\ UNCHANGED <<world, project>>

Begin(p, command, root) ==
    /\ pc[p] \in {"idle", "done"}
    /\ package[root].version # NoVersion
    /\ GoOn(p, CASE command \in {"install", "dry-run"} -> "guard"
                 [] command = "remove" -> "removeLook"
                 [] command \in {"update", "update --check"} -> "discoverVersions",
            [NoJob EXCEPT !.command = command, !.root = root, !.current = package[root].version])
    /\ UNCHANGED <<world, project>>

---------------------------------------------------------------------------
(* integrate opencode, --dry-run: inspectIntegration, then the write         *)

InspectGuard(p) ==
    /\ pc[p] = "guard"
    /\ GoOn(p, "inspect", [job[p] EXCEPT !.guarded = package[job[p].root].guard])
    /\ UNCHANGED <<world, project>>

InspectWrapper(p) ==
    /\ pc[p] = "inspect"
    /\ UNCHANGED <<world, project>>
    /\ LET seen == [job[p] EXCEPT !.saw = wrapper]
           state == detectOwnership(wrapper, seen.root)
       IN CASE seen.command = "dry-run" -> Return(p, 0)
            [] seen.command # "dry-run" /\ (~seen.guarded \/ state = "CONFLICT") ->
                   Ended(p, seen, "NEEDS_ATTENTION")
            [] seen.command # "dry-run" /\ seen.guarded /\ state = "MANAGED_CURRENT" ->
                   Ended(p, seen, "READY")
            [] OTHER -> GoOn(p, "mkdir", seen)

MakeDirectory(p) ==
    /\ pc[p] = "mkdir"
    /\ directory' = TRUE
    /\ GoOn(p, "open", job[p])
    /\ UNCHANGED <<world, wrapper, plugin>>

\* mutant: the write is not awaited, and the process exits without it
OpenWrapper_Unawaited(p) ==
    /\ pc[p] = "open"
    /\ IF directory
       THEN wrapper' = TornFile /\ Ended(p, job[p], "READY")
       ELSE wrapper' = wrapper /\ Ended(p, job[p], "ERROR")
    /\ UNCHANGED <<world, plugin, directory>>
\* Opening for writing empties what stands at the path, whoever wrote it.
OpenWrapper(p) ==
    /\ pc[p] = "open"
    /\ IF directory
       THEN wrapper' = TornFile /\ GoOn(p, "write", job[p])
       ELSE wrapper' = wrapper /\ Ended(p, job[p], "ERROR")
    /\ UNCHANGED <<world, plugin, directory>>

\* Written from the start of the file: the end of what somebody else has written
\* there meanwhile stays, if that is longer.  A file unlinked or replaced since it
\* was opened is written, and is nowhere.
WriteWrapper(p) ==
    /\ pc[p] \in {"write", "writeUnlinked"}
    /\ LET content == generateWrapperContent(job[p].root)
       IN wrapper' \in IF pc[p] = "writeUnlinked" THEN {wrapper}
                       ELSE IF wrapper \in {TornFile, content} THEN {content} ELSE {content, Spliced}
    /\ Ended(p, job[p], "READY")
    /\ UNCHANGED <<world, plugin, directory>>

Installing == {"guard", "inspect", "mkdir", "open", "write", "writeUnlinked"}

\* The wrapper cannot be read, or the directory or the file not be made; a missing
\* guard is no error.
InstallFails(p) ==
    /\ pc[p] \in Installing \ {"guard"}
    /\ IF pc[p] # "inspect" THEN Ended(p, job[p], "ERROR")
       ELSE IF job[p].command = "dry-run" THEN Return(p, exitCode("UNKNOWN"))
       ELSE Ended(p, job[p], "UNKNOWN")
    /\ UNCHANGED <<world, project>>

\* The child that refreshes after an update is killed when its 15 seconds are over.
TimesOut(p) ==
    /\ job[p].updated /\ pc[p] \in Installing \cup {"ended"}
    /\ Return(p, 4)
    /\ UNCHANGED <<world, project>>

---------------------------------------------------------------------------
(* integrate opencode --remove                                              *)

\* Writers that have a file open keep it when it is unlinked or replaced.
Detached(counters) ==
    [q \in Procs |-> IF counters[q] = "write" THEN "writeUnlinked" ELSE counters[q]]

Unlinked(p, next, record) ==
    /\ pc' = [Detached(pc) EXCEPT ![p] = next]
    /\ job' = [job EXCEPT ![p] = record]

RemoveLook(p) ==
    /\ pc[p] = "removeLook"
    /\ UNCHANGED <<world, project>>
    /\ LET seen == [job[p] EXCEPT !.saw = wrapper]
       IN CASE detectOwnershipForRemoval(wrapper) = "MISSING" -> Return(p, 0)
            [] detectOwnershipForRemoval(wrapper) = "CONFLICT" -> Return(p, 2)
            [] OTHER -> GoOn(p, "unlink", seen)

Unlink(p) ==
    /\ pc[p] = "unlink"
    /\ wrapper' = Missing
    /\ IF wrapper = Missing THEN Return(p, 4) ELSE Unlinked(p, "list", job[p])
    /\ UNCHANGED <<world, plugin, directory>>

\* A directory that is gone counts as empty.
ListDirectory(p) ==
    /\ pc[p] = "list"
    /\ UNCHANGED <<world, project>>
    /\ LET seen == [job[p] EXCEPT !.saw = wrapper, !.sawPlugin = plugin]
       IN IF wrapper = Missing /\ plugin = Missing THEN GoOn(p, "rmdir", seen) ELSE Return(p, 0)

\* rm is recursive: what the directory holds by now goes with it.
RemoveDirectory(p) ==
    /\ pc[p] = "rmdir"
    /\ wrapper' = Missing /\ plugin' = Missing /\ directory' = FALSE
    /\ Unlinked(p, "done", NoJob)
    /\ UNCHANGED world

\* The look throws as it is; unlink, readdir and rm throw an error of state.
RemovalFails(p) ==
    /\ pc[p] \in {"removeLook", "unlink", "list", "rmdir"}
    /\ Return(p, exitCode(IF pc[p] = "removeLook" THEN "UNKNOWN" ELSE "ERROR"))
    /\ UNCHANGED <<world, project>>

---------------------------------------------------------------------------
(* update, update --check                                                   *)

DiscoverVersions(p) ==
    /\ pc[p] = "discoverVersions"
    /\ UNCHANGED <<world, project>>
    /\ LET selected == [job[p] EXCEPT !.target =
                            determineUpdateCheckResult(job[p].current, published)]
       IN \/ Return(p, 4)
          \/ CASE selected.command = "update --check" -> Return(p, 0)
               [] selected.command = "update" /\ selected.target = NoVersion ->
                      GoOn(p, "discover", selected)
               [] OTHER -> GoOn(p, "npm", selected)

\* A failing npm may have replaced the package all the same.
NpmInstall(p) ==
    /\ pc[p] = "npm"
    /\ UNCHANGED <<published, edits, project>>
    /\ LET installed == [package EXCEPT ![Global] = [version |-> job[p].target, guard |-> TRUE]]
       IN \/ package' = installed /\ GoOn(p, "verify", job[p])
          \/ package' \in {package, installed} /\ Return(p, 4)

\* The installed command is asked for its version.
NpmVerify(p) ==
    /\ pc[p] = "verify"
    /\ UNCHANGED <<world, project>>
    /\ \/ /\ package[Global].version = job[p].target
          /\ GoOn(p, "discover", [job[p] EXCEPT !.updated = TRUE])
       \/ Return(p, 4)

\* Ownership is held against the package that runs; the refresh is the job of
\* the one just installed.  Without a look, nothing is refreshed.
DiscoverIntegration(p) ==
    /\ pc[p] = "discover"
    /\ UNCHANGED <<world, project>>
    /\ \/ Return(p, 0)
       \/ IF detectOwnership(wrapper, job[p].root) = "MANAGED_STALE"
          THEN GoOn(p, "guard", [job[p] EXCEPT !.saw = wrapper,
                                    !.root = IF job[p].updated THEN Global ELSE @])
          ELSE Return(p, 0)

---------------------------------------------------------------------------
(* The user, the registry, and processes that die                            *)

\* The child of an update outlives it, as an install that nobody asked.
Dies(p) ==
    /\ pc[p] \notin {"idle", "done"}
    /\ \/ GoOn(p, "idle", NoJob)
       \/ /\ job[p].updated /\ pc[p] \in Installing \cup {"ended"}
          /\ GoOn(p, pc[p], [NoJob EXCEPT !.command = "install", !.root = job[p].root,
                                !.guarded = job[p].guarded, !.saw = job[p].saw,
                                !.outcome = job[p].outcome])
    /\ UNCHANGED <<world, project>>

Publish(v) ==
    /\ v \notin published
    /\ published' = published \cup {v}
    /\ UNCHANGED <<package, edits, project, pc, job>>

UserActs ==
    /\ edits < MaxEdits
    /\ edits' = edits + 1
    /\ UNCHANGED <<package, published>>

\* A file of the user's own, or one under the marker line; written in place, or
\* put in the place of what stands there.
UserWrites(marked, replaced) ==
    /\ UserActs
    /\ wrapper' = [marker |-> marked, body |-> edits']
    /\ directory' = TRUE
    /\ pc' = IF replaced THEN Detached(pc) ELSE pc
    /\ UNCHANGED <<plugin, job>>

UserDeletes ==
    /\ UserActs
    /\ wrapper # Missing
    /\ wrapper' = Missing
    /\ pc' = Detached(pc)
    /\ UNCHANGED <<plugin, directory, job>>

UserAddsPlugin ==
    /\ UserActs
    /\ plugin' = [marker |-> FALSE, body |-> edits']
    /\ directory' = TRUE
    /\ UNCHANGED <<wrapper, pc, job>>

Step(p) ==
    \/ \E command \in {"install", "dry-run", "remove", "update", "update --check"}, root \in Roots :
           Begin(p, command, root)
    \/ InspectGuard(p) \/ InspectWrapper(p) \/ MakeDirectory(p) \/ OpenWrapper(p) \/ WriteWrapper(p)
    \/ InstallFails(p) \/ TimesOut(p) \/ Answer(p)
    \/ RemoveLook(p) \/ Unlink(p) \/ ListDirectory(p) \/ RemoveDirectory(p) \/ RemovalFails(p)
    \/ DiscoverVersions(p) \/ NpmInstall(p) \/ NpmVerify(p) \/ DiscoverIntegration(p)
    \/ Dies(p)

---------------------------------------------------------------------------
(* What is kept for the properties                                          *)

\* The commands that have looked at the wrapper and not answered yet.
Relying ==
    {q \in Procs : \/ job[q].command = "remove" /\ pc[q] \in {"unlink", "list", "rmdir"}
                   \/ job[q].command = "update" /\ pc[q] \in Installing \cup {"ended"}
                   \/ /\ job[q].command = "install"
                      /\ pc[q] \in (Installing \ {"guard", "inspect"}) \cup {"ended"}}

\* p writes what q writes, or goes on doing so.
Agrees(p, q) ==
    /\ pc[p] \in {"open", "write"} /\ job[q].command # "remove" /\ job[p].root = job[q].root
    /\ pc'[p] = "write" \/ wrapper' = generateWrapperContent(job[p].root)

\* p changes the wrapper, or gives its write up, other than as q would have it.
Disturbs(p, q) == (wrapper' # wrapper \/ pc[p] = "write") /\ ~Agrees(p, q)

KeepStep(p) ==
    /\ disturbed' = Relying' \cap (disturbed \cup {q \in Procs \ {p} : Disturbs(p, q)})
    /\ abandoned' = (wrapper' = TornFile /\ (abandoned \/ (pc[p] = "write" /\ pc'[p] # "write")))

\* Whatever the user does to the wrapper disturbs.
User ==
    \/ /\ (\E marked, replaced \in BOOLEAN : UserWrites(marked, replaced)) \/ UserDeletes
       /\ disturbed' = Relying /\ abandoned' = FALSE
    \/ UserAddsPlugin /\ UNCHANGED kept

Init ==
    /\ package \in InitialPackages
    /\ published = InitialPublished
    /\ wrapper \in {Missing} \cup {generateWrapperContent(r) : r \in Roots}
    /\ plugin = Missing
    /\ directory = (wrapper # Missing)
    /\ edits = 0
    /\ pc = [p \in Procs |-> "idle"]
    /\ job = [p \in Procs |-> NoJob]
    /\ disturbed = {} /\ abandoned = FALSE

Next ==
    \/ \E p \in Procs : Step(p) /\ KeepStep(p)
    \/ \E v \in Versions : Publish(v) /\ UNCHANGED kept
    \/ User

Spec == Init /\ [][Next]_integrationVars

---------------------------------------------------------------------------
(* Types                                                                   *)

Releases == Versions \cup {NoVersion}
Files == [marker : BOOLEAN, body : Roots \cup Nat \cup {Torn}] \cup {Missing}
Looking == {"guard", "inspect", "removeLook", "unlink", "list", "rmdir",
            "discoverVersions", "npm", "verify", "discover"}
Commands == {"none", "install", "dry-run", "remove", "update", "update --check"}
Outcomes == {"none", "READY", "NEEDS_ATTENTION", "ERROR", "UNKNOWN"}
Jobs == [command : Commands, root : Roots \cup {NoRoot}, current : Releases, target : Releases,
         updated : BOOLEAN, guarded : BOOLEAN, saw : Files, sawPlugin : Files,
         outcome : Outcomes, code : {0, 2, 4, 10}]

\* Every variable has its type, and a file is in a directory that exists, however
\* the directory is removed and made again.
TypeOK ==
    /\ package \in [Roots -> [version : Releases, guard : BOOLEAN]]
    /\ published \subseteq Versions
    /\ wrapper \in Files /\ plugin \in Files
    /\ directory \in BOOLEAN
    /\ wrapper # Missing \/ plugin # Missing => directory
    /\ edits \in Nat
    /\ pc \in [Procs -> Installing \cup Looking \cup {"idle", "ended", "done"}]
    /\ job \in [Procs -> Jobs]
    /\ disturbed \subseteq Procs /\ abandoned \in BOOLEAN

---------------------------------------------------------------------------
(* Properties                                                              *)

Succeeds(p) == pc[p] # "done" /\ pc'[p] = "done" /\ job'[p].code = 0

\* The wrapper is as the package of that root generates it, or another shell is
\* about to write the same.
Standing(root) ==
    \/ wrapper = generateWrapperContent(root)
    \/ wrapper = TornFile /\ \E q \in Procs : pc[q] = "write" /\ job[q].root = root

\* What a command that answers 0 did still stands as it answers, however many other
\* shells refresh the wrapper for the same package at the time: an install and the
\* refresh of a stale wrapper leave it as that package generates it, a removal
\* leaves none, and an update that installed a package installed a newer one of
\* its major.  But for a wrapper that others changed otherwise, or gave up writing,
\* since the command looked; and but for an update that installed nothing, whose
\* refresh is refused where the guard is not compiled.
SuccessStands ==
    [][\A p \in Procs, root \in Roots : Succeeds(p) /\ root = job[p].root =>
          /\ job[p].updated => /\ job[p].target.major = job[p].current.major
                               /\ compareSemVer(job[p].target, job[p].current)
          /\ p \notin disturbed =>
                /\ job[p].command = "remove" => wrapper' = Missing
                /\ pc[p] = "ended" =>
                      \/ Standing(root)'
                      \/ job[p].command = "update" /\ ~job[p].updated /\ ~job[p].guarded]_integrationVars

\* An empty wrapper, which every later command takes for a file of the user's and
\* refuses, is one a shell is about to write, or one whose write was given up: by
\* an error, a death or the 15 seconds of an update.
TornMeansAbandoned ==
    wrapper = TornFile => abandoned \/ \E p \in Procs : pc[p] = "write"

Acts(p) == pc'[p] # pc[p] /\ pc'[p] # "writeUnlinked"
UsersFile(file) == file # Missing /\ ~file.marker /\ file.body # Torn

\* A file of the user's, at the wrapper's path or beside it, is lost to a command
\* only if it was not there when that command last looked.  Such files are lost:
\* see UsersFilesSurvive.
OnlyUnseenFilesAreLost ==
    [][edits' = edits =>
          /\ UsersFile(wrapper) /\ wrapper' # wrapper =>
                 \E p \in Procs : Acts(p) /\ job[p].saw # wrapper
          /\ plugin # Missing /\ plugin' # plugin =>
                 \E p \in Procs : Acts(p) /\ job[p].sawPlugin # plugin]_integrationVars

(* Said of the code, and false.                                              *)

\* No command overwrites or removes a file of the user's: specs/009's spec.md:19,
\* SC-003, FR-010, README.md:141.  (A file that comes to stand there between a
\* command's look and its write, or its rm, is lost.)
UsersFilesSurvive ==
    [][edits' = edits => /\ UsersFile(wrapper) => wrapper' = wrapper
                         /\ plugin # Missing => plugin' = plugin]_integrationVars

\* An update that answers 0 on a stale managed wrapper has refreshed it, as its
\* last line says: progress.ts:102, README.md:127.  (update.ts:95-97 drops the
\* answer of installIntegration, and nobody looks at the wrapper again.)
RefreshedMeansWritten ==
    [][\A p \in Procs, root \in Roots :
          Succeeds(p) /\ root = job[p].root /\ pc[p] = "ended" /\ job[p].command = "update" =>
              Standing(root)']_integrationVars

\* There is no partial state of the integration: contracts/opencode-integration-
\* contract.md:53 of specs/009.  (A write that is given up leaves an empty file.)
NoPartialWrapper == wrapper = TornFile => \E p \in Procs : pc[p] = "write"
=============================================================================
