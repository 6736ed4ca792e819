--------------------------- MODULE Integration_proofs ---------------------------
(***************************************************************************)
(* The properties of Integration, for every set of shells, package roots    *)
(* and versions, and any number of steps of the user.                       *)
(***************************************************************************)
EXTENDS Integration, FiniteSetTheorems, WellFoundedInduction, TLAPS

-----------------------------------------------------------------------------
(* The version an update selects.                                           *)

\* Every nonempty finite set of naturals has a greatest element.
LEMMA GreatestNatural ==
    ASSUME NEW T, T \subseteq Nat, T # {}, IsFiniteSet(T)
    PROVE  \E m \in T : \A n \in T : n <= m
  <1> DEFINE Bad == {U \in FiniteSubsetsOf(Nat) :
                        U # {} /\ \A m \in U : \E n \in U : ~(n <= m)}
  <1>1. SUFFICES ASSUME Bad # {} PROVE FALSE
    BY DEF FiniteSubsetsOf
  <1>2. PICK U \in Bad : \A V \in Bad : ~(<<V, U>> \in StrictSubsetOrdering(Nat))
    BY <1>1, FS_StrictSubsetOrderingWellFounded, WFMin
  <1>3. PICK x : x \in U
    OBVIOUS
  <1> DEFINE V == U \ {x}
  <1>4. V \in FiniteSubsetsOf(Nat) /\ <<V, U>> \in StrictSubsetOrdering(Nat)
    BY <1>3, FS_RemoveElement DEF FiniteSubsetsOf, StrictSubsetOrdering
  <1>5. V \notin Bad
    BY <1>2, <1>4
  <1>6. U \subseteq Nat
    BY DEF FiniteSubsetsOf
  <1>7. CASE V = {}
    BY <1>3, <1>6, <1>7
  <1>8. CASE V # {}
    <2>1. PICK m \in V : \A n \in V : n <= m
      BY <1>4, <1>5, <1>8
    <2> QED
      BY <2>1, <1>3, <1>6
  <1> QED
    BY <1>7, <1>8

\* The versions on offer: finitely many, for the newest one to exist.
Released == published \subseteq Versions /\ IsFiniteSet(published)

Compatible(v, current) == v.major = current.major /\ compareSemVer(v, current)

\* Of the released versions of a major there is a newest one, so an update that
\* selects anything selects a version of its own major that is newer.
LEMMA SelectedIsCompatible ==
    ASSUME Released, NEW current,
           determineUpdateCheckResult(current, published) # NoVersion
    PROVE  /\ determineUpdateCheckResult(current, published) \in Versions
           /\ Compatible(determineUpdateCheckResult(current, published), current)
  <1> DEFINE C == {v \in published : v.major = current.major /\ compareSemVer(v, current)}
             M == {v.minor : v \in C}
             f == [v \in C |-> v.minor]
  <1>1. C \subseteq [major : Nat, minor : Nat] /\ C \subseteq published
    BY IntegrationAssumption DEF Released
  <1>2. C # {}
    BY DEF determineUpdateCheckResult
  <1>3. IsFiniteSet(M) /\ M \subseteq Nat /\ M # {}
    <2>1. IsFiniteSet(C)
      BY <1>1, FS_Subset DEF Released
    <2>2. f \in Surjection(C, M)
      BY DEF Surjection
    <2> QED
      BY <2>1, <2>2, <1>1, <1>2, FS_Surjection
  <1>4. PICK m \in M : \A n \in M : n <= m
    BY <1>3, GreatestNatural
  <1>5. PICK v \in C : v.minor = m
    BY <1>4
  <1>6. \A w \in C : v = w \/ compareSemVer(v, w)
    <2> TAKE w \in C
    <2>1. w.minor <= v.minor /\ v.major = w.major
      BY <1>4, <1>5
    <2>2. v.minor \in Nat /\ w.minor \in Nat
      BY <1>1
    <2>3. v.minor = w.minor => v = w
      BY <1>1, <2>1
    <2> QED
      BY <2>1, <2>2, <2>3 DEF compareSemVer
  <1>7. determineUpdateCheckResult(current, published) \in C
    BY <1>2, <1>6, Zenon DEF determineUpdateCheckResult
  <1> QED
    BY <1>1, <1>7 DEF Compatible, Released

-----------------------------------------------------------------------------
(* Types                                                                    *)

PCs == Installing \cup Looking \cup {"idle", "ended", "done"}

\* The types of what the program reads and writes.
Shape ==
    /\ package \in [Roots -> [version : Releases, guard : BOOLEAN]]
    /\ published \subseteq Versions
    /\ wrapper \in Files /\ plugin \in Files
    /\ directory \in BOOLEAN
    /\ wrapper # Missing \/ plugin # Missing => directory
    /\ edits \in Nat
    /\ pc \in [Procs -> PCs]
    /\ job \in [Procs -> Jobs]

\* What a writer has opened is still there, and the releases are finitely many.
Placed ==
    /\ Released
    /\ \A p \in Procs : pc[p] = "write" => wrapper # Missing
Typed == Shape /\ Placed

\* A command's own step: the others stay where they are.
LEMMA OwnStep ==
    ASSUME Shape, NEW p \in Procs, NEW next \in PCs, NEW record \in Jobs,
           GoOn(p, next, record)
    PROVE  /\ pc' \in [Procs -> PCs] /\ pc'[p] = next
           /\ job' \in [Procs -> Jobs] /\ job'[p] = record
           /\ \A q \in Procs \ {p} : pc'[q] = pc[q] /\ job'[q] = job[q]
  BY DEF Shape, GoOn

\* The same for a step that unlinks the wrapper under other writers.
LEMMA UnlinkStep ==
    ASSUME Shape, NEW p \in Procs, NEW next \in PCs, NEW record \in Jobs,
           Unlinked(p, next, record)
    PROVE  /\ pc' \in [Procs -> PCs] /\ pc'[p] = next
           /\ job' \in [Procs -> Jobs] /\ job'[p] = record
           /\ \A q \in Procs \ {p} :
                 /\ job'[q] = job[q]
                 /\ pc'[q] = IF pc[q] = "write" THEN "writeUnlinked" ELSE pc[q]
  BY DEF Shape, Unlinked, Detached, PCs, Installing

LEMMA NoJobType == NoJob \in Jobs
  BY DEF NoJob, Jobs, Files, Releases, Commands, Outcomes

-----------------------------------------------------------------------------
(* What a command knows from its looks                                       *)

Searching == {"discoverVersions", "npm", "verify", "discover"}
Removing == {"removeLook", "unlink", "list", "rmdir"}
Writing == {"mkdir", "open", "write", "writeUnlinked"}

Knows(p) ==
    /\ pc[p] \notin {"idle", "done"} => job[p].root \in Roots
    /\ pc[p] \in Installing => job[p].command \in {"install", "dry-run", "update"}
    /\ pc[p] \in Writing \cup {"ended"} => job[p].command \in {"install", "update"}
    /\ pc[p] \in Writing => ~UsersFile(job[p].saw)
    /\ pc[p] = "unlink" => job[p].saw # Missing /\ job[p].saw.marker
    /\ pc[p] = "rmdir" => job[p].saw = Missing /\ job[p].sawPlugin = Missing
    /\ pc[p] \in Removing => job[p].command = "remove"
    /\ pc[p] \in Searching => job[p].command \in {"update", "update --check"}
    /\ pc[p] \in {"npm", "verify", "discover"} => job[p].command = "update"
    /\ pc[p] \in {"discoverVersions", "npm", "verify"} => ~job[p].updated
    /\ pc[p] \in {"npm", "verify"} \/ job[p].updated => Compatible(job[p].target, job[p].current)
    /\ job[p].updated => job[p].command = "update"
    /\ pc[p] = "ended" => job[p].outcome # "none"

Known == Typed /\ \A p \in Procs : Knows(p)

\* Whom a step of p leaves alone knows what it knew.
Left(p) ==
    \A q \in Procs \ {p} :
        /\ job'[q] = job[q]
        /\ pc'[q] = pc[q] \/ (pc[q] = "write" /\ pc'[q] = "writeUnlinked")

LEMMA OthersKnow ==
    ASSUME Known, NEW q \in Procs, job'[q] = job[q],
           pc'[q] = pc[q] \/ (pc[q] = "write" /\ pc'[q] = "writeUnlinked")
    PROVE  Knows(q)'
  <1>1. Knows(q)
    BY DEF Known
  <1>2. CASE pc'[q] = pc[q]
    BY <1>1, <1>2 DEF Knows
  <1>3. CASE pc[q] = "write" /\ pc'[q] = "writeUnlinked"
    BY <1>1, <1>3 DEF Knows, Searching, Writing, Removing, Installing
  <1> QED
    BY <1>1, <1>2, <1>3

\* A step of p to its next record.
LEMMA GoOnLeaves ==
    ASSUME Known, NEW p \in Procs, NEW next \in PCs, NEW record \in Jobs,
           GoOn(p, next, record)
    PROVE  /\ pc' \in [Procs -> PCs] /\ pc'[p] = next
           /\ job' \in [Procs -> Jobs] /\ job'[p] = record
           /\ Left(p)
  BY OwnStep DEF Known, Typed, Left

LEMMA AnswerKnows ==
    ASSUME Known, NEW p \in Procs, NEW code \in {0, 2, 4, 10}, Return(p, code)
    PROVE  /\ pc' \in [Procs -> PCs] /\ pc'[p] = "done"
           /\ job' \in [Procs -> Jobs] /\ job'[p].code = code
           /\ Left(p) /\ Knows(p)'
  <1> DEFINE answer == [NoJob EXCEPT !.code = code]
  <1>1. answer \in Jobs /\ answer.code = code /\ ~answer.updated
    BY NoJobType DEF Jobs, NoJob
  <1>2. /\ pc' \in [Procs -> PCs] /\ pc'[p] = "done"
        /\ job' \in [Procs -> Jobs] /\ job'[p] = answer
        /\ Left(p)
    <2>1. GoOn(p, "done", answer)
      BY DEF Return
    <2> HIDE DEF answer
    <2> QED
      BY <1>1, <2>1, GoOnLeaves DEF PCs
  <1> QED
    BY <1>1, <1>2 DEF Knows, Writing, Searching, Removing, Installing

\* The end of an installation.
LEMMA EndedKnows ==
    ASSUME Known, NEW p \in Procs, NEW record \in Jobs, NEW outcome \in Outcomes \ {"none"},
           Ended(p, record, outcome),
           record.root \in Roots, record.command \in {"install", "update"},
           record.updated => /\ Compatible(record.target, record.current)
                             /\ record.command = "update"
    PROVE  /\ pc' \in [Procs -> PCs] /\ pc'[p] = "ended"
           /\ job' \in [Procs -> Jobs]
           /\ job'[p].outcome = outcome /\ job'[p].root = record.root
           /\ job'[p].command = record.command /\ job'[p].guarded = record.guarded
           /\ Left(p) /\ Knows(p)'
  <1> DEFINE over == [record EXCEPT !.outcome = outcome]
  <1>1. /\ over \in Jobs /\ over.outcome = outcome /\ over.root = record.root
        /\ over.command = record.command /\ over.guarded = record.guarded
        /\ over.target = record.target /\ over.current = record.current
        /\ over.updated = record.updated
    BY DEF Jobs
  <1>2. GoOn(p, "ended", over)
    BY DEF Ended
  <1> HIDE DEF over
  <1>3. /\ pc' \in [Procs -> PCs] /\ pc'[p] = "ended"
        /\ job' \in [Procs -> Jobs] /\ job'[p] = over
        /\ Left(p)
    BY <1>1, <1>2, GoOnLeaves DEF PCs
  <1>4. Knows(p)'
    BY <1>1, <1>3 DEF Knows, Writing, Searching, Removing, Installing
  <1> QED
    BY <1>1, <1>3, <1>4

-----------------------------------------------------------------------------
(* The steps of a command                                                   *)

\* A step of p that leaves the files as they are.
LEMMA LookKnows ==
    ASSUME Known, NEW p \in Procs, UNCHANGED <<world, project>>,
           pc' \in [Procs -> PCs], job' \in [Procs -> Jobs],
           pc'[p] = "write" => pc[p] = "write",
           Left(p), Knows(p)'
    PROVE  Known'
  <1>1. Shape'
    BY DEF Known, Typed, Shape, world, project
  <1>2. Placed'
    BY DEF Known, Typed, Placed, Released, Left, world, project
  <1> QED
    BY <1>1, <1>2, OthersKnow DEF Known, Typed, Left

LEMMA JobTypes ==
    ASSUME Known, NEW p \in Procs
    PROVE  /\ job[p] \in Jobs
           /\ wrapper \in Files /\ plugin \in Files
           /\ Knows(p)
  BY DEF Known, Typed, Shape

LEMMA BeginKnows ==
    ASSUME Known, NEW p \in Procs, NEW command \in Commands \ {"none"}, NEW root \in Roots,
           Begin(p, command, root)
    PROVE  Known'
  <1> DEFINE next == CASE command \in {"install", "dry-run"} -> "guard"
                       [] command = "remove" -> "removeLook"
                       [] command \in {"update", "update --check"} -> "discoverVersions"
             record == [NoJob EXCEPT !.command = command, !.root = root,
                                     !.current = package[root].version]
  <1>1. /\ next \in {"guard", "removeLook", "discoverVersions"}
        /\ next = "guard" => command \in {"install", "dry-run"}
        /\ next = "removeLook" => command = "remove"
        /\ next = "discoverVersions" => command \in {"update", "update --check"}
    BY DEF Commands
  <1>2. record \in Jobs
    BY DEF Known, Typed, Shape, NoJob, Jobs, Files, Releases, Commands, Outcomes
  <1>3. ~record.updated /\ record.root = root /\ record.command = command
    BY DEF NoJob
  <1>4. GoOn(p, next, record) /\ UNCHANGED <<world, project>>
    BY Zenon DEF Begin
  <1> HIDE DEF next, record
  <1>5. /\ pc' \in [Procs -> PCs] /\ pc'[p] = next
        /\ job' \in [Procs -> Jobs] /\ job'[p] = record
        /\ Left(p)
    <2>1. next \in PCs
      BY <1>1 DEF PCs, Installing, Looking
    <2> QED
      BY <2>1, <1>2, <1>4, GoOnLeaves
  <1>6. Knows(p)'
    BY <1>1, <1>3, <1>5 DEF Knows, Writing, Searching, Removing, Installing
  <1> QED
    BY <1>1, <1>4, <1>5, <1>6, LookKnows

LEMMA InspectGuardKnows ==
    ASSUME Known, NEW p \in Procs, InspectGuard(p)
    PROVE  Known'
  <1> DEFINE record == [job[p] EXCEPT !.guarded = package[job[p].root].guard]
  <1>1. /\ pc[p] = "guard" /\ GoOn(p, "inspect", record)
        /\ UNCHANGED <<world, project>>
    BY DEF InspectGuard
  <1>2. job[p] \in Jobs /\ Knows(p) /\ job[p].root \in Roots
    BY <1>1, JobTypes DEF Knows
  <1>3. package[job[p].root].guard \in BOOLEAN
    BY <1>2 DEF Known, Typed, Shape
  <1>4. record \in Jobs
    BY <1>2, <1>3 DEF Jobs
  <1>5. /\ record.root = job[p].root /\ record.updated = job[p].updated
        /\ record.target = job[p].target /\ record.current = job[p].current
        /\ record.command = job[p].command
    BY <1>2 DEF Jobs
  <1> HIDE DEF record
  <1>6. /\ pc' \in [Procs -> PCs] /\ pc'[p] = "inspect"
        /\ job' \in [Procs -> Jobs] /\ job'[p] = record
        /\ Left(p)
    BY <1>1, <1>4, GoOnLeaves DEF PCs, Installing
  <1>7. Knows(p)'
    BY <1>1, <1>2, <1>5, <1>6 DEF Knows, Writing, Searching, Removing, Installing
  <1> QED
    BY <1>1, <1>6, <1>7, LookKnows

LEMMA InspectWrapperKnows ==
    ASSUME Known, NEW p \in Procs, InspectWrapper(p)
    PROVE  Known'
  <1> DEFINE seen == [job[p] EXCEPT !.saw = wrapper]
             state == detectOwnership(wrapper, seen.root)
  <1>1. pc[p] = "inspect" /\ UNCHANGED <<world, project>> /\ wrapper' = wrapper
    BY DEF InspectWrapper, project
  <1>2. job[p] \in Jobs /\ Knows(p) /\ job[p].root \in Roots /\ wrapper \in Files
        /\ job[p].command \in {"install", "dry-run", "update"}
    BY <1>1, JobTypes DEF Knows, Installing
  <1>3. seen \in Jobs
    BY <1>2 DEF Jobs
  <1>4. /\ seen.root = job[p].root /\ seen.updated = job[p].updated /\ seen.saw = wrapper
        /\ seen.target = job[p].target /\ seen.current = job[p].current
        /\ seen.command = job[p].command /\ seen.guarded = job[p].guarded
    BY <1>2 DEF Jobs
  <1>5. seen.updated => Compatible(seen.target, seen.current) /\ seen.command = "update"
    BY <1>2, <1>4 DEF Knows
  <1>6. \/ seen.command = "dry-run" /\ Return(p, 0)
        \/ seen.command # "dry-run" /\ Ended(p, seen, "NEEDS_ATTENTION")
        \/ seen.command # "dry-run" /\ Ended(p, seen, "READY")
        \/ seen.command # "dry-run" /\ state # "CONFLICT" /\ GoOn(p, "mkdir", seen)
    BY Zenon DEF InspectWrapper
  <1>7. state # "CONFLICT" => ~UsersFile(wrapper)
    BY DEF detectOwnership, UsersFile
  <1> HIDE DEF seen, state
  <1>8. CASE seen.command = "dry-run" /\ Return(p, 0)
    BY <1>1, <1>8, AnswerKnows, LookKnows
  <1>9. ASSUME NEW outcome \in {"NEEDS_ATTENTION", "READY"}, seen.command # "dry-run",
               Ended(p, seen, outcome)
        PROVE  Known'
    <2>1. seen.command \in {"install", "update"} /\ seen.root \in Roots /\ outcome \in Outcomes \ {"none"}
      BY <1>2, <1>4, <1>9 DEF Outcomes
    <2> QED
      BY <1>1, <1>3, <1>5, <1>9, <2>1, EndedKnows, LookKnows
  <1>10. CASE seen.command # "dry-run" /\ state # "CONFLICT" /\ GoOn(p, "mkdir", seen)
    <2>1. /\ pc' \in [Procs -> PCs] /\ pc'[p] = "mkdir"
          /\ job' \in [Procs -> Jobs] /\ job'[p] = seen
          /\ Left(p)
      BY <1>3, <1>10, GoOnLeaves DEF PCs, Installing
    <2>2. Knows(p)'
      BY <1>2, <1>4, <1>5, <1>7, <1>10, <2>1
         DEF Knows, Writing, Searching, Removing, UsersFile, Installing
    <2> QED
      BY <1>1, <2>1, <2>2, LookKnows
  <1> QED
    BY <1>6, <1>8, <1>9, <1>10

\* A step of p that writes or removes files.
LEMMA WriteKnows ==
    ASSUME Known, NEW p \in Procs, UNCHANGED world,
           wrapper' \in Files, plugin' \in Files, directory' \in BOOLEAN,
           wrapper' # Missing \/ plugin' # Missing => directory',
           pc' \in [Procs -> PCs], job' \in [Procs -> Jobs],
           \A q \in Procs : pc'[q] = "write" => wrapper' # Missing,
           Left(p), Knows(p)'
    PROVE  Known'
  <1>1. Shape'
    BY DEF Known, Typed, Shape, world
  <1>2. Placed'
    BY DEF Known, Typed, Placed, Released, world
  <1> QED
    BY <1>1, <1>2, OthersKnow DEF Known, Typed, Left

\* What a file looks like that a command writes.
LEMMA WrittenFiles ==
    /\ TornFile \in Files /\ TornFile # Missing
    /\ Spliced \in Files /\ Spliced # Missing
    /\ \A root \in Roots :
          generateWrapperContent(root) \in Files /\ generateWrapperContent(root) # Missing
  <1> DEFINE Written == [marker : BOOLEAN, body : Roots \cup Nat \cup {Torn}]
  <1>1. Missing \notin Written /\ Written \subseteq Files
    BY IntegrationAssumption DEF Files
  <1>2. /\ TornFile \in Written /\ Spliced \in Written
        /\ \A root \in Roots : generateWrapperContent(root) \in Written
    BY DEF TornFile, Spliced, generateWrapperContent
  <1> QED
    BY <1>1, <1>2

LEMMA MakeDirectoryKnows ==
    ASSUME Known, NEW p \in Procs, MakeDirectory(p)
    PROVE  Known'
  <1>1. /\ pc[p] = "mkdir" /\ GoOn(p, "open", job[p]) /\ directory' = TRUE
        /\ UNCHANGED <<world, wrapper, plugin>>
    BY DEF MakeDirectory
  <1>2. job[p] \in Jobs /\ Knows(p) /\ wrapper \in Files /\ plugin \in Files
    BY JobTypes
  <1>3. /\ pc' \in [Procs -> PCs] /\ pc'[p] = "open"
        /\ job' \in [Procs -> Jobs] /\ job'[p] = job[p]
        /\ Left(p)
    BY <1>1, <1>2, GoOnLeaves DEF PCs, Installing
  <1>4. Knows(p)'
    BY <1>1, <1>2, <1>3 DEF Knows, Writing, Searching, Removing, UsersFile, Installing
  <1>5. \A q \in Procs : pc'[q] = "write" => wrapper' # Missing
    BY <1>1, <1>3 DEF Left, Known, Typed, Placed
  <1> QED
    BY <1>1, <1>2, <1>3, <1>4, <1>5, WriteKnows

\* What an installation that ends needs to know.
LEMMA InstallerKnows ==
    ASSUME Known, NEW p \in Procs, pc[p] \in Writing \cup {"ended"}
    PROVE  /\ job[p] \in Jobs /\ job[p].root \in Roots /\ job[p].command \in {"install", "update"}
           /\ job[p].updated => /\ Compatible(job[p].target, job[p].current)
                                /\ job[p].command = "update"
  BY JobTypes DEF Knows, Writing

LEMMA OpenWrapperKnows ==
    ASSUME Known, NEW p \in Procs, OpenWrapper(p)
    PROVE  Known'
  <1>1. /\ pc[p] = "open" /\ UNCHANGED <<world, plugin, directory>>
        /\ \/ directory /\ wrapper' = TornFile /\ GoOn(p, "write", job[p])
           \/ wrapper' = wrapper /\ Ended(p, job[p], "ERROR")
    BY DEF OpenWrapper
  <1>2. /\ job[p] \in Jobs /\ Knows(p) /\ wrapper \in Files /\ plugin \in Files
        /\ directory \in BOOLEAN
        /\ wrapper # Missing \/ plugin # Missing => directory
    BY JobTypes DEF Known, Typed, Shape
  <1>3. CASE directory /\ wrapper' = TornFile /\ GoOn(p, "write", job[p])
    <2>1. /\ pc' \in [Procs -> PCs] /\ pc'[p] = "write"
          /\ job' \in [Procs -> Jobs] /\ job'[p] = job[p]
          /\ Left(p)
      BY <1>2, <1>3, GoOnLeaves DEF PCs, Installing
    <2>2. Knows(p)'
      BY <1>1, <1>2, <2>1 DEF Knows, Writing, Searching, Removing, UsersFile, Installing
    <2> QED
      BY <1>1, <1>2, <1>3, <2>1, <2>2, WrittenFiles, WriteKnows
  <1>4. CASE wrapper' = wrapper /\ Ended(p, job[p], "ERROR")
    <2>1. UNCHANGED <<world, project>>
      BY <1>1, <1>4 DEF project
    <2>2. /\ pc' \in [Procs -> PCs] /\ pc'[p] = "ended" /\ job' \in [Procs -> Jobs]
          /\ Left(p) /\ Knows(p)'
      BY <1>1, <1>4, InstallerKnows, EndedKnows DEF Writing, Outcomes
    <2> QED
      BY <2>1, <2>2, LookKnows
  <1> QED
    BY <1>1, <1>3, <1>4

LEMMA WriteWrapperKnows ==
    ASSUME Known, NEW p \in Procs, WriteWrapper(p)
    PROVE  Known'
  <1>1. /\ pc[p] \in {"write", "writeUnlinked"} /\ UNCHANGED <<world, plugin, directory>>
        /\ wrapper' \in IF pc[p] = "write" THEN {generateWrapperContent(job[p].root), Spliced}
                        ELSE {wrapper}
        /\ Ended(p, job[p], "READY")
    BY DEF WriteWrapper
  <1>2. /\ job[p] \in Jobs /\ Knows(p) /\ wrapper \in Files /\ plugin \in Files
        /\ directory \in BOOLEAN
        /\ wrapper # Missing \/ plugin # Missing => directory
        /\ pc[p] = "write" => wrapper # Missing
    BY JobTypes DEF Known, Typed, Shape, Placed
  <1>3. job[p].root \in Roots
    BY <1>1, <1>2 DEF Knows
  <1>4. /\ pc' \in [Procs -> PCs] /\ pc'[p] = "ended"
        /\ job' \in [Procs -> Jobs]
        /\ Left(p) /\ Knows(p)'
    BY <1>1, InstallerKnows, EndedKnows DEF Writing, Outcomes
  <1>5. \A q \in Procs : pc'[q] = "write" => wrapper' # Missing
    BY <1>1, <1>3, <1>4, WrittenFiles DEF Left, Known, Typed, Placed
  <1> QED
    BY <1>1, <1>2, <1>3, <1>4, <1>5, WrittenFiles, WriteKnows

LEMMA InstallFailsKnows ==
    ASSUME Known, NEW p \in Procs, InstallFails(p)
    PROVE  Known'
  <1>1. /\ pc[p] \in Installing \ {"guard"} /\ UNCHANGED <<world, project>>
        /\ \/ pc[p] # "inspect" /\ Ended(p, job[p], "ERROR")
           \/ Return(p, 10)
           \/ pc[p] = "inspect" /\ job[p].command # "dry-run" /\ Ended(p, job[p], "UNKNOWN")
    BY DEF InstallFails, exitCode
  <1>2. CASE Return(p, 10)
    BY <1>1, <1>2, AnswerKnows, LookKnows
  <1>3. ASSUME NEW outcome \in Outcomes \ {"none"}, Ended(p, job[p], outcome),
               pc[p] = "inspect" => job[p].command # "dry-run"
        PROVE  Known'
    <2>1. /\ job[p] \in Jobs /\ job[p].root \in Roots /\ job[p].command \in {"install", "update"}
          /\ job[p].updated => /\ Compatible(job[p].target, job[p].current)
                               /\ job[p].command = "update"
      BY <1>1, <1>3, JobTypes DEF Knows, Writing, Installing
    <2> QED
      BY <1>1, <1>3, <2>1, EndedKnows, LookKnows
  <1> QED
    BY <1>1, <1>2, <1>3 DEF Outcomes

\* A step that answers and leaves the files as they are.
LEMMA ReturnKnows ==
    ASSUME Known, NEW p \in Procs, NEW code \in {0, 2, 4, 10}, Return(p, code),
           UNCHANGED <<world, project>>
    PROVE  Known'
  BY AnswerKnows, LookKnows

LEMMA CodesTyped ==
    /\ \A updated \in BOOLEAN, outcome \in Outcomes : refreshCode(updated, outcome) \in {0, 2, 4, 10}
    /\ \A outcome \in Outcomes \ {"none"} : exitCode(outcome) \in {0, 2, 4, 10}
  BY DEF refreshCode, exitCode, Outcomes

LEMMA RemoveLookKnows ==
    ASSUME Known, NEW p \in Procs, RemoveLook(p)
    PROVE  Known'
  <1> DEFINE seen == [job[p] EXCEPT !.saw = wrapper]
  <1>1. pc[p] = "removeLook" /\ UNCHANGED <<world, project>>
    BY DEF RemoveLook
  <1>2. job[p] \in Jobs /\ Knows(p) /\ job[p].root \in Roots /\ wrapper \in Files
    BY <1>1, JobTypes DEF Knows
  <1>3. seen \in Jobs
    BY <1>2 DEF Jobs
  <1>4. /\ seen.root = job[p].root /\ seen.updated = job[p].updated /\ seen.saw = wrapper
        /\ seen.target = job[p].target /\ seen.current = job[p].current
        /\ seen.command = job[p].command
    BY <1>2 DEF Jobs
  <1>6. \/ Return(p, 0)
        \/ Return(p, 2)
        \/ wrapper # Missing /\ wrapper.marker /\ GoOn(p, "unlink", seen)
    BY Zenon DEF RemoveLook, detectOwnershipForRemoval
  <1> HIDE DEF seen
  <1>9. CASE wrapper # Missing /\ wrapper.marker /\ GoOn(p, "unlink", seen)
    <2>1. /\ pc' \in [Procs -> PCs] /\ pc'[p] = "unlink"
          /\ job' \in [Procs -> Jobs] /\ job'[p] = seen
          /\ Left(p)
      BY <1>3, <1>9, GoOnLeaves DEF PCs, Looking
    <2>2. Knows(p)'
      BY <1>1, <1>2, <1>4, <1>9, <2>1 DEF Knows, Writing, Searching, Removing, Installing
    <2> QED
      BY <1>1, <2>1, <2>2, LookKnows
  <1> QED
    BY <1>1, <1>6, <1>9, ReturnKnows

LEMMA UnlinkKnows ==
    ASSUME Known, NEW p \in Procs, Unlink(p)
    PROVE  Known'
  <1>1. /\ pc[p] = "unlink" /\ wrapper' = Missing /\ UNCHANGED <<world, plugin, directory>>
        /\ \/ wrapper = Missing /\ Return(p, 4)
           \/ Unlinked(p, "list", job[p])
    BY DEF Unlink
  <1>2. /\ job[p] \in Jobs /\ Knows(p) /\ job[p].root \in Roots
        /\ wrapper \in Files /\ plugin \in Files /\ directory \in BOOLEAN
        /\ wrapper # Missing \/ plugin # Missing => directory
        /\ Missing \in Files
    BY <1>1, JobTypes DEF Known, Typed, Shape, Knows, Files
  <1>4. CASE wrapper = Missing /\ Return(p, 4)
    <2>1. UNCHANGED <<world, project>>
      BY <1>1, <1>4 DEF project
    <2> QED
      BY <1>4, <2>1, ReturnKnows
  <1>5. CASE Unlinked(p, "list", job[p])
    <2>1. /\ pc' \in [Procs -> PCs] /\ pc'[p] = "list"
          /\ job' \in [Procs -> Jobs] /\ job'[p] = job[p]
          /\ \A q \in Procs \ {p} :
                 /\ job'[q] = job[q]
                 /\ pc'[q] = IF pc[q] = "write" THEN "writeUnlinked" ELSE pc[q]
      BY <1>2, <1>5, UnlinkStep DEF PCs, Looking, Known, Typed
    <2>2. Left(p) /\ Knows(p)'
      BY <1>1, <1>2, <2>1 DEF Left, Knows, Writing, Searching, Removing, Installing
    <2>3. \A q \in Procs : pc'[q] # "write"
      BY <2>1
    <2> QED
      BY <1>1, <1>2, <2>1, <2>2, <2>3, WriteKnows
  <1> QED
    BY <1>1, <1>4, <1>5

LEMMA ListDirectoryKnows ==
    ASSUME Known, NEW p \in Procs, ListDirectory(p)
    PROVE  Known'
  <1> DEFINE seen == [job[p] EXCEPT !.saw = wrapper, !.sawPlugin = plugin]
  <1>1. /\ pc[p] = "list" /\ UNCHANGED <<world, project>>
        /\ \/ wrapper = Missing /\ plugin = Missing /\ GoOn(p, "rmdir", seen)
           \/ Return(p, 0)
    BY DEF ListDirectory
  <1>2. /\ job[p] \in Jobs /\ Knows(p) /\ job[p].root \in Roots
        /\ wrapper \in Files /\ plugin \in Files
    BY <1>1, JobTypes DEF Knows
  <1>3. seen \in Jobs
    BY <1>2 DEF Jobs
  <1>4. /\ seen.root = job[p].root /\ seen.updated = job[p].updated /\ seen.saw = wrapper
        /\ seen.target = job[p].target /\ seen.current = job[p].current
        /\ seen.command = job[p].command /\ seen.sawPlugin = plugin
    BY <1>2 DEF Jobs
  <1> HIDE DEF seen
  <1>7. CASE wrapper = Missing /\ plugin = Missing /\ GoOn(p, "rmdir", seen)
    <2>1. /\ pc' \in [Procs -> PCs] /\ pc'[p] = "rmdir"
          /\ job' \in [Procs -> Jobs] /\ job'[p] = seen
          /\ Left(p)
      BY <1>3, <1>7, GoOnLeaves DEF PCs, Looking
    <2>2. Knows(p)'
      BY <1>1, <1>2, <1>4, <1>7, <2>1 DEF Knows, Writing, Searching, Removing, Installing
    <2> QED
      BY <1>1, <2>1, <2>2, LookKnows
  <1> QED
    BY <1>1, <1>7, ReturnKnows

LEMMA RemoveDirectoryKnows ==
    ASSUME Known, NEW p \in Procs, RemoveDirectory(p)
    PROVE  Known'
  <1>1. /\ wrapper' = Missing /\ plugin' = Missing /\ directory' = FALSE
        /\ Unlinked(p, "done", NoJob) /\ UNCHANGED world
    BY DEF RemoveDirectory
  <1>2. /\ pc' \in [Procs -> PCs] /\ pc'[p] = "done"
        /\ job' \in [Procs -> Jobs] /\ job'[p] = NoJob
        /\ \A q \in Procs \ {p} :
               /\ job'[q] = job[q]
               /\ pc'[q] = IF pc[q] = "write" THEN "writeUnlinked" ELSE pc[q]
    BY <1>1, NoJobType, UnlinkStep DEF PCs, Known, Typed
  <1>3. Left(p) /\ Knows(p)'
    BY <1>2 DEF Left, Knows, NoJob, Writing, Searching, Removing, Installing
  <1>4. \A q \in Procs : pc'[q] # "write"
    BY <1>2
  <1>5. Missing \in Files
    BY DEF Files
  <1> QED
    BY <1>1, <1>2, <1>3, <1>4, <1>5, WriteKnows

LEMMA DiscoverVersionsKnows ==
    ASSUME Known, NEW p \in Procs, DiscoverVersions(p)
    PROVE  Known'
  <1> DEFINE target == determineUpdateCheckResult(job[p].current, published)
             selected == [job[p] EXCEPT !.target = target]
  <1>1. pc[p] = "discoverVersions" /\ UNCHANGED <<world, project>>
    BY DEF DiscoverVersions
  <1>2. job[p] \in Jobs /\ Knows(p) /\ job[p].root \in Roots
    BY <1>1, JobTypes DEF Knows
  <1>3. target # NoVersion => target \in Versions /\ Compatible(target, job[p].current)
    BY SelectedIsCompatible DEF Known, Typed, Placed
  <1>4. target \in Releases
    BY <1>3 DEF Releases
  <1> HIDE DEF target
  <1>5. /\ selected \in Jobs
        /\ selected.root = job[p].root /\ selected.updated = job[p].updated
        /\ selected.target = target /\ selected.current = job[p].current
        /\ selected.command = job[p].command
    BY <1>2, <1>4 DEF Jobs
  <1>6. \/ Return(p, 4) \/ Return(p, 0)
        \/ selected.command = "update" /\ GoOn(p, "discover", selected)
        \/ target # NoVersion /\ selected.command # "update --check" /\ GoOn(p, "npm", selected)
    <2>1. selected.command \in {"update", "update --check"}
      BY <1>1, <1>2, <1>5 DEF Knows, Searching
    <2>2. selected = [job[p] EXCEPT !.target = determineUpdateCheckResult(job[p].current, published)]
      BY DEF target
    <2> HIDE DEF selected
    <2>3. \/ Return(p, 4)
          \/ CASE selected.command = "update --check" -> Return(p, 0)
               [] selected.command = "update" /\ selected.target = NoVersion ->
                      GoOn(p, "discover", selected)
               [] OTHER -> GoOn(p, "npm", selected)
      BY <2>2 DEF DiscoverVersions
    <2> QED
      BY <1>5, <2>1, <2>3
  <1> HIDE DEF selected
  <1>10. CASE selected.command = "update" /\ GoOn(p, "discover", selected)
    <2>1. /\ pc' \in [Procs -> PCs] /\ pc'[p] = "discover"
          /\ job' \in [Procs -> Jobs] /\ job'[p] = selected
          /\ Left(p)
      BY <1>5, <1>10, GoOnLeaves DEF PCs, Looking
    <2>2. Knows(p)'
      BY <1>1, <1>2, <1>5, <1>10, <2>1 DEF Knows, Writing, Searching, Removing, Installing
    <2> QED
      BY <1>1, <2>1, <2>2, LookKnows
  <1>11. CASE target # NoVersion /\ selected.command # "update --check" /\ GoOn(p, "npm", selected)
    <2>1. /\ pc' \in [Procs -> PCs] /\ pc'[p] = "npm"
          /\ job' \in [Procs -> Jobs] /\ job'[p] = selected
          /\ Left(p)
      BY <1>5, <1>11, GoOnLeaves DEF PCs, Looking
    <2>2. Knows(p)'
      BY <1>1, <1>2, <1>3, <1>5, <1>11, <2>1 DEF Knows, Writing, Searching, Removing, Installing
    <2> QED
      BY <1>1, <2>1, <2>2, LookKnows
  <1> QED
    BY <1>1, <1>6, <1>10, <1>11, ReturnKnows

LEMMA NpmInstallKnows ==
    ASSUME Known, NEW p \in Procs, NpmInstall(p)
    PROVE  Known'
  <1> DEFINE installed == [package EXCEPT ![Global] = [version |-> job[p].target, guard |-> TRUE]]
  <1>1. /\ pc[p] = "npm" /\ UNCHANGED <<published, edits, project>>
        /\ package' \in {package, installed}
        /\ GoOn(p, "verify", job[p]) \/ Return(p, 4)
    BY DEF NpmInstall
  <1>2. job[p] \in Jobs /\ Knows(p) /\ job[p].root \in Roots
    BY <1>1, JobTypes DEF Knows
  <1>3. package' \in [Roots -> [version : Releases, guard : BOOLEAN]]
    <2>1. [version |-> job[p].target, guard |-> TRUE] \in [version : Releases, guard : BOOLEAN]
      BY <1>2 DEF Jobs
    <2>2. package \in [Roots -> [version : Releases, guard : BOOLEAN]]
      BY DEF Known, Typed, Shape
    <2> QED
      BY <1>1, <2>1, <2>2
  <1>4. /\ pc' \in [Procs -> PCs] /\ pc'[p] # "write"
        /\ job' \in [Procs -> Jobs]
        /\ Left(p) /\ Knows(p)'
    <2>1. CASE GoOn(p, "verify", job[p])
      <3>1. /\ pc' \in [Procs -> PCs] /\ pc'[p] = "verify"
            /\ job' \in [Procs -> Jobs] /\ job'[p] = job[p]
            /\ Left(p)
        BY <1>2, <2>1, GoOnLeaves DEF PCs, Looking
      <3>2. Knows(p)'
        BY <1>1, <1>2, <3>1 DEF Knows, Writing, Searching, Removing, Installing
      <3> QED
        BY <3>1, <3>2
    <2>2. CASE Return(p, 4)
      BY <2>2, AnswerKnows
    <2> QED
      BY <1>1, <2>1, <2>2
  <1>5. Shape'
    BY <1>1, <1>3, <1>4 DEF Known, Typed, Shape, project
  <1>6. Placed'
    BY <1>1, <1>4 DEF Known, Typed, Placed, Released, Left, project
  <1> QED
    BY <1>4, <1>5, <1>6, OthersKnow DEF Known, Typed, Left

LEMMA NpmVerifyKnows ==
    ASSUME Known, NEW p \in Procs, NpmVerify(p)
    PROVE  Known'
  <1> DEFINE record == [job[p] EXCEPT !.updated = TRUE]
  <1>1. /\ pc[p] = "verify" /\ UNCHANGED <<world, project>>
        /\ GoOn(p, "discover", record) \/ Return(p, 4)
    BY DEF NpmVerify
  <1>2. /\ job[p] \in Jobs /\ Knows(p) /\ job[p].root \in Roots
        /\ Compatible(job[p].target, job[p].current)
    BY <1>1, JobTypes DEF Knows
  <1>3. /\ record \in Jobs
        /\ record.root = job[p].root /\ record.target = job[p].target
        /\ record.current = job[p].current /\ record.command = job[p].command
    BY <1>2 DEF Jobs
  <1> HIDE DEF record
  <1>4. CASE GoOn(p, "discover", record)
    <2>1. /\ pc' \in [Procs -> PCs] /\ pc'[p] = "discover"
          /\ job' \in [Procs -> Jobs] /\ job'[p] = record
          /\ Left(p)
      BY <1>3, <1>4, GoOnLeaves DEF PCs, Looking
    <2>2. Knows(p)'
      BY <1>1, <1>2, <1>3, <2>1 DEF Knows, Writing, Searching, Removing, Installing
    <2> QED
      BY <1>1, <2>1, <2>2, LookKnows
  <1> QED
    BY <1>1, <1>4, ReturnKnows

LEMMA DiscoverIntegrationKnows ==
    ASSUME Known, NEW p \in Procs, DiscoverIntegration(p)
    PROVE  Known'
  <1> DEFINE record == [job[p] EXCEPT !.saw = wrapper,
                                      !.root = IF job[p].updated THEN Global ELSE @]
  <1>1. /\ pc[p] = "discover" /\ UNCHANGED <<world, project>>
        /\ Return(p, 0) \/ GoOn(p, "guard", record)
    BY DEF DiscoverIntegration
  <1>2. job[p] \in Jobs /\ Knows(p) /\ job[p].root \in Roots /\ wrapper \in Files
    BY <1>1, JobTypes DEF Knows
  <1>3. /\ record \in Jobs /\ record.root \in Roots
        /\ record.target = job[p].target /\ record.current = job[p].current
        /\ record.updated = job[p].updated /\ record.command = job[p].command
    BY <1>2, IntegrationAssumption DEF Jobs
  <1> HIDE DEF record
  <1>4. CASE GoOn(p, "guard", record)
    <2>1. /\ pc' \in [Procs -> PCs] /\ pc'[p] = "guard"
          /\ job' \in [Procs -> Jobs] /\ job'[p] = record
          /\ Left(p)
      BY <1>3, <1>4, GoOnLeaves DEF PCs, Installing
    <2>2. Knows(p)'
      BY <1>1, <1>2, <1>3, <2>1 DEF Knows, Writing, Searching, Removing, Installing
    <2> QED
      BY <1>1, <2>1, <2>2, LookKnows
  <1> QED
    BY <1>1, <1>4, ReturnKnows

\* The record of an installation that nobody waits for any more.
Orphan(p) == [NoJob EXCEPT !.command = "install", !.root = job[p].root,
                           !.guarded = job[p].guarded, !.saw = job[p].saw,
                           !.outcome = job[p].outcome]

LEMMA OrphanIs ==
    ASSUME Known, NEW p \in Procs
    PROVE  /\ Orphan(p) \in Jobs /\ Orphan(p).command = "install" /\ ~Orphan(p).updated
           /\ Orphan(p).root = job[p].root /\ Orphan(p).saw = job[p].saw
           /\ Orphan(p).outcome = job[p].outcome
  BY JobTypes, NoJobType DEF Orphan, Jobs, NoJob, Commands

LEMMA DiesKnows ==
    ASSUME Known, NEW p \in Procs, Dies(p)
    PROVE  Known'
  <1>1. /\ UNCHANGED <<world, project>>
        /\ \/ GoOn(p, "idle", NoJob)
           \/ /\ pc[p] \in Installing \cup {"ended"}
              /\ GoOn(p, pc[p], Orphan(p))
    BY DEF Dies, Orphan
  <1>2. CASE GoOn(p, "idle", NoJob)
    <2>1. /\ pc' \in [Procs -> PCs] /\ pc'[p] = "idle"
          /\ job' \in [Procs -> Jobs] /\ job'[p] = NoJob
          /\ Left(p)
      BY <1>2, NoJobType, GoOnLeaves DEF PCs
    <2>2. Knows(p)'
      BY <2>1 DEF Knows, NoJob, Writing, Searching, Removing, Installing
    <2> QED
      BY <1>1, <2>1, <2>2, LookKnows
  <1>3. CASE /\ pc[p] \in Installing \cup {"ended"}
             /\ GoOn(p, pc[p], Orphan(p))
    <2>1. /\ pc' \in [Procs -> PCs] /\ pc'[p] = pc[p]
          /\ job' \in [Procs -> Jobs] /\ job'[p] = Orphan(p)
          /\ Left(p)
      BY <1>3, OrphanIs, GoOnLeaves DEF PCs
    <2>2. Knows(p)'
      BY <1>3, <2>1, OrphanIs, JobTypes DEF Knows, Writing, Searching, Removing, Installing
    <2> QED
      BY <1>1, <2>1, <2>2, LookKnows
  <1> QED
    BY <1>1, <1>2, <1>3

\* The steps that end a command where it stands.
LEMMA EndsKnow ==
    ASSUME Known, NEW p \in Procs, Answer(p) \/ TimesOut(p) \/ RemovalFails(p)
    PROVE  Known'
  <1>1. CASE TimesOut(p)
    BY <1>1, ReturnKnows DEF TimesOut
  <1>2. CASE RemovalFails(p)
    <2>1. exitCode(IF pc[p] = "removeLook" THEN "UNKNOWN" ELSE "ERROR") \in {0, 2, 4, 10}
      BY DEF exitCode
    <2> QED
      BY <1>2, <2>1, ReturnKnows DEF RemovalFails
  <1>3. CASE Answer(p)
    <2>1. job[p].outcome \in Outcomes \ {"none"} /\ job[p].updated \in BOOLEAN
      BY <1>3, JobTypes DEF Answer, Jobs, Knows
    <2>2. (IF job[p].command = "update" THEN refreshCode(job[p].updated, job[p].outcome)
           ELSE exitCode(job[p].outcome)) \in {0, 2, 4, 10}
      BY <2>1, CodesTyped
    <2> QED
      BY <1>3, <2>2, ReturnKnows DEF Answer
  <1> QED
    BY <1>1, <1>2, <1>3


-----------------------------------------------------------------------------
(* The registry and the user                                                *)

LEMMA PublishKnows ==
    ASSUME Known, NEW v \in Versions, Publish(v)
    PROVE  Known'
  <1>1. /\ published' = published \cup {v}
        /\ UNCHANGED <<package, edits, wrapper, plugin, directory, pc, job>>
    BY DEF Publish, project
  <1>2. IsFiniteSet(published')
    BY <1>1, FS_AddElement DEF Known, Typed, Placed, Released
  <1>3. Typed'
    BY <1>1, <1>2 DEF Known, Typed, Shape, Placed, Released
  <1> QED
    BY <1>1, <1>3 DEF Known, Knows

\* What the user does to a file under the feet of the commands.
LEMMA UserChanges ==
    ASSUME Known, User
    PROVE  /\ edits' = edits + 1
           /\ UNCHANGED <<package, published, job>>
           /\ pc' \in [Procs -> PCs]
           /\ \A q \in Procs : pc'[q] = pc[q] \/ (pc[q] = "write" /\ pc'[q] = "writeUnlinked")
           /\ \A q \in Procs : pc'[q] = "write" => wrapper' # Missing
           /\ wrapper' \in Files /\ plugin' \in Files /\ directory' \in BOOLEAN
           /\ wrapper' # Missing \/ plugin' # Missing => directory'
           /\ \/ wrapper' # TornFile /\ disturbed' = Relying
              \/ UNCHANGED <<wrapper, pc, kept>>
  <1> DEFINE Acted ==
        /\ edits' = edits + 1
        /\ UNCHANGED <<package, published, job>>
        /\ pc' \in [Procs -> PCs]
        /\ \A q \in Procs : pc'[q] = pc[q] \/ (pc[q] = "write" /\ pc'[q] = "writeUnlinked")
        /\ \A q \in Procs : pc'[q] = "write" => wrapper' # Missing
        /\ wrapper' \in Files /\ plugin' \in Files /\ directory' \in BOOLEAN
        /\ wrapper' # Missing \/ plugin' # Missing => directory'
  <1>1. \A marked \in BOOLEAN : LET file == [marker |-> marked, body |-> edits + 1] IN
            file \in Files /\ file # Missing /\ file # TornFile
    <2> DEFINE Written == [marker : BOOLEAN, body : Roots \cup Nat \cup {Torn}]
    <2>1. Missing \notin Written /\ Written \subseteq Files
      BY IntegrationAssumption DEF Files
    <2>2. edits + 1 \in Nat /\ edits + 1 # Torn
      BY IntegrationAssumption DEF Known, Typed, Shape
    <2>3. \A marked \in BOOLEAN : [marker |-> marked, body |-> edits + 1] \in Written
      BY <2>2
    <2>4. \A marked \in BOOLEAN : [marker |-> marked, body |-> edits + 1] # TornFile
      BY <2>2 DEF TornFile
    <2> QED
      BY <2>1, <2>3, <2>4
  <1>2. Detached(pc) \in [Procs -> PCs]
        /\ \A q \in Procs : /\ Detached(pc)[q] # "write"
                            /\ \/ Detached(pc)[q] = pc[q]
                               \/ pc[q] = "write" /\ Detached(pc)[q] = "writeUnlinked"
    BY DEF Known, Typed, Shape, Detached, PCs, Installing
  <1>3. ASSUME NEW marked \in BOOLEAN, NEW replaced \in BOOLEAN, UserWrites(marked, replaced)
        PROVE  Acted /\ wrapper' # TornFile
    <2>1. edits' = edits + 1 /\ wrapper' = [marker |-> marked, body |-> edits + 1]
      BY <1>3 DEF UserWrites, UserActs
    <2>2. wrapper' \in Files /\ wrapper' # Missing /\ wrapper' # TornFile
      BY <1>1, <2>1
    <2>3. /\ UNCHANGED <<package, published, job, plugin>> /\ directory' = TRUE
          /\ pc' = Detached(pc) \/ pc' = pc
      BY <1>3 DEF UserWrites, UserActs
    <2> QED
      BY <1>2, <2>1, <2>2, <2>3 DEF Known, Typed, Shape
  <1>4. ASSUME UserDeletes
        PROVE  Acted /\ wrapper' # TornFile
    <2>1. /\ edits' = edits + 1 /\ wrapper' = Missing /\ pc' = Detached(pc)
          /\ UNCHANGED <<package, published, job, plugin, directory>>
      BY <1>4 DEF UserDeletes, UserActs
    <2>2. Missing \in Files /\ Missing # TornFile
      BY WrittenFiles DEF Files
    <2> QED
      BY <1>2, <2>1, <2>2, <1>4 DEF Known, Typed, Shape
  <1>5. ASSUME UserAddsPlugin
        PROVE  Acted
    <2>1. /\ edits' = edits + 1 /\ plugin' = [marker |-> FALSE, body |-> edits + 1]
          /\ UNCHANGED <<package, published, job, wrapper, pc>> /\ directory' = TRUE
      BY <1>5 DEF UserAddsPlugin, UserActs
    <2>2. plugin' \in Files
      BY <1>1, <2>1
    <2> QED
      BY <2>1, <2>2 DEF Known, Typed, Shape, Placed
  <1> QED
    <2>1. CASE ((\E marked, replaced \in BOOLEAN : UserWrites(marked, replaced)) \/ UserDeletes)
               /\ disturbed' = Relying
      <3>1. Acted /\ wrapper' # TornFile
        BY <1>3, <1>4, <2>1
      <3> QED
        BY <2>1, <3>1
    <2>2. CASE UserAddsPlugin /\ UNCHANGED kept
      <3>1. Acted
        BY <1>5, <2>2
      <3> QED
        BY <2>2, <3>1 DEF UserAddsPlugin
    <2> HIDE DEF Acted
    <2> QED
      BY <2>1, <2>2 DEF User

LEMMA UserKnows ==
    ASSUME Known, User
    PROVE  Known'
  <1>1. edits' \in Nat
    BY UserChanges DEF Known, Typed, Shape
  <1>2. Typed'
    BY <1>1, UserChanges DEF Known, Typed, Shape, Placed, Released
  <1>3. ASSUME NEW q \in Procs PROVE Knows(q)'
    BY UserChanges, OthersKnow
  <1> QED
    BY <1>2, <1>3 DEF Known

-----------------------------------------------------------------------------
(* Every step                                                               *)

LEMMA InitKnown == Init => Known
  <1> SUFFICES ASSUME Init PROVE Known
    OBVIOUS
  <1>1. package \in [Roots -> [version : Releases, guard : BOOLEAN]]
    BY IntegrationAssumption DEF Init, Releases
  <1>2. published \subseteq Versions /\ IsFiniteSet(published)
    BY IntegrationAssumption DEF Init
  <1>3. wrapper \in Files /\ plugin \in Files
    BY WrittenFiles DEF Init, Files
  <1>4. pc \in [Procs -> PCs] /\ job \in [Procs -> Jobs]
    BY NoJobType DEF Init, PCs
  <1>5. Typed
    BY <1>1, <1>2, <1>3, <1>4 DEF Init, Typed, Shape, Placed, Released
  <1>6. ASSUME NEW p \in Procs PROVE Knows(p)
    BY DEF Init, Knows, NoJob, Writing, Searching, Removing, Installing
  <1> QED
    BY <1>5, <1>6 DEF Known

LEMMA StepKnows ==
    ASSUME Known, NEW p \in Procs, Step(p)
    PROVE  Known'
  <1>1. ASSUME NEW command \in {"install", "dry-run", "remove", "update", "update --check"},
               NEW root \in Roots, Begin(p, command, root)
        PROVE  Known'
    BY <1>1, BeginKnows DEF Commands
  <1> QED
    BY <1>1, InspectGuardKnows, InspectWrapperKnows, MakeDirectoryKnows, OpenWrapperKnows,
       WriteWrapperKnows, InstallFailsKnows, EndsKnow, RemoveLookKnows, UnlinkKnows,
       ListDirectoryKnows, RemoveDirectoryKnows, DiscoverVersionsKnows, NpmInstallKnows,
       NpmVerifyKnows, DiscoverIntegrationKnows, DiesKnows DEF Step

LEMMA StutterKnows ==
    ASSUME Known, UNCHANGED integrationVars
    PROVE  Known'
  <1>1. UNCHANGED <<package, published, wrapper, plugin, directory, edits, pc, job>>
    BY DEF integrationVars
  <1> QED
    BY <1>1 DEF Known, Typed, Shape, Placed, Released, Knows

-----------------------------------------------------------------------------
(* What the steps of a command do to the wrapper and to its other writers    *)

LEMMA StepIs ==
    ASSUME NEW p \in Procs, Step(p)
    PROVE  \/ wrapper' = TornFile /\ GoOn(p, "write", job[p])
           \/ WriteWrapper(p)
           \/ wrapper' = Missing /\ \E next \in {"list", "done"} : \E record : Unlinked(p, next, record)
           \/ /\ wrapper' = wrapper
              /\ \/ \E next \in PCs \ {"write", "writeUnlinked"} : \E record : GoOn(p, next, record)
                 \/ GoOn(p, pc[p], Orphan(p))
  <1> DEFINE Goes == \/ \E next \in PCs \ {"write", "writeUnlinked"} : \E record : GoOn(p, next, record)
                     \/ GoOn(p, pc[p], Orphan(p))
  <1>1. \A next \in PCs \ {"write", "writeUnlinked"} : \A record : GoOn(p, next, record) => Goes
    OBVIOUS
  <1>2. /\ {"guard", "inspect", "mkdir", "open", "ended", "done", "idle"} \subseteq PCs \ {"write", "writeUnlinked"}
        /\ Looking \subseteq PCs \ {"write", "writeUnlinked"}
    BY DEF PCs, Installing, Looking
  <1>3. \A record, outcome : Ended(p, record, outcome) => Goes
    BY <1>1, <1>2 DEF Ended
  <1>4. \A code : Return(p, code) => Goes
    BY <1>1, <1>2 DEF Return
  <1>5. \A record, next : next \in {"guard", "inspect", "mkdir", "open"} \cup Looking
                           /\ GoOn(p, next, record) => Goes
    BY <1>1, <1>2
  <1>6. ASSUME NEW command \in {"install", "dry-run", "remove", "update", "update --check"},
               NEW root \in Roots, Begin(p, command, root)
        PROVE  wrapper' = wrapper /\ Goes
    <2> DEFINE next == CASE command \in {"install", "dry-run"} -> "guard"
                         [] command = "remove" -> "removeLook"
                         [] command \in {"update", "update --check"} -> "discoverVersions"
    <2>1. next \in {"guard", "removeLook", "discoverVersions"}
      OBVIOUS
    <2>2. wrapper' = wrapper /\ \E record : GoOn(p, next, record)
      BY <1>6 DEF Begin, project
    <2> HIDE DEF next, Goes
    <2> QED
      BY <1>5, <2>1, <2>2 DEF Looking
  <1> HIDE DEF Goes
  <1>7. CASE InspectGuard(p) \/ MakeDirectory(p)
    BY <1>5, <1>7 DEF InspectGuard, MakeDirectory, project, Goes
  <1>8. CASE InspectWrapper(p)
    <2>1. wrapper' = wrapper
      BY <1>8 DEF InspectWrapper, project
    <2>2. (\E code : Return(p, code)) \/ (\E record, outcome : Ended(p, record, outcome))
          \/ (\E record : GoOn(p, "mkdir", record))
      BY <1>8, Zenon DEF InspectWrapper
    <2> QED
      BY <1>3, <1>4, <1>5, <2>1, <2>2 DEF Goes
  <1>9. CASE OpenWrapper(p)
    BY <1>3, <1>9 DEF OpenWrapper, Goes
  <1>10. CASE InstallFails(p) \/ TimesOut(p) \/ Answer(p) \/ RemovalFails(p)
    <2>1. wrapper' = wrapper
      BY <1>10 DEF InstallFails, TimesOut, Answer, RemovalFails, project
    <2>2. (\E code : Return(p, code)) \/ (\E record, outcome : Ended(p, record, outcome))
      BY <1>10, Zenon DEF InstallFails, TimesOut, Answer, RemovalFails
    <2> QED
      BY <1>3, <1>4, <2>1, <2>2 DEF Goes
  <1>11. CASE RemoveLook(p) \/ ListDirectory(p) \/ DiscoverVersions(p) \/ NpmInstall(p)
              \/ NpmVerify(p) \/ DiscoverIntegration(p)
    <2>1. wrapper' = wrapper
      BY <1>11 DEF RemoveLook, ListDirectory, DiscoverVersions, NpmInstall, NpmVerify,
                   DiscoverIntegration, project
    <2>2. (\E code : Return(p, code))
          \/ \E next \in {"guard", "unlink", "rmdir", "npm", "verify", "discover"} : \E record :
                 GoOn(p, next, record)
      <3>1. CASE RemoveLook(p)
        BY <3>1, Zenon DEF RemoveLook
      <3>2. CASE ListDirectory(p)
        BY <3>2, Zenon DEF ListDirectory
      <3>3. CASE DiscoverVersions(p)
        BY <3>3, Zenon DEF DiscoverVersions
      <3>4. CASE NpmInstall(p) \/ NpmVerify(p)
        BY <3>4, Zenon DEF NpmInstall, NpmVerify
      <3>5. CASE DiscoverIntegration(p)
        BY <3>5, Zenon DEF DiscoverIntegration
      <3> QED
        BY <1>11, <3>1, <3>2, <3>3, <3>4, <3>5
    <2> QED
      BY <1>4, <1>5, <2>1, <2>2 DEF Goes, Looking
  <1>12. CASE Unlink(p)
    BY <1>4, <1>12 DEF Unlink, Goes
  <1>13. CASE RemoveDirectory(p)
    BY <1>13 DEF RemoveDirectory
  <1>14. CASE Dies(p)
    <2>1. wrapper' = wrapper
      BY <1>14 DEF Dies, project
    <2>2. GoOn(p, "idle", NoJob) \/ GoOn(p, pc[p], Orphan(p))
      BY <1>14 DEF Dies, Orphan
    <2> QED
      BY <2>1, <2>2, <1>1, <1>2 DEF Goes
  <1> QED
    BY <1>6, <1>7, <1>8, <1>9, <1>10, <1>11, <1>12, <1>13, <1>14 DEF Step, Goes

\* The others stay where they are, but for the writers whose file is taken away;
\* a command comes to write by emptying the file, or goes on; nothing else
\* empties it.
LEMMA StepLeaves ==
    ASSUME Known, NEW p \in Procs, Step(p)
    PROVE  /\ \A q \in Procs \ {p} :
                  /\ job'[q] = job[q]
                  /\ \/ pc'[q] = pc[q]
                     \/ pc[q] = "write" /\ pc'[q] = "writeUnlinked" /\ wrapper' = Missing
           /\ pc'[p] = "write" =>
                  /\ job'[p].root = job[p].root
                  /\ wrapper' = TornFile \/ (wrapper' = wrapper /\ pc[p] = "write")
           /\ wrapper' = TornFile /\ wrapper # TornFile => pc'[p] = "write"
  <1>1. pc \in [Procs -> PCs] /\ job \in [Procs -> Jobs]
    BY DEF Known, Typed, Shape
  <1>2. ASSUME NEW next, NEW record, GoOn(p, next, record)
        PROVE  /\ \A q \in Procs \ {p} : job'[q] = job[q] /\ pc'[q] = pc[q]
               /\ pc'[p] = next /\ job'[p] = record
    BY <1>1, <1>2 DEF GoOn
  <1>3. CASE wrapper' = TornFile /\ GoOn(p, "write", job[p])
    BY <1>2, <1>3
  <1>4. CASE WriteWrapper(p)
    <2>1. \E record : GoOn(p, "ended", record)
      BY <1>4 DEF WriteWrapper, Ended
    <2>2. wrapper' = wrapper \/ wrapper'.marker
      BY <1>4 DEF WriteWrapper, generateWrapperContent, Spliced
    <2>3. wrapper' = TornFile => wrapper' = wrapper
      BY <2>2 DEF TornFile
    <2> QED
      BY <1>2, <2>1, <2>3
  <1>5. CASE wrapper' = Missing /\ \E next \in {"list", "done"} : \E record : Unlinked(p, next, record)
    <2>1. PICK next \in {"list", "done"} : \E record : Unlinked(p, next, record)
      BY <1>5
    <2>2. PICK record : Unlinked(p, next, record)
      BY <2>1
    <2>3. /\ pc'[p] = next
          /\ \A q \in Procs \ {p} :
                 /\ job'[q] = job[q]
                 /\ pc'[q] = IF pc[q] = "write" THEN "writeUnlinked" ELSE pc[q]
      BY <1>1, <2>2 DEF Unlinked, Detached
    <2> QED
      BY <1>5, <2>3, WrittenFiles
  <1>6. CASE /\ wrapper' = wrapper
             /\ \E next \in PCs \ {"write", "writeUnlinked"} : \E record : GoOn(p, next, record)
    BY <1>2, <1>6
  <1>7. CASE wrapper' = wrapper /\ GoOn(p, pc[p], Orphan(p))
    BY <1>2, <1>7, OrphanIs
  <1> QED
    BY <1>3, <1>4, <1>5, <1>6, <1>7, StepIs

\* Taking the wrapper away, where none was open, leaves all where they were.
LEMMA OthersStay ==
    ASSUME Known, NEW p \in Procs, Step(p), wrapper' = wrapper, NEW q \in Procs \ {p}
    PROVE  pc'[q] = pc[q] /\ job'[q] = job[q]
  BY StepLeaves DEF Known, Typed, Placed

-----------------------------------------------------------------------------
(* What a command may rely on while nobody disturbs it                       *)

Marked(file) == file # Missing /\ file.marker

\* A refresh that found a managed wrapper; a writer, or an installation that is
\* over; a removal that has unlinked the wrapper.
Holds(q) ==
    /\ job[q].command = "update" /\ pc[q] \in {"guard", "inspect"} =>
           Marked(wrapper) \/ Standing(job[q].root)
    /\ pc[q] = "write" => Standing(job[q].root)
    /\ pc[q] # "writeUnlinked"
    /\ pc[q] = "ended" /\ (\/ job[q].outcome = "READY"
                           \/ /\ job[q].command = "update"
                              /\ job[q].outcome = "NEEDS_ATTENTION" /\ job[q].guarded) =>
           Standing(job[q].root)
    /\ job[q].command = "remove" /\ pc[q] \in {"list", "rmdir"} => wrapper = Missing

Undisturbed == \A q \in Procs \ disturbed : Holds(q)

Settled ==
    /\ Known
    /\ disturbed \subseteq Relying /\ abandoned \in BOOLEAN
    /\ Undisturbed
    /\ TornMeansAbandoned

\* A command that relies on nothing holds all it relies on.
LEMMA OnlyRelying ==
    ASSUME NEW q \in Procs, Knows(q)', q \notin Relying'
    PROVE  Holds(q)'
  BY DEF Knows, Relying, Holds, Writing, Installing

\* The wrapper is as one package generates it, or about to be, whichever command
\* that leaves it alone takes a step.
LEMMA StandingStays ==
    ASSUME Known, NEW p \in Procs, Step(p), wrapper' = wrapper,
           pc[p] = "write" => pc'[p] = "write", NEW root, Standing(root)
    PROVE  Standing(root)'
  <1>1. CASE wrapper = generateWrapperContent(root)
    BY <1>1 DEF Standing, generateWrapperContent
  <1>2. CASE wrapper = TornFile /\ \E q \in Procs : pc[q] = "write" /\ job[q].root = root
    <2>1. PICK q \in Procs : pc[q] = "write" /\ job[q].root = root
      BY <1>2
    <2>2. pc'[q] = "write" /\ job'[q].root = root
      <3>1. CASE q = p
        BY <2>1, <3>1, StepLeaves
      <3>2. CASE q # p
        BY <2>1, <3>2, OthersStay
      <3> QED
        BY <3>1, <3>2
    <2> QED
      BY <1>2, <2>2 DEF Standing, TornFile
  <1> QED
    BY <1>1, <1>2 DEF Standing

\* Whoever is not disturbed by the step of another holds what it held.
LEMMA OthersHold ==
    ASSUME Known, NEW p \in Procs, Step(p), NEW q \in Procs \ {p}, Holds(q), ~Disturbs(p, q)
    PROVE  Holds(q)'
  <1>1. PICK root : root = job[q].root
    OBVIOUS
  <1>2. CASE wrapper' = wrapper /\ (pc[p] = "write" => pc'[p] = "write")
    <2>1. pc'[q] = pc[q] /\ job'[q] = job[q]
      BY <1>2, OthersStay
    <2>2. Standing(root) => Standing(root)'
      BY <1>2, StandingStays
    <2> QED
      BY <1>1, <1>2, <2>1, <2>2 DEF Holds, Standing, Marked
  <1>3. CASE ~(wrapper' = wrapper /\ (pc[p] = "write" => pc'[p] = "write"))
    <2>1. /\ pc[p] \in {"open", "write"} /\ job[q].command # "remove" /\ job[p].root = root
          /\ pc'[p] = "write" \/ wrapper' = generateWrapperContent(root)
      BY <1>1, <1>3 DEF Disturbs, Agrees
    <2>2. root \in Roots
      BY <2>1, JobTypes DEF Knows
    <2>3. \/ wrapper' = TornFile /\ pc'[p] = "write" /\ job'[p].root = root
          \/ wrapper' = generateWrapperContent(root)
      BY <1>3, <2>1, StepLeaves
    <2>4. pc'[q] = pc[q] /\ job'[q] = job[q]
      BY <2>2, <2>3, StepLeaves, WrittenFiles
    <2>5. Standing(root)'
      BY <2>3 DEF Standing, TornFile, generateWrapperContent
    <2> QED
      BY <1>1, <2>1, <2>4, <2>5 DEF Holds, Standing
  <1> QED
    BY <1>2, <1>3

LEMMA GoesTo ==
    ASSUME Known, NEW p \in Procs, NEW next, NEW record, GoOn(p, next, record)
    PROVE  pc'[p] = next /\ job'[p] = record
  BY DEF Known, Typed, Shape, GoOn

LEMMA EndsAs ==
    ASSUME Known, NEW p \in Procs, NEW record \in Jobs, NEW outcome, Ended(p, record, outcome)
    PROVE  /\ pc'[p] = "ended"
           /\ job'[p].outcome = outcome /\ job'[p].root = record.root
           /\ job'[p].command = record.command /\ job'[p].guarded = record.guarded
  <1> DEFINE over == [record EXCEPT !.outcome = outcome]
  <1>1. /\ over.outcome = outcome /\ over.root = record.root
        /\ over.command = record.command /\ over.guarded = record.guarded
    BY DEF Jobs
  <1>2. GoOn(p, "ended", over)
    BY DEF Ended
  <1> HIDE DEF over
  <1> QED
    BY <1>1, <1>2, GoesTo

\* Where a command relies on nothing.
LEMMA ElsewhereHolds ==
    ASSUME NEW p \in Procs,
           pc'[p] \notin {"write", "writeUnlinked", "ended", "list", "rmdir"},
           pc'[p] \in {"guard", "inspect"} => job'[p].command # "update"
    PROVE  Holds(p)'
  BY DEF Holds

LEMMA ReturnHolds ==
    ASSUME Known, NEW p \in Procs, NEW code, Return(p, code)
    PROVE  Holds(p)'
  BY GoesTo, ElsewhereHolds DEF Return

LEMMA InspectWrapperHolds ==
    ASSUME Known, NEW p \in Procs, InspectWrapper(p), Holds(p)
    PROVE  Holds(p)'
  <1> DEFINE seen == [job[p] EXCEPT !.saw = wrapper]
             state == detectOwnership(wrapper, seen.root)
  <1>1. pc[p] = "inspect" /\ wrapper' = wrapper
    BY DEF InspectWrapper, project
  <1>2. job[p] \in Jobs /\ wrapper \in Files
    BY JobTypes
  <1>3. /\ seen \in Jobs /\ seen.root = job[p].root
        /\ seen.command = job[p].command /\ seen.guarded = job[p].guarded
    BY <1>2 DEF Jobs
  <1>4. PICK root : root = job[p].root
    OBVIOUS
  <1>5. /\ state = "CONFLICT" => ~Marked(wrapper)
        /\ state = "MANAGED_CURRENT" => wrapper = generateWrapperContent(root)
    BY <1>3, <1>4 DEF detectOwnership, Marked
  <1>6. \/ \E code : Return(p, code)
        \/ (~seen.guarded \/ state = "CONFLICT") /\ Ended(p, seen, "NEEDS_ATTENTION")
        \/ state = "MANAGED_CURRENT" /\ Ended(p, seen, "READY")
        \/ GoOn(p, "mkdir", seen)
    BY Zenon DEF InspectWrapper
  <1>7. Step(p)
    BY DEF Step
  <1> HIDE DEF seen, state
  <1>8. Standing(root) => Standing(root)'
    BY <1>1, <1>7, StandingStays
  <1>9. CASE (~seen.guarded \/ state = "CONFLICT") /\ Ended(p, seen, "NEEDS_ATTENTION")
    <2>1. /\ pc'[p] = "ended" /\ job'[p].outcome = "NEEDS_ATTENTION" /\ job'[p].root = root
          /\ job'[p].command = job[p].command /\ job'[p].guarded = job[p].guarded
      BY <1>3, <1>4, <1>9, EndsAs
    <2>2. job[p].command = "update" /\ state = "CONFLICT" => Standing(root)
      BY <1>1, <1>4, <1>5 DEF Holds
    <2>3. job[p].command = "update" /\ job[p].guarded => Standing(root)'
      BY <1>3, <1>8, <1>9, <2>2
    <2> QED
      BY <2>1, <2>3 DEF Holds, Standing
  <1>10. CASE state = "MANAGED_CURRENT" /\ Ended(p, seen, "READY")
    <2>1. pc'[p] = "ended" /\ job'[p].root = root
      BY <1>3, <1>4, <1>10, EndsAs
    <2>2. Standing(root)'
      BY <1>1, <1>5, <1>10 DEF Standing, generateWrapperContent
    <2> QED
      BY <2>1, <2>2 DEF Holds, Standing
  <1>11. CASE GoOn(p, "mkdir", seen)
    BY <1>11, GoesTo, ElsewhereHolds
  <1> QED
    BY <1>6, <1>9, <1>10, <1>11, ReturnHolds

LEMMA OpenWrapperHolds ==
    ASSUME Known, NEW p \in Procs, OpenWrapper(p)
    PROVE  Holds(p)'
  <1>1. job[p] \in Jobs
    BY JobTypes
  <1>2. CASE wrapper' = TornFile /\ GoOn(p, "write", job[p])
    <2>1. pc'[p] = "write" /\ job'[p] = job[p]
      BY <1>2, GoesTo
    <2> QED
      BY <1>2, <2>1 DEF Holds, Standing, TornFile
  <1>3. CASE Ended(p, job[p], "ERROR")
    <2>1. pc'[p] = "ended" /\ job'[p].outcome = "ERROR"
      BY <1>1, <1>3, EndsAs
    <2> QED
      BY <2>1 DEF Holds
  <1> QED
    BY <1>2, <1>3 DEF OpenWrapper

LEMMA WriteWrapperHolds ==
    ASSUME Known, NEW p \in Procs, WriteWrapper(p), Holds(p)
    PROVE  Holds(p)'
  <1>1. PICK root : root = job[p].root
    OBVIOUS
  <1>2. pc[p] = "write" /\ wrapper \in {TornFile, generateWrapperContent(root)}
    BY <1>1 DEF WriteWrapper, Holds, Standing
  <1>3. wrapper' = generateWrapperContent(root) /\ Ended(p, job[p], "READY")
    BY <1>1, <1>2 DEF WriteWrapper
  <1>4. pc'[p] = "ended" /\ job'[p].root = root
    BY <1>1, <1>3, JobTypes, EndsAs
  <1>5. Standing(root)'
    BY <1>3 DEF Standing, generateWrapperContent
  <1> QED
    BY <1>4, <1>5 DEF Holds, Standing

LEMMA RemovingHolds ==
    ASSUME Known, NEW p \in Procs,
           RemoveLook(p) \/ Unlink(p) \/ ListDirectory(p) \/ RemoveDirectory(p)
    PROVE  Holds(p)'
  <1>1. CASE RemoveLook(p)
    <2>1. (\E code : Return(p, code)) \/ (\E record : GoOn(p, "unlink", record))
      BY <1>1, Zenon DEF RemoveLook
    <2>2. ASSUME NEW record, GoOn(p, "unlink", record) PROVE Holds(p)'
      BY <2>2, GoesTo, ElsewhereHolds
    <2> QED
      BY <2>1, <2>2, ReturnHolds
  <1>2. CASE Unlink(p)
    <2>1. wrapper' = Missing /\ (Return(p, 4) \/ Unlinked(p, "list", job[p]))
      BY <1>2 DEF Unlink
    <2>2. CASE Unlinked(p, "list", job[p])
      <3>1. pc'[p] = "list"
        BY <2>2 DEF Unlinked, Detached
      <3> QED
        BY <2>1, <3>1 DEF Holds
    <2> QED
      BY <2>1, <2>2, ReturnHolds
  <1>3. CASE ListDirectory(p)
    <2>1. \/ Return(p, 0)
          \/ wrapper' = Missing /\ \E record : GoOn(p, "rmdir", record)
      BY <1>3, Zenon DEF ListDirectory, project
    <2>2. ASSUME wrapper' = Missing, NEW record, GoOn(p, "rmdir", record) PROVE Holds(p)'
      <3>1. pc'[p] = "rmdir"
        BY <2>2, GoesTo
      <3> QED
        BY <2>2, <3>1 DEF Holds
    <2> QED
      BY <2>1, <2>2, ReturnHolds
  <1>4. CASE RemoveDirectory(p)
    <2>1. pc'[p] = "done"
      BY <1>4 DEF RemoveDirectory, Unlinked, Detached
    <2> QED
      BY <2>1, ElsewhereHolds
  <1> QED
    BY <1>1, <1>2, <1>3, <1>4

LEMMA SearchingHolds ==
    ASSUME Known, NEW p \in Procs,
           DiscoverVersions(p) \/ NpmInstall(p) \/ NpmVerify(p) \/ DiscoverIntegration(p)
    PROVE  Holds(p)'
  <1>1. \/ \E code : Return(p, code)
        \/ \E next \in {"npm", "verify", "discover"} : \E record : GoOn(p, next, record)
        \/ /\ wrapper' = wrapper /\ detectOwnership(wrapper, job[p].root) = "MANAGED_STALE"
           /\ \E record : GoOn(p, "guard", record)
    <2>1. CASE DiscoverVersions(p)
      BY <2>1, Zenon DEF DiscoverVersions
    <2>2. CASE NpmInstall(p) \/ NpmVerify(p)
      BY <2>2, Zenon DEF NpmInstall, NpmVerify
    <2>3. CASE DiscoverIntegration(p)
      BY <2>3, Zenon DEF DiscoverIntegration, project
    <2> QED
      BY <2>1, <2>2, <2>3
  <1>2. ASSUME NEW next \in {"npm", "verify", "discover"}, NEW record, GoOn(p, next, record)
        PROVE  Holds(p)'
    BY <1>2, GoesTo, ElsewhereHolds
  <1>3. ASSUME wrapper' = wrapper, detectOwnership(wrapper, job[p].root) = "MANAGED_STALE",
               NEW record, GoOn(p, "guard", record)
        PROVE  Holds(p)'
    <2>1. Marked(wrapper)
      BY <1>3 DEF detectOwnership, Marked
    <2>2. pc'[p] = "guard"
      BY <1>3, GoesTo
    <2> QED
      BY <1>3, <2>1, <2>2 DEF Holds, Marked
  <1> QED
    BY <1>1, <1>2, <1>3, ReturnHolds

LEMMA DiesHolds ==
    ASSUME Known, NEW p \in Procs, Dies(p), Holds(p)
    PROVE  Holds(p)'
  <1>1. wrapper' = wrapper /\ (GoOn(p, "idle", NoJob) \/ GoOn(p, pc[p], Orphan(p)))
    BY DEF Dies, Orphan, project
  <1>2. CASE GoOn(p, "idle", NoJob)
    BY <1>2, GoesTo, ElsewhereHolds
  <1>3. CASE GoOn(p, pc[p], Orphan(p))
    <2>1. PICK root : root = job[p].root
      OBVIOUS
    <2>2. /\ pc'[p] = pc[p] /\ job'[p].command = "install"
          /\ job'[p].root = root /\ job'[p].outcome = job[p].outcome
      BY <1>3, <2>1, GoesTo, OrphanIs
    <2>3. Step(p)
      BY DEF Step
    <2>4. Standing(root) => Standing(root)'
      BY <1>1, <2>2, <2>3, StandingStays
    <2> QED
      BY <2>1, <2>2, <2>4 DEF Holds, Standing
  <1> QED
    BY <1>1, <1>2, <1>3

LEMMA OwnHolds ==
    ASSUME Known, NEW p \in Procs, Step(p), Holds(p)
    PROVE  Holds(p)'
  <1>1. ASSUME NEW command \in {"install", "dry-run", "remove", "update", "update --check"},
               NEW root \in Roots, Begin(p, command, root)
        PROVE  Holds(p)'
    <2> DEFINE next == CASE command \in {"install", "dry-run"} -> "guard"
                         [] command = "remove" -> "removeLook"
                         [] command \in {"update", "update --check"} -> "discoverVersions"
               record == [NoJob EXCEPT !.command = command, !.root = root,
                                       !.current = package[root].version]
    <2>1. /\ next \in {"guard", "removeLook", "discoverVersions"}
          /\ next = "guard" => command # "update"
      OBVIOUS
    <2>2. record.command = command
      BY DEF NoJob
    <2>3. GoOn(p, next, record)
      BY <1>1, Zenon DEF Begin
    <2> HIDE DEF next, record
    <2> QED
      BY <2>1, <2>2, <2>3, GoesTo, ElsewhereHolds
  <1>2. CASE InspectGuard(p)
    <2>1. PICK root : root = job[p].root
      OBVIOUS
    <2> DEFINE record == [job[p] EXCEPT !.guarded = package[job[p].root].guard]
    <2>2. /\ pc[p] = "guard" /\ wrapper' = wrapper /\ GoOn(p, "inspect", record)
      BY <1>2 DEF InspectGuard, project
    <2>3. record.root = root /\ record.command = job[p].command
      BY <2>1, JobTypes DEF Jobs
    <2> HIDE DEF record
    <2>4. pc'[p] = "inspect" /\ job'[p] = record
      BY <2>2, GoesTo
    <2>5. Standing(root) => Standing(root)'
      BY <2>2, StandingStays
    <2> QED
      BY <2>1, <2>2, <2>3, <2>4, <2>5 DEF Holds, Standing, Marked
  <1>3. CASE MakeDirectory(p)
    BY <1>3, GoesTo, ElsewhereHolds DEF MakeDirectory
  <1>4. CASE InstallFails(p)
    <2>1. \/ \E code : Return(p, code)
          \/ \E outcome \in {"ERROR", "UNKNOWN"} : Ended(p, job[p], outcome)
      BY <1>4, Zenon DEF InstallFails
    <2>2. ASSUME NEW outcome \in {"ERROR", "UNKNOWN"}, Ended(p, job[p], outcome)
          PROVE  Holds(p)'
      <3>1. pc'[p] = "ended" /\ job'[p].outcome = outcome
        BY <2>2, JobTypes, EndsAs
      <3> QED
        BY <2>2, <3>1 DEF Holds
    <2> QED
      BY <2>1, <2>2, ReturnHolds
  <1>5. CASE TimesOut(p) \/ Answer(p) \/ RemovalFails(p)
    BY <1>5, ReturnHolds DEF TimesOut, Answer, RemovalFails
  <1> QED
    BY <1>1, <1>2, <1>3, <1>4, <1>5, InspectWrapperHolds, OpenWrapperHolds, WriteWrapperHolds,
       RemovingHolds, SearchingHolds, DiesHolds DEF Step

-----------------------------------------------------------------------------
(* The invariant                                                            *)

LEMMA InitSettled == Init => Settled
  <1> SUFFICES ASSUME Init PROVE Settled
    OBVIOUS
  <1>1. Known
    BY InitKnown
  <1>2. disturbed \subseteq Relying /\ abandoned \in BOOLEAN
    BY DEF Init
  <1>3. ASSUME NEW q \in Procs PROVE Holds(q)
    BY DEF Init, Holds
  <1>4. wrapper # TornFile
    BY WrittenFiles DEF Init, TornFile, generateWrapperContent
  <1> QED
    BY <1>1, <1>2, <1>3, <1>4 DEF Settled, Undisturbed, TornMeansAbandoned

LEMMA StepSettles ==
    ASSUME Settled, NEW p \in Procs, Step(p), KeepStep(p)
    PROVE  Settled'
  <1>1. Known /\ Known'
    BY StepKnows DEF Settled
  <1>2. disturbed' \subseteq Relying' /\ abandoned' \in BOOLEAN
    BY DEF KeepStep
  <1>3. ASSUME NEW q \in Procs, q \notin disturbed' PROVE Holds(q)'
    <2>1. CASE q \notin Relying'
      BY <1>1, <2>1, OnlyRelying DEF Known
    <2>2. CASE q \in Relying'
      <3>1. q \notin disturbed /\ (q # p => ~Disturbs(p, q))
        BY <1>3, <2>2 DEF KeepStep
      <3>2. Holds(q)
        BY <3>1 DEF Settled, Undisturbed
      <3> QED
        BY <1>1, <3>1, <3>2, OwnHolds, OthersHold
    <2> QED
      BY <2>1, <2>2
  <1>4. ASSUME wrapper' = TornFile, ~abandoned'
        PROVE  \E q \in Procs : pc'[q] = "write"
    <2>1. ~abandoned /\ ~(pc[p] = "write" /\ pc'[p] # "write")
      BY <1>4 DEF KeepStep
    <2>2. CASE wrapper # TornFile
      BY <1>1, <1>4, <2>2, StepLeaves
    <2>3. CASE wrapper = TornFile
      <3>1. PICK q \in Procs : pc[q] = "write"
        BY <2>1, <2>3 DEF Settled, TornMeansAbandoned
      <3>2. q # p => pc'[q] = "write"
        BY <1>1, <1>4, <2>3, <3>1, OthersStay
      <3> QED
        BY <2>1, <3>1, <3>2
    <2> QED
      BY <2>2, <2>3
  <1> QED
    BY <1>1, <1>2, <1>3, <1>4 DEF Settled, Undisturbed, TornMeansAbandoned, TornFile

\* What nobody reads or writes changes nothing.
LEMMA SameSettles ==
    ASSUME Settled, Known', UNCHANGED <<wrapper, pc, job, kept>>
    PROVE  Settled'
  <1>1. \A q \in Procs : Holds(q) => Holds(q)'
    BY DEF Holds, Standing, Marked, generateWrapperContent, TornFile, kept
  <1>2. Relying' = Relying
    BY DEF Relying
  <1> QED
    BY <1>1, <1>2 DEF Settled, Undisturbed, TornMeansAbandoned, TornFile, kept

LEMMA UserSettles ==
    ASSUME Settled, User
    PROVE  Settled'
  <1>1. Known /\ Known' /\ job' = job
    BY UserKnows, UserChanges DEF Settled
  <1>2. CASE UNCHANGED <<wrapper, pc, kept>>
    BY <1>1, <1>2, SameSettles
  <1>3. CASE wrapper' # TornFile /\ disturbed' = Relying
    <2>1. \A q \in Procs : pc'[q] = pc[q] \/ (pc[q] = "write" /\ pc'[q] = "writeUnlinked")
      BY <1>1, UserChanges
    <2>2. Relying' = Relying
      BY <1>1, <2>1 DEF Relying, Installing
    <2>3. \A q \in Procs \ Relying' : Holds(q)'
      BY <1>1, OnlyRelying DEF Known
    <2>4. abandoned' \in BOOLEAN
      BY DEF User, Settled, kept
    <2> QED
      BY <1>1, <1>3, <2>2, <2>3, <2>4 DEF Settled, Undisturbed, TornMeansAbandoned, TornFile
  <1> QED
    BY <1>1, <1>2, <1>3, UserChanges

LEMMA NextSettles == Settled /\ [Next]_integrationVars => Settled'
  <1> SUFFICES ASSUME Settled, [Next]_integrationVars PROVE Settled'
    OBVIOUS
  <1>1. CASE UNCHANGED integrationVars
    <2>1. Known'
      BY <1>1, StutterKnows DEF Settled
    <2> QED
      BY <1>1, <2>1, SameSettles DEF integrationVars
  <1>2. ASSUME NEW v \in Versions, Publish(v), UNCHANGED kept PROVE Settled'
    <2>1. Known'
      BY <1>2, PublishKnows DEF Settled
    <2>2. UNCHANGED <<wrapper, pc, job, kept>>
      BY <1>2 DEF Publish, project
    <2> QED
      BY <2>1, <2>2, SameSettles
  <1> QED
    BY <1>1, <1>2, StepSettles, UserSettles DEF Next

-----------------------------------------------------------------------------
(* The theorems                                                             *)

\* However many shells run commands, and whatever the user does between any two of
\* their steps, the variables keep their types and a file is in a directory that
\* exists: a wrapper is opened only where the directory was not removed meanwhile.
THEOREM IntegrationTypes == Spec => []TypeOK
  <1>1. Settled => TypeOK
    BY DEF Settled, Known, Typed, Shape, TypeOK, PCs, Relying
  <1> QED
    BY <1>1, InitSettled, NextSettles, PTL DEF Spec

\* An empty wrapper is one a shell is about to write, or one whose write was given up.
THEOREM TornIsAbandoned == Spec => []TornMeansAbandoned
  <1>1. Settled => TornMeansAbandoned
    BY DEF Settled
  <1> QED
    BY <1>1, InitSettled, NextSettles, PTL DEF Spec

LEMMA ReturnsCode ==
    ASSUME Known, NEW p \in Procs, NEW code, Return(p, code)
    PROVE  job'[p].code = code
  <1>1. [NoJob EXCEPT !.code = code].code = code
    BY DEF NoJob
  <1> QED
    BY <1>1, GoesTo DEF Return

\* A removal that succeeds leaves no wrapper.
LEMMA RemovalStands ==
    ASSUME Known, NEW p \in Procs, Step(p), Holds(p), Succeeds(p), job[p].command = "remove"
    PROVE  wrapper' = Missing
  <1>1. pc[p] \notin Installing \cup {"ended"} \cup Searching /\ ~job[p].updated
    BY JobTypes DEF Knows
  <1>2. ASSUME NEW command \in {"install", "dry-run", "remove", "update", "update --check"},
               NEW root \in Roots, Begin(p, command, root)
        PROVE  FALSE
    <2> DEFINE next == CASE command \in {"install", "dry-run"} -> "guard"
                         [] command = "remove" -> "removeLook"
                         [] command \in {"update", "update --check"} -> "discoverVersions"
    <2>1. next \in {"guard", "removeLook", "discoverVersions"}
      OBVIOUS
    <2>2. \E record : GoOn(p, next, record)
      BY <1>2, Zenon DEF Begin
    <2> HIDE DEF next
    <2>3. pc'[p] = next
      BY <2>2, GoesTo
    <2> QED
      BY <2>1, <2>3 DEF Succeeds
  <1>3. ~Dies(p)
    <2>1. Dies(p) => GoOn(p, "idle", NoJob)
      BY <1>1 DEF Dies
    <2> QED
      BY <2>1, GoesTo DEF Succeeds
  <1>4. RemoveLook(p) \/ Unlink(p) \/ ListDirectory(p) \/ RemoveDirectory(p) \/ RemovalFails(p)
    BY <1>1, <1>2, <1>3, Zenon
       DEF Step, InspectGuard, InspectWrapper, MakeDirectory, OpenWrapper, WriteWrapper,
           InstallFails, TimesOut, Answer, DiscoverVersions, NpmInstall, NpmVerify,
           DiscoverIntegration, Installing, Searching
  <1>5. CASE RemoveLook(p)
    <2>1. \/ wrapper' = wrapper /\ detectOwnershipForRemoval(wrapper) = "MISSING"
          \/ Return(p, 2)
          \/ \E record : GoOn(p, "unlink", record)
      BY <1>5, Zenon DEF RemoveLook, project
    <2>2. detectOwnershipForRemoval(wrapper) = "MISSING" => wrapper = Missing
      BY DEF detectOwnershipForRemoval
    <2> QED
      BY <2>1, <2>2, GoesTo, ReturnsCode DEF Succeeds
  <1>6. CASE Unlink(p) \/ RemoveDirectory(p)
    BY <1>6 DEF Unlink, RemoveDirectory
  <1>7. CASE ListDirectory(p)
    BY <1>7 DEF ListDirectory, Holds, project
  <1>8. CASE RemovalFails(p)
    <2>1. PICK code \in {4, 10} : Return(p, code)
      BY <1>8, Zenon DEF RemovalFails, exitCode
    <2> QED
      BY <2>1, ReturnsCode DEF Succeeds
  <1> QED
    BY <1>4, <1>5, <1>6, <1>7, <1>8

\* An installation that succeeds leaves the wrapper it promises.
LEMMA InstallStands ==
    ASSUME Known, NEW p \in Procs, Step(p), Holds(p), Succeeds(p), pc[p] = "ended",
           NEW root, root = job[p].root
    PROVE  \/ Standing(root)'
           \/ job[p].command = "update" /\ ~job[p].updated /\ ~job[p].guarded
  <1>1. Answer(p) \/ TimesOut(p) \/ Dies(p)
    <2>1. ASSUME NEW command \in {"install", "dry-run", "remove", "update", "update --check"},
                 NEW r \in Roots, Begin(p, command, r)
          PROVE  FALSE
      BY <2>1 DEF Begin
    <2> QED
      BY <2>1 DEF Step, InspectGuard, InspectWrapper, MakeDirectory, OpenWrapper, WriteWrapper,
             InstallFails, RemoveLook, Unlink, ListDirectory, RemoveDirectory, RemovalFails,
             DiscoverVersions, NpmInstall, NpmVerify, DiscoverIntegration, Installing
  <1>2. ~TimesOut(p)
    BY ReturnsCode DEF TimesOut, Succeeds
  <1>3. ~Dies(p)
    <2>1. Dies(p) => GoOn(p, "idle", NoJob) \/ GoOn(p, pc[p], Orphan(p))
      BY DEF Dies, Orphan
    <2> QED
      BY <2>1, GoesTo DEF Succeeds
  <1>4. /\ wrapper' = wrapper
        /\ (IF job[p].command = "update" THEN refreshCode(job[p].updated, job[p].outcome)
            ELSE exitCode(job[p].outcome)) = 0
    BY <1>1, <1>2, <1>3, ReturnsCode DEF Answer, Succeeds, project
  <1>5. Standing(root) => Standing(root)'
    BY <1>4, StandingStays
  <1>6. job[p].outcome \in Outcomes \ {"none"}
    BY JobTypes DEF Knows, Jobs
  <1>7. \/ job[p].outcome = "READY"
        \/ job[p].command = "update" /\ ~job[p].updated /\ job[p].outcome = "NEEDS_ATTENTION"
    BY <1>4, <1>6 DEF refreshCode, exitCode, Outcomes
  <1> QED
    BY <1>5, <1>7 DEF Holds

\* What a command that answers 0 did still stands, unless others disturbed it.
Success(p, root) ==
    Succeeds(p) /\ root = job[p].root =>
        /\ job[p].updated => /\ job[p].target.major = job[p].current.major
                             /\ compareSemVer(job[p].target, job[p].current)
        /\ p \notin disturbed =>
              /\ job[p].command = "remove" => wrapper' = Missing
              /\ pc[p] = "ended" =>
                    \/ Standing(root)'
                    \/ job[p].command = "update" /\ ~job[p].updated /\ ~job[p].guarded

LEMMA NextSucceeds ==
    ASSUME Settled, [Next]_integrationVars, NEW p \in Procs, NEW root \in Roots
    PROVE  Success(p, root)
  <1> SUFFICES ASSUME Succeeds(p), root = job[p].root
               PROVE  /\ job[p].updated => Compatible(job[p].target, job[p].current)
                      /\ p \notin disturbed =>
                            /\ job[p].command = "remove" => wrapper' = Missing
                            /\ pc[p] = "ended" =>
                                  \/ Standing(root)'
                                  \/ job[p].command = "update" /\ ~job[p].updated
                                     /\ ~job[p].guarded
    BY DEF Success, Compatible
  <1>1. Known /\ (p \notin disturbed => Holds(p))
    BY DEF Settled, Undisturbed
  <1>2. Step(p)
    <2>1. ASSUME NEW q \in Procs, Step(q), q # p PROVE FALSE
      BY <1>1, <2>1, StepLeaves DEF Succeeds
    <2>2. ~User
      BY <1>1, UserChanges DEF Succeeds
    <2>3. pc' # pc
      BY DEF Succeeds
    <2> QED
      BY <2>1, <2>2, <2>3 DEF Next, integrationVars, Publish
  <1>3. job[p].updated => Compatible(job[p].target, job[p].current)
    BY <1>1, JobTypes DEF Knows
  <1> QED
    BY <1>1, <1>2, <1>3, RemovalStands, InstallStands

\* What an install, a removal or an update that answers 0 did still stands as it
\* answers, whatever other shells write of the same package meanwhile, unless the
\* wrapper was changed otherwise, or its write given up, since the command looked.
THEOREM SuccessHolds == Spec => SuccessStands
  <1>1. Settled /\ [Next]_integrationVars =>
            (\A p \in Procs, root \in Roots : Success(p, root))
    BY NextSucceeds
  <1>2. (\A p \in Procs, root \in Roots : Success(p, root)) =>
        (\A p \in Procs, root \in Roots : Succeeds(p) /\ root = job[p].root =>
            /\ job[p].updated => /\ job[p].target.major = job[p].current.major
                                 /\ compareSemVer(job[p].target, job[p].current)
            /\ p \notin disturbed =>
                  /\ job[p].command = "remove" => wrapper' = Missing
                  /\ pc[p] = "ended" =>
                        \/ Standing(root)'
                        \/ job[p].command = "update" /\ ~job[p].updated /\ ~job[p].guarded)
    BY DEF Success
  <1> QED
    BY <1>1, <1>2, InitSettled, NextSettles, PTL DEF Spec, SuccessStands

\* A step that takes a file of the user's away is one of a command, and the file
\* is not the one that command saw when it last looked.
Loses ==
    edits' = edits =>
        /\ UsersFile(wrapper) /\ wrapper' # wrapper =>
               \E p \in Procs : Acts(p) /\ job[p].saw # wrapper
        /\ plugin # Missing /\ plugin' # plugin =>
               \E p \in Procs : Acts(p) /\ job[p].sawPlugin # plugin

LEMMA StepLoses ==
    ASSUME Known, NEW p \in Procs, Step(p), wrapper' # wrapper \/ plugin' # plugin
    PROVE  /\ Acts(p)
           /\ UsersFile(wrapper) /\ wrapper' # wrapper => job[p].saw # wrapper
           /\ plugin # Missing /\ plugin' # plugin => job[p].sawPlugin # plugin
  <1>1. Shape /\ Knows(p) /\ job[p] \in Jobs
    BY DEF Known, Typed, Shape
  <1>2. OpenWrapper(p) \/ WriteWrapper(p) \/ Unlink(p) \/ RemoveDirectory(p)
    BY DEF Step, Begin, InspectGuard, InspectWrapper, MakeDirectory, InstallFails, TimesOut,
           Answer, RemoveLook, ListDirectory, RemovalFails, DiscoverVersions, NpmInstall,
           NpmVerify, DiscoverIntegration, Dies, project, world
  <1>3. CASE OpenWrapper(p)
    <2>1. pc[p] = "open" /\ plugin' = plugin /\ (wrapper' = wrapper \/ GoOn(p, "write", job[p]))
      BY <1>3 DEF OpenWrapper
    <2>2. pc'[p] = "write" /\ ~UsersFile(job[p].saw)
      BY <1>1, <2>1, GoesTo DEF Knows, Writing
    <2> QED
      BY <2>1, <2>2 DEF Acts
  <1>4. CASE WriteWrapper(p)
    <2>1. /\ pc[p] \in {"write", "writeUnlinked"} /\ plugin' = plugin
          /\ Ended(p, job[p], "READY")
      BY <1>4 DEF WriteWrapper
    <2>2. ~UsersFile(job[p].saw)
      BY <1>1, <2>1 DEF Knows, Writing
    <2>3. pc'[p] = "ended"
      BY <1>1, <2>1, EndsAs
    <2> QED
      BY <2>1, <2>2, <2>3 DEF Acts
  <1>5. CASE Unlink(p)
    <2>1. /\ pc[p] = "unlink" /\ wrapper' = Missing /\ plugin' = plugin
          /\ Unlinked(p, "list", job[p])
      BY <1>5 DEF Unlink
    <2>2. job[p].saw.marker
      BY <1>1, <2>1 DEF Knows
    <2>3. pc'[p] = "list"
      BY <2>1 DEF Unlinked, Detached
    <2> QED
      BY <2>1, <2>2, <2>3 DEF Acts, UsersFile
  <1>6. CASE RemoveDirectory(p)
    <2>1. pc[p] = "rmdir" /\ Unlinked(p, "done", NoJob)
      BY <1>6 DEF RemoveDirectory
    <2>2. job[p].saw = Missing /\ job[p].sawPlugin = Missing
      BY <1>1, <2>1 DEF Knows
    <2>3. pc'[p] = "done"
      BY <2>1 DEF Unlinked, Detached
    <2> QED
      BY <2>1, <2>2, <2>3 DEF Acts, UsersFile
  <1> QED
    BY <1>2, <1>3, <1>4, <1>5, <1>6

LEMMA NextLoses == Settled /\ [Next]_integrationVars => Loses
  <1> SUFFICES ASSUME Settled, [Next]_integrationVars, edits' = edits,
                      wrapper' # wrapper \/ plugin' # plugin
               PROVE  \E p \in Procs : Step(p)
    BY StepLoses DEF Loses, Settled
  <1>1. Known /\ edits \in Nat
    BY DEF Settled, Known, Typed, Shape
  <1>2. ~User
    BY <1>1, UserChanges
  <1> QED
    BY <1>2 DEF Next, integrationVars, Publish, project

\* A file of the user's that stands, at the wrapper's path or beside it, when a
\* command last looks is not lost to that command.
THEOREM UsersFilesKept == Spec => OnlyUnseenFilesAreLost
  <1>1. Loses => (edits' = edits =>
                     /\ UsersFile(wrapper) /\ wrapper' # wrapper =>
                            \E p \in Procs : Acts(p) /\ job[p].saw # wrapper
                     /\ plugin # Missing /\ plugin' # plugin =>
                            \E p \in Procs : Acts(p) /\ job[p].sawPlugin # plugin)
    BY DEF Loses
  <1> QED
    BY <1>1, InitSettled, NextSettles, NextLoses, PTL DEF Spec, OnlyUnseenFilesAreLost
=============================================================================
