------------------------------- MODULE Toolchain -------------------------------
(***************************************************************************)
(* The command line (kiteframe-cli/src/command.rs) at work on a package that *)
(* is being edited: `lock` loads a package, reads the catalog and replaces   *)
(* its capability.lock (write_lock_atomic of kiteframe-resolver/src/lock.rs);*)
(* `compile` loads a package, reads the locks of its tree one after another  *)
(* and emits the resolved agent.  Commands run at the same time as each      *)
(* other and as the author's edits, see a file as it is when they open it,   *)
(* and can be killed; the machine can lose power, and with it what has not   *)
(* been synchronized.                                                       *)
(*                                                                          *)
(* A lock file keeps, beside the lock, what it was made of and when: only    *)
(* the properties look at that.                                             *)
(***************************************************************************)
EXTENDS CapabilityLock

CONSTANTS
    Jobs,           \* the commands that can run at a time
    InitialDisk,    \* the package as it is at first
    Edits,          \* what the author may save: paths and files
    Catalogs,       \* what the catalog file may contain
    Directories,    \* the packages commands are run in
    MaxCommands,    \* bound on the commands run
    MaxEdits        \* bound on the edits made

Files == Range(InitialDisk) \cup {edit.file : edit \in Edits}

ASSUME ToolchainAssumption ==
    /\ InitialDisk \in [DOMAIN InitialDisk -> Files]
    /\ Directories \subseteq Paths
    /\ \A file \in Files : file.manifest # Unset => WellFormed(file.manifest)
    /\ \A published \in Catalogs : WellCatalogued(published)

VARIABLES
    disk,           \* the files of the package
    catalog,        \* the catalog file
    locks,          \* the lock files, of every directory
    jobs,           \* where each command stands
    commands,       \* how many were run
    edits,          \* how many edits were made
    emitted         \* the resolved agent emitted last, and of what

vars == <<disk, catalog, locks, jobs, commands, edits, emitted>>

\* No lock file, and one of which a part is there.
NoLock == [whole |-> FALSE, generation |-> 0]
Torn(generation) == [whole |-> FALSE, generation |-> generation]

Idle == [pc |-> "idle"]

Later(m, n) == IF m >= n THEN m ELSE n

-----------------------------------------------------------------------------
(* Commands.                                                                *)

Goto(j, pc) == [jobs[j] EXCEPT !.pc = pc]

Proceed(j, job) ==
    /\ jobs' = [jobs EXCEPT ![j] = job]
    /\ UNCHANGED <<disk, catalog, locks, commands, edits, emitted>>

Start(j, command, directory) ==
    /\ jobs[j] = Idle
    /\ commands < MaxCommands
    /\ commands' = commands + 1
    /\ jobs' = [jobs EXCEPT ![j] =
           [pc |-> "load", command |-> command, directory |-> directory,
            load |-> Loading(directory), file |-> NoLock, synced |-> FALSE,
            read |-> Empty]]
    /\ emitted' = {}
    /\ UNCHANGED <<disk, catalog, locks, edits>>

\* load_package opens its next file, or has opened its last.
Load(j) ==
    /\ jobs[j].pc = "load"
    /\ LET load == LoadStep(jobs[j].load, disk)
       IN Proceed(j, CASE load.pc = "failed" -> Idle
                       [] load.pc = "loaded" ->
                            [jobs[j] EXCEPT !.load = load, !.pc = jobs[j].command]
                       [] OTHER -> [jobs[j] EXCEPT !.load = load])

Package(j) == jobs[j].load.package

\* lock: the catalog is read, the capabilities are selected, and the lock is
\* written to a temporary file if its contents verify.
MakeLock(j) ==
    /\ jobs[j].pc = "lock"
    /\ LET lock == LockOf(Package(j), catalog)
       IN Proceed(j, IF Selectable(Package(j), catalog) /\ LockedOnce(Package(j), catalog)
                       THEN [Goto(j, "written") EXCEPT !.file =
                               [whole |-> TRUE, generation |-> 0, lock |-> lock,
                                package |-> Package(j)]]
                       ELSE Idle)

FaultySyncFile(job) == [job EXCEPT !.pc = "persist"]
SyncFile(job) == [job EXCEPT !.pc = "persist", !.synced = TRUE]

SyncTemporary(j) ==
    /\ jobs[j].pc = "written"
    /\ Proceed(j, SyncFile(jobs[j]))

\* The temporary file takes the lock's place.  Until the directory is
\* synchronized a power loss may bring back any lock that was there since it
\* last was, and of a file that is not synchronized itself only a part.
Persist(j) ==
    LET job == jobs[j]
        directory == job.directory
        place == locks[directory]
        generation == place.last + 1
        file == [job.file EXCEPT !.generation = generation]
        kept == place.kept \cup {file} \cup
                    IF job.synced THEN {} ELSE {Torn(generation)}
    IN /\ job.pc = "persist"
       /\ locks' = [locks EXCEPT ![directory] =
              [place EXCEPT !.visible = file, !.last = generation, !.kept = kept]]
       /\ jobs' = [jobs EXCEPT ![j] = [job EXCEPT !.pc = "sync", !.file = file]]
       /\ UNCHANGED <<disk, catalog, commands, edits, emitted>>

FaultyDirectorySynced(directory) == locks[directory]

DirectorySynced(directory) ==
    [locks[directory] EXCEPT !.kept = {locks[directory].visible}]

\* sync_parent_directory, and the command reports that it has locked.
Report(j) ==
    LET directory == jobs[j].directory
        synced == DirectorySynced(directory)
        reported == Later(synced.reported, jobs[j].file.generation)
    IN /\ jobs[j].pc = "sync"
       /\ locks' = [locks EXCEPT ![directory] = [synced EXCEPT !.reported = reported]]
       /\ jobs' = [jobs EXCEPT ![j] = Idle]
       /\ UNCHANGED <<disk, catalog, commands, edits, emitted>>

Readable(file) == file.whole

\* The lock file of a directory; where no command is run there is none.
LockFile(directory) ==
    IF directory \in Directories THEN locks[directory].visible ELSE NoLock

\* compile: the root's lock is read and verified.
ReadLock(j) ==
    /\ jobs[j].pc = "compile"
    /\ LET file == LockFile(jobs[j].directory)
       IN Proceed(j, IF Readable(file) /\ VerifyLock(Package(j), file.lock)
                       THEN [Goto(j, "children") EXCEPT
                               !.read = With(@, Identity(Package(j)), file)]
                       ELSE Idle)

\* collect_child_locks, a package at a time, and in any order of them.
Unread(j) ==
    {p \in Tree(Package(j)) : Identity(p) \notin DOMAIN jobs[j].read}

ReadChildLock(j) ==
    /\ jobs[j].pc = "children"
    /\ \E child \in Unread(j) :
          LET file == LockFile(child.directory)
          IN Proceed(j, IF Readable(file)
                          THEN [jobs[j] EXCEPT !.read = With(@, Identity(child), file)]
                          ELSE Idle)

\* resolve_agent, and the resolved agent is written.
Compile(j) ==
    /\ jobs[j].pc = "children"
    /\ Unread(j) = {}
    /\ LET read == jobs[j].read
           tree == [identity \in DOMAIN read |-> read[identity].lock]
       IN emitted' = IF AgentResolves(Package(j), tree)
                       THEN {[agents |-> ResolvedAgents(Package(j), tree),
                              package |-> Package(j), of |-> read]}
                       ELSE {}
    /\ jobs' = [jobs EXCEPT ![j] = Idle]
    /\ UNCHANGED <<disk, catalog, locks, commands, edits>>

\* A command is killed, or something it does fails.
Killed(j) ==
    /\ jobs[j] # Idle
    /\ Proceed(j, Idle)

-----------------------------------------------------------------------------
(* What surrounds them.                                                     *)

Edit ==
    /\ edits < MaxEdits
    /\ edits' = edits + 1
    /\ \E edit \in Edits : disk' = With(disk, edit.path, edit.file)
    /\ UNCHANGED <<catalog, locks, jobs, commands, emitted>>

Publish ==
    /\ catalog' \in Catalogs \ {catalog}
    /\ UNCHANGED <<disk, locks, jobs, commands, edits, emitted>>

\* Each directory has some lock it had since it was last synchronized.
PowerLoss ==
    /\ \E file \in [Directories -> UNION {locks[d].kept : d \in Directories}] :
          /\ \A d \in Directories : file[d] \in locks[d].kept
          /\ locks' = [d \in Directories |-> [locks[d] EXCEPT
                          !.visible = file[d], !.kept = {file[d]}]]
    /\ jobs' = [j \in Jobs |-> Idle]
    /\ UNCHANGED <<disk, catalog, commands, edits, emitted>>

Init ==
    /\ disk = InitialDisk
    /\ catalog \in Catalogs
    /\ locks = [d \in Directories |->
                   [visible |-> NoLock, kept |-> {NoLock}, last |-> 0, reported |-> 0]]
    /\ jobs = [j \in Jobs |-> Idle]
    /\ commands = 0
    /\ edits = 0
    /\ emitted = {}

Next ==
    \/ \E j \in Jobs :
          \/ \E command \in {"lock", "compile"}, directory \in Directories :
                Start(j, command, directory)
          \/ Load(j)
          \/ MakeLock(j) \/ SyncTemporary(j) \/ Persist(j) \/ Report(j)
          \/ ReadLock(j) \/ ReadChildLock(j) \/ Compile(j)
          \/ Killed(j)
    \/ Edit \/ Publish \/ PowerLoss

Spec == Init /\ [][Next]_vars

-----------------------------------------------------------------------------
(* Properties.                                                              *)

Loaded == {Package(j) : j \in {i \in Jobs : jobs[i] # Idle /\ jobs[i].load.pc = "loaded"}}

\* The files of a package, from the directory the load was given.
FilesOf(package) ==
    {Within(package.directory, r.path) : r \in Range(References(package.manifest))}

\* load_package, whatever the author saves meanwhile: no two packages of the
\* tree have one identity, and no two references, of one package or of packages
\* of two directories, are to one file, not even by another case.
LoadedSound ==
    \A package \in Loaded :
        /\ UniqueIdentities(Tree(package))
        /\ \A p, q \in Tree(package) :
              \A file \in FilesOf(p), other \in FilesOf(q) :
                  Folded(file) = Folded(other) =>
                      p.directory = q.directory /\ file = other

\* write_lock_atomic: whatever is killed and whenever the power fails, the lock
\* that is found is a whole one, or there is none.
LocksWhole ==
    \A d \in Directories : \A file \in {locks[d].visible} \cup locks[d].kept :
        file = NoLock \/ Readable(file)

\* write_lock_atomic synchronizes the directory before the command reports:
\* a power loss brings back no lock that is older than one reported.
ReportedLocksStay ==
    \A d \in Directories : \A file \in locks[d].kept :
        file.generation >= locks[d].reported

\* The packages that were compiled, each with its resolved agent and the lock
\* file it was resolved with.
Compiled ==
    UNION {{[agent |-> e.agents[p], package |-> p, of |-> e.of[Identity(p)]] :
               p \in Tree(e.package)} : e \in emitted}

\* verify_lock and resolve_package, between two commands and many edits: of
\* every package of the tree, what is compiled is what was locked, text by
\* text, however the files have changed since, and back.  The digest has one
\* text of a prompt that is also a skill, the skill's.
CompiledAsLocked ==
    \A c \in Compiled :
        LET locked == c.of.package
        IN /\ c.package.manifest = locked.manifest
           /\ DOMAIN c.agent.prompts = DOMAIN locked.prompts
           /\ \A path \in DOMAIN locked.prompts \ DOMAIN locked.skills :
                 c.agent.prompts[path] = locked.prompts[path]
           /\ c.agent.skills = locked.skills

Entry(c, identity) ==
    [identity |-> identity, descriptor |-> c.of.lock.catalog.descriptors[identity]]

\* What a requirement was given.
Got(c, r) ==
    {f.capability : f \in {g \in c.agent.capabilities :
                              g.required = r.required /\ g.resources = r.resources}}

NewestFor(c, r) ==
    Newest(Candidates(r, c.of.lock.catalog))

\* lock_package selects a version from the catalog, resolve_capabilities finds
\* one in the lock, by another rule and in another order: if a package compiles
\* at all, each of its requirements got the newest version that its catalog had
\* for it when it was locked, and nothing else was compiled.
SelectionKept ==
    \A c \in Compiled :
        /\ \A r \in Requirements(c.package) :
              \A i \in NewestFor(c, r) : Entry(c, i) \in Got(c, r)
        /\ \A f \in c.agent.capabilities : \E r \in Requirements(c.package) :
              f.capability \in Got(c, r) /\ f.capability.identity \in NewestFor(c, r)

\* resolve_models for a whole tree under one binding: every role of every
\* package runs on a model that satisfies it, fallbacks included, and only an
\* optional one goes without.
ModelsSuffice ==
    \A c \in Compiled : \A role \in DOMAIN c.package.manifest.models :
        LET requirement == c.package.manifest.models[role]
            models == c.agent.models
        IN /\ requirement.required => role \in DOMAIN models
           /\ role \in DOMAIN models => ModelSatisfies(models[role], requirement)
=============================================================================
