---------------------------- MODULE ToolchainProofs ----------------------------
(***************************************************************************)
(* The invariant of Toolchain and what follows from it: loads assemble sound *)
(* packages, lock files are whole and say what they were made of, and what is *)
(* compiled is what was locked and selected then.                           *)
(***************************************************************************)
EXTENDS Toolchain, SequenceTheorems, FiniteSetTheorems, WellFoundedInduction, TLAPS

\* What any agent.yaml there may be parses to.
Manifests == {file.manifest : file \in Files} \ {Unset}

-----------------------------------------------------------------------------
(* Loads.                                                                   *)

\* A value is a function, and so equals another that agrees with it.
IsFunction(f) == f = [x \in DOMAIN f |-> f[x]]

\* Every reference of a manifest but those left was read.
ReadSoFar(frame) ==
    /\ \A r \in Range(frame.left) : r \in Range(References(frame.manifest))
    /\ \A r \in Range(References(frame.manifest)) :
          \/ r \in Range(frame.left)
          \/ /\ r.kind = "prompt" => r.path \in DOMAIN frame.prompts
             /\ r.kind = "skill" => r.path \in DOMAIN frame.skills
    /\ DOMAIN frame.prompts \subseteq {frame.manifest.prompt}
    /\ DOMAIN frame.skills \subseteq Range(frame.manifest.skills)
    /\ IsFunction(frame.prompts) /\ IsFunction(frame.skills)

\* What a walk has left to read.
PathReferences == [kind : {"prompt", "skill", "agent"}, path : Paths]

\* A package being assembled: its manifest was read, and what is no longer left.
IsFrame(frame) ==
    /\ frame = [prefix |-> frame.prefix, manifest |-> frame.manifest,
                left |-> frame.left, prompts |-> frame.prompts,
                skills |-> frame.skills, children |-> frame.children]
    /\ frame.prefix \in Paths
    /\ frame.manifest \in Manifests
    /\ frame.left \in Seq(PathReferences)
    /\ ReadSoFar(frame)

\* A package as it was assembled.
Sealed(package) ==
    /\ package.manifest \in Manifests
    /\ DOMAIN package.prompts = {package.manifest.prompt}
    /\ DOMAIN package.skills = Range(package.manifest.skills)
    /\ IsFunction(package.prompts) /\ IsFunction(package.skills)
    /\ package.portable = PortableDigest(package.manifest, package.prompts,
                                         package.skills, package.children)

\* The files of a package are registered under the prefix it was found at.
Placed(load, package) ==
    \E prefix \in {entry.prefix : entry \in load.paths} :
        /\ prefix \in Paths
        /\ package.directory = Within(load.directory, prefix)
        /\ Tracked(prefix, References(package.manifest)) \subseteq load.paths

\* The packages a load has assembled.
Below(frame) == UNION {Tree(frame.children[path]) : path \in DOMAIN frame.children}
Held(load) == UNION {Below(load.frames[n]) : n \in DOMAIN load.frames}

\* The identity of a package being assembled.
FrameIdentity(load, n) == load.frames[n].manifest.identity

\* A walk under way: of the packages being assembled and those that are complete
\* no two have one identity, all were entered, and all their paths registered.
Entered(load) ==
    /\ \A n \in DOMAIN load.frames :
          /\ IsFrame(load.frames[n])
          /\ FrameIdentity(load, n) \in load.seen
          /\ Tracked(load.frames[n].prefix, References(load.frames[n].manifest))
                \subseteq load.paths
    /\ \A m, n \in DOMAIN load.frames :
          FrameIdentity(load, m) = FrameIdentity(load, n) => m = n
    /\ \A p \in Held(load) :
          /\ Sealed(p) /\ Placed(load, p)
          /\ Identity(p) \in load.seen
          /\ \A n \in DOMAIN load.frames : Identity(p) # FrameIdentity(load, n)
    /\ UniqueIdentities(Held(load))

\* The same of a tree that is complete.
Whole(load, package) ==
    /\ \A p \in Tree(package) : Sealed(p) /\ Placed(load, p)
    /\ UniqueIdentities(Tree(package))

\* The fields of a load, and that no two of its registered paths collide.
IsLoad(load) ==
    /\ load = [pc |-> load.pc, directory |-> load.directory,
               frames |-> load.frames, used |-> load.used, active |-> load.active,
               seen |-> load.seen, paths |-> load.paths, package |-> load.package]
    /\ load.directory \in Paths
    /\ load.frames \in Seq(Range(load.frames))
    /\ ~Collides(load.paths)

\* A load, wherever it stands.
LoadSound(load) ==
    /\ IsLoad(load)
    /\ load.pc \in {"open", "read", "loaded", "failed"}
    /\ load.pc = "open" => load = Loading(load.directory)
    /\ load.pc = "read" => load.frames # <<>> /\ Entered(load)
    /\ load.pc = "loaded" => Whole(load, load.package)

-----------------------------------------------------------------------------
(* Lock files, commands and what they leave.                                *)

\* A lock that was made, and of what.
Made(file) ==
    /\ file = [whole |-> file.whole, generation |-> file.generation, lock |-> file.lock,
               package |-> file.package]
    /\ file.whole
    /\ file.generation \in Nat
    /\ Sealed(file.package)
    /\ file.lock.catalog \in Catalogs
    /\ file.lock = LockOf(file.package, file.lock.catalog)
    /\ LockedOnce(file.package, file.lock.catalog)

\* The lock file of a directory: all it has been since its last sync was made, and
\* is no older than what was reported.
LockStands(lock) ==
    /\ lock = [visible |-> lock.visible, kept |-> lock.kept, last |-> lock.last,
               reported |-> lock.reported]
    /\ lock.last \in Nat /\ lock.reported \in Nat
    /\ lock.visible \in lock.kept
    /\ \A file \in lock.kept :
          /\ file = NoLock \/ Made(file)
          /\ lock.reported <= file.generation /\ file.generation <= lock.last

\* A command holds a sound load, and locks that were made.
JobStands(job) ==
    \/ job = Idle
    \/ /\ job = [pc |-> job.pc, command |-> job.command, directory |-> job.directory,
                 load |-> job.load, file |-> job.file, synced |-> job.synced,
                 read |-> job.read]
       /\ job.pc \in {"load", "lock", "written", "persist", "sync", "compile", "children"}
       /\ job.command \in {"lock", "compile"}
       /\ job.directory \in Directories
       /\ LoadSound(job.load)
       /\ job.load.pc \in IF job.pc = "load" THEN {"open", "read"} ELSE {"loaded"}
       /\ job.pc \in {"written", "persist", "sync"} => Made(job.file)
       /\ job.pc = "persist" => job.synced = TRUE
       /\ IsFunction(job.read)
       /\ \A identity \in DOMAIN job.read : Made(job.read[identity])

\* What was emitted, and of which packages and locks.
EmittedStands(e) ==
    /\ e.agents = ResolvedAgents(e.package, [i \in DOMAIN e.of |-> e.of[i].lock])
    /\ \A p \in Tree(e.package) :
          /\ Sealed(p)
          /\ Identity(p) \in DOMAIN e.of
          /\ Made(e.of[Identity(p)])
          /\ Resolvable(p, e.of[Identity(p)].lock)

\* Between Persist and Report the command's lock, or a later one, is in place.
ToolchainInv ==
    /\ IsFunction(disk)
    /\ \A path \in DOMAIN disk : disk[path] \in Files
    /\ catalog \in Catalogs
    /\ locks = [d \in Directories |-> locks[d]]
    /\ \A d \in Directories : LockStands(locks[d])
    /\ jobs = [j \in Jobs |-> jobs[j]]
    /\ \A j \in Jobs : JobStands(jobs[j])
    /\ \A j \in Jobs : jobs[j].pc = "sync" =>
          jobs[j].file.generation <= locks[jobs[j].directory].visible.generation
    /\ \A e \in emitted : EmittedStands(e)

-----------------------------------------------------------------------------
(* Paths and references.                                                    *)

\* Paths that go on alike from one directory are alike.
LEMMA FoldedBelow ==
    ASSUME NEW directory \in Paths, NEW s \in Paths, NEW t \in Paths,
           Folded(directory \o s) = Folded(directory \o t)
    PROVE  Folded(s) = Folded(t)
  <1> DEFINE d == Len(directory)
  <1>1. d \in Nat /\ Len(s) \in Nat /\ Len(t) \in Nat
    BY LenProperties DEF Paths
  <1>2. /\ DOMAIN (directory \o s) = 1..d + Len(s)
        /\ DOMAIN (directory \o t) = 1..d + Len(t)
    BY ConcatProperties, LenProperties DEF Paths
  <1>3. DOMAIN (directory \o s) = DOMAIN (directory \o t)
    BY DEF Folded
  <1> HIDE DEF d
  <1>4. Len(s) = Len(t)
    BY <1>1, <1>2, <1>3
  <1>5. /\ DOMAIN s = 1..Len(s)
        /\ DOMAIN t = 1..Len(t)
    BY LenProperties DEF Paths
  <1>6. ASSUME NEW n \in 1..Len(s)
        PROVE  Lower(s[n]) = Lower(t[n])
    <2>1. d + n \in DOMAIN (directory \o s)
      BY <1>1, <1>2
    <2>2. Folded(directory \o s)[d + n] = Folded(directory \o t)[d + n]
      OBVIOUS
    <2>3. Lower((directory \o s)[d + n]) = Lower((directory \o t)[d + n])
      BY <2>1, <2>2, <1>3 DEF Folded
    <2>4. /\ (directory \o s)[d + n] = s[n]
          /\ (directory \o t)[d + n] = t[n]
      BY <1>1, <1>4 DEF Paths, d
    <2>5. QED
      BY <2>3, <2>4
  <1>7. QED
    BY <1>4, <1>5, <1>6 DEF Folded

\* Where a path leads from a directory of a directory.
LEMMA WithinWithin ==
    ASSUME NEW directory \in Paths, NEW prefix \in Paths, NEW path \in Paths
    PROVE  /\ Within(prefix, path) \in Paths
           /\ Within(Within(directory, prefix), path) =
                Within(directory, Within(prefix, path))
  BY ConcatAssociative, ConcatProperties DEF Within, Paths

\* The references of a manifest are its prompt, its skills and its subagents.
LEMMA ReferencesOf ==
    ASSUME NEW manifest \in Manifests
    PROVE  /\ References(manifest) \in Seq(PathReferences)
           /\ \A r \in Range(References(manifest)) :
                 /\ r \in PathReferences
                 /\ r.kind = "prompt" => r.path = manifest.prompt
                 /\ r.kind = "skill" => r.path \in Range(manifest.skills)
           /\ [kind |-> "prompt", path |-> manifest.prompt] \in Range(References(manifest))
           /\ \A path \in Range(manifest.skills) :
                 [kind |-> "skill", path |-> path] \in Range(References(manifest))
  <1>1. WellFormed(manifest)
    BY ToolchainAssumption DEF Manifests
  <1>2. /\ manifest.prompt \in Paths
        /\ manifest.skills \in Seq(Paths)
        /\ manifest.delegation \in Seq(Range(manifest.delegation))
        /\ \A delegation \in Range(manifest.delegation) : delegation.agent \in Paths
    BY <1>1 DEF WellFormed
  <1> DEFINE prompt == Prompt(manifest)
             skills == Skills(manifest)
             agents == Subagents(manifest)
  <1>3. /\ prompt \in Seq(PathReferences)
        /\ Range(prompt) = {[kind |-> "prompt", path |-> manifest.prompt]}
    BY <1>2 DEF Prompt, PathReferences, Range
  <1>4. /\ skills \in Seq(PathReferences)
        /\ Range(skills) = {[kind |-> "skill", path |-> path] : path \in Range(manifest.skills)}
    <2>1. /\ Len(manifest.skills) \in Nat
          /\ DOMAIN manifest.skills = 1..Len(manifest.skills)
          /\ \A n \in 1..Len(manifest.skills) : manifest.skills[n] \in Paths
      BY <1>2, LenProperties
    <2>2. /\ DOMAIN skills = 1..Len(manifest.skills)
          /\ \A n \in 1..Len(manifest.skills) :
                skills[n] = [kind |-> "skill", path |-> manifest.skills[n]]
      BY <2>1 DEF Skills
    <2>3. skills \in [1..Len(manifest.skills) -> PathReferences]
      BY <2>1 DEF Skills, PathReferences
    <2>4. skills \in Seq(PathReferences)
      BY <2>1, <2>3, SeqDef
    <2>5. Range(skills) = {[kind |-> "skill", path |-> path] : path \in Range(manifest.skills)}
      <3> HIDE DEF skills
      <3>1. QED
        BY <2>1, <2>2 DEF Range
    <2>6. QED
      BY <2>4, <2>5
  <1>5. /\ agents \in Seq(PathReferences)
        /\ \A r \in Range(agents) : r.kind = "agent"
    <2>1. /\ Len(manifest.delegation) \in Nat
          /\ DOMAIN manifest.delegation = 1..Len(manifest.delegation)
      BY <1>2, LenProperties
    <2>2. \A n \in DOMAIN manifest.delegation : manifest.delegation[n].agent \in Paths
      BY <1>2 DEF Range
    <2>3. agents \in [1..Len(manifest.delegation) -> PathReferences]
      BY <2>1, <2>2 DEF Subagents, PathReferences
    <2>4. /\ DOMAIN agents = DOMAIN manifest.delegation
          /\ \A n \in DOMAIN manifest.delegation : agents[n].kind = "agent"
      BY DEF Subagents
    <2>5. \A r \in Range(agents) : r.kind = "agent"
      <3> HIDE DEF agents
      <3>1. QED
        BY <2>4 DEF Range
    <2>6. QED
      BY <2>1, <2>3, <2>5, SeqDef
  <1> HIDE DEF prompt, skills, agents
  <1>6. References(manifest) = (prompt \o skills) \o agents
    BY <1>3, <1>4, <1>5, ConcatAssociative DEF References, prompt, skills, agents
  <1>7. /\ prompt \o skills \in Seq(PathReferences)
        /\ Range(prompt \o skills) = Range(prompt) \cup Range(skills)
    BY <1>3, <1>4, ConcatProperties, RangeConcatenation
  <1>8. /\ References(manifest) \in Seq(PathReferences)
        /\ Range(References(manifest)) = Range(prompt) \cup Range(skills) \cup Range(agents)
    <2> DEFINE texts == prompt \o skills
    <2> HIDE DEF texts
    <2>1. texts \in Seq(PathReferences) /\ agents \in Seq(PathReferences)
      BY <1>5, <1>7 DEF texts
    <2>2. /\ texts \o agents \in Seq(PathReferences)
          /\ Range(texts \o agents) = Range(texts) \cup Range(agents)
      BY <2>1, ConcatProperties, RangeConcatenation
    <2>3. QED
      BY <1>6, <1>7, <2>2 DEF texts
  <1>9. \A r \in Range(References(manifest)) : r \in PathReferences
    BY <1>8, RangeOfSeq
  <1>10. ASSUME NEW r \in Range(References(manifest))
         PROVE  /\ r.kind = "prompt" => r.path = manifest.prompt
                /\ r.kind = "skill" => r.path \in Range(manifest.skills)
    <2>1. CASE r \in Range(prompt)
      BY <1>3, <2>1
    <2>2. CASE r \in Range(skills)
      BY <1>4, <2>2
    <2>3. CASE r \in Range(agents)
      BY <1>5, <2>3
    <2>4. QED
      BY <1>8, <2>1, <2>2, <2>3
  <1>11. QED
    BY <1>3, <1>4, <1>8, <1>9, <1>10

-----------------------------------------------------------------------------
(* Steps of a load.                                                         *)

\* A load that failed is sound.
LEMMA FailedSound ==
    ASSUME NEW load, load.directory \in Paths
    PROVE  /\ LoadSound(Failed(load))
           /\ Failed(load).pc = "failed"
           /\ Failed(load).directory = load.directory
  <1>1. Failed(load) =
          [pc |-> "failed", directory |-> load.directory, frames |-> <<>>, used |-> 0,
           active |-> {}, seen |-> {}, paths |-> {}, package |-> Unset]
    <2> DEFINE start == [pc |-> "open", directory |-> load.directory, frames |-> <<>>,
                         used |-> 0, active |-> {}, seen |-> {}, paths |-> {},
                         package |-> Unset]
    <2>1. Failed(load) = [start EXCEPT !.pc = "failed"]
      BY DEF Failed, Loading
    <2>2. QED
      BY <2>1, Zenon
  <1>2. <<>> \in Seq(Range(<<>>))
    BY EmptySeq
  <1>3. QED
    BY <1>1, <1>2 DEF LoadSound, IsLoad, Collides

\* A load that begins is sound, and has entered no package.
LEMMA LoadingSound ==
    ASSUME NEW directory \in Paths
    PROVE  /\ LoadSound(Loading(directory))
           /\ Loading(directory).pc = "open"
           /\ Loading(directory).directory = directory
           /\ Entered(Loading(directory))
  <1>1. <<>> \in Seq(Range(<<>>)) /\ DOMAIN <<>> = {}
    BY EmptySeq
  <1>2. /\ IsLoad(Loading(directory))
        /\ Loading(directory).pc = "open"
        /\ Loading(directory).directory = directory
        /\ Loading(directory).frames = <<>>
    BY <1>1 DEF Loading, IsLoad, Collides
  <1>3. LoadSound(Loading(directory))
    BY <1>2 DEF LoadSound
  <1>4. Held(Loading(directory)) = {}
    BY <1>1, <1>2 DEF Held
  <1>5. Entered(Loading(directory))
    BY <1>1, <1>2, <1>4 DEF Entered, UniqueIdentities
  <1>6. QED
    BY <1>2, <1>3, <1>5

\* The frames of a load are numbered, and its last is the package at hand.
LEMMA FramesOf ==
    ASSUME NEW load, IsLoad(load)
    PROVE  /\ Len(load.frames) \in Nat
           /\ DOMAIN load.frames = 1..Len(load.frames)
           /\ load.frames # <<>> => Len(load.frames) \in DOMAIN load.frames
  <1> DEFINE frames == load.frames
             S == Range(frames)
  <1>1. frames \in Seq(S)
    BY DEF IsLoad
  <1> HIDE DEF frames, S
  <1>2. Len(frames) \in Nat /\ DOMAIN frames = 1..Len(frames)
    BY <1>1, LenProperties
  <1>3. frames # <<>> => Len(frames) # 0
    BY <1>1, EmptySeq
  <1>4. QED
    BY <1>2, <1>3 DEF frames

\* Where a package was found does not change as more paths are registered.
LEMMA PlacedKept ==
    ASSUME NEW load, NEW later, NEW package, Placed(load, package),
           later.directory = load.directory, load.paths \subseteq later.paths
    PROVE  Placed(later, package)
  BY DEF Placed

\* A package is entered: its identity is new, and no path of it is one of
\* another's.
LEMMA EnterSound ==
    ASSUME NEW load, IsLoad(load), Entered(load),
           NEW manifest \in Manifests, NEW prefix \in Paths
    PROVE  /\ LoadSound(Enter(load, manifest, prefix))
           /\ Enter(load, manifest, prefix).pc \in {"read", "failed"}
           /\ Enter(load, manifest, prefix).directory = load.directory
  <1> DEFINE references == References(manifest)
             tracked == load.paths \cup {RootEntry} \cup Tracked(prefix, references)
             frame == [prefix |-> prefix, manifest |-> manifest, left |-> references,
                       prompts |-> Empty, skills |-> Empty, children |-> Empty]
             frames == Append(load.frames, frame)
             entered == [load EXCEPT !.pc = "read",
                 !.active = @ \cup {manifest.identity},
                 !.seen = @ \cup {manifest.identity},
                 !.paths = tracked, !.frames = frames]
             new == Enter(load, manifest, prefix)
  <1>1. load.directory \in Paths
    BY DEF IsLoad
  <1>2. CASE new = Failed(load)
    BY <1>1, <1>2, FailedSound
  <1>3. CASE new # Failed(load)
    <2>1. /\ new = entered
          /\ manifest.identity \notin load.seen
          /\ ~Collides(tracked)
      BY <1>3 DEF Enter
    <2>2. /\ new = [pc |-> "read", directory |-> load.directory, frames |-> frames,
                    used |-> load.used, active |-> load.active \cup {manifest.identity},
                    seen |-> load.seen \cup {manifest.identity}, paths |-> tracked,
                    package |-> load.package]
      BY <2>1 DEF IsLoad
    <2> DEFINE S == Range(load.frames)
               T == S \cup {frame}
               n == Len(load.frames)
    <2>3. load.frames \in Seq(S)
      BY DEF IsLoad
    <2>4. n \in Nat /\ DOMAIN load.frames = 1..n
      BY FramesOf
    <2>5. /\ frames \in Seq(T)
          /\ Len(frames) = n + 1
          /\ \A i \in 1..n : frames[i] = load.frames[i]
          /\ frames[n + 1] = frame
      <3> HIDE DEF S, frame
      <3>1. load.frames \in Seq(T)
        BY <2>3, SeqMonotonic
      <3>2. QED
        BY <3>1, AppendProperties
    <2> HIDE DEF frames, T, S, n
    <2>6. frames \in Seq(Range(frames))
      BY <2>5, SeqOfRange
    <2>7. /\ DOMAIN frames = 1..n + 1
          /\ \A i \in DOMAIN frames : i \in 1..n \/ i = n + 1
      BY <2>4, <2>5, LenProperties
    <2>8. frames # <<>>
      BY <2>4, <2>7
    <2>9. IsLoad(new)
      <3> HIDE DEF tracked, new
      <3>1. QED
        BY <1>1, <2>1, <2>2, <2>6 DEF IsLoad
    <2>10. IsFrame(frame)
      <3>1. DOMAIN Empty = {} /\ IsFunction(Empty)
        BY DEF Empty, IsFunction
      <3>2. ReadSoFar(frame)
        BY <3>1 DEF ReadSoFar
      <3>3. QED
        BY <3>2, ReferencesOf DEF IsFrame
    <2>11. Below(frame) = {}
      BY DEF Below, Empty
    <2>12. Held(new) = Held(load)
      <3> HIDE DEF frame, new
      <3>1. new.frames = frames
        BY <2>2
      <3>2. \A i \in DOMAIN load.frames : i \in DOMAIN frames /\ frames[i] = load.frames[i]
        BY <2>4, <2>5, <2>7
      <3>3. ASSUME NEW i \in DOMAIN frames
            PROVE  \/ Below(frames[i]) = {}
                   \/ i \in DOMAIN load.frames /\ frames[i] = load.frames[i]
        <4>1. CASE i \in 1..n
          BY <2>4, <2>5, <4>1
        <4>2. CASE i = n + 1
          BY <2>5, <2>11, <4>2
        <4>3. QED
          BY <2>7, <4>1, <4>2
      <3>4. QED
        BY <3>1, <3>2, <3>3 DEF Held
    <2>13. /\ new.frames = frames /\ new.directory = load.directory
           /\ new.seen = load.seen \cup {manifest.identity}
           /\ load.paths \subseteq new.paths
           /\ Tracked(frame.prefix, References(frame.manifest)) \subseteq new.paths
           /\ frame.manifest = manifest
      BY <2>2
    <2> HIDE DEF new, frame, tracked
    <2>14. ASSUME NEW i \in DOMAIN frames
           PROVE  /\ IsFrame(frames[i])
                  /\ frames[i].manifest.identity \in new.seen
                  /\ Tracked(frames[i].prefix, References(frames[i].manifest)) \subseteq new.paths
      <3>1. CASE i \in 1..n
        BY <2>4, <2>5, <2>13, <3>1 DEF Entered, FrameIdentity
      <3>2. CASE i = n + 1
        BY <2>5, <2>10, <2>13, <3>2
      <3>3. QED
        BY <2>7, <3>1, <3>2
    <2>15. \A i \in 1..n : frames[i].manifest.identity # manifest.identity
      BY <2>1, <2>4, <2>5 DEF Entered, FrameIdentity
    <2>16. ASSUME NEW i \in DOMAIN frames, NEW k \in DOMAIN frames,
                  frames[i].manifest.identity = frames[k].manifest.identity
           PROVE  i = k
      <3>1. CASE i \in 1..n /\ k \in 1..n
        BY <2>4, <2>5, <2>16, <3>1 DEF Entered, FrameIdentity
      <3>2. CASE i = n + 1 \/ k = n + 1
        BY <2>5, <2>7, <2>13, <2>15, <2>16, <3>2
      <3>3. QED
        BY <2>7, <3>1, <3>2
    <2>17. ASSUME NEW p \in Held(new)
           PROVE  /\ Sealed(p) /\ Placed(new, p)
                  /\ Identity(p) \in new.seen
                  /\ \A i \in DOMAIN frames : Identity(p) # frames[i].manifest.identity
      <3>1. /\ Sealed(p) /\ Placed(load, p) /\ Identity(p) \in load.seen
            /\ \A i \in 1..n : Identity(p) # load.frames[i].manifest.identity
        BY <2>4, <2>12 DEF Entered, FrameIdentity
      <3>2. Placed(new, p)
        BY <2>13, <3>1, PlacedKept
      <3>3. QED
        BY <2>1, <2>5, <2>7, <2>13, <3>1, <3>2
    <2>18. Entered(new)
      BY <2>12, <2>13, <2>14, <2>16, <2>17 DEF Entered, FrameIdentity
    <2>19. QED
      BY <2>2, <2>8, <2>9, <2>13, <2>18 DEF LoadSound, new
  <1>4. QED
    BY <1>2, <1>3

\* The bytes that were read do not matter to what was assembled.
LEMMA ChargedSound ==
    ASSUME NEW load, IsLoad(load), Entered(load), NEW files, NEW path
    PROVE  LET new == Charged(load, files, path)
           IN /\ IsLoad(new) /\ Entered(new)
              /\ new.pc = load.pc /\ new.directory = load.directory
              /\ new.frames = load.frames
  <1> DEFINE new == Charged(load, files, path)
             used == load.used + files[path].bytes
  <1>1. new = [load EXCEPT !.used = used]
    BY DEF Charged
  <1> HIDE DEF used
  <1>2. new = [pc |-> load.pc, directory |-> load.directory, frames |-> load.frames,
               used |-> used, active |-> load.active, seen |-> load.seen,
               paths |-> load.paths, package |-> load.package]
    BY <1>1 DEF IsLoad
  <1> HIDE DEF new
  <1>3. /\ new.pc = load.pc /\ new.directory = load.directory
        /\ new.frames = load.frames /\ new.seen = load.seen /\ new.paths = load.paths
    BY <1>2
  <1>4. IsLoad(new)
    BY <1>2, <1>3 DEF IsLoad
  <1>5. Held(new) = Held(load)
    BY <1>3 DEF Held
  <1>6. \A p : Placed(new, p) <=> Placed(load, p)
    BY <1>3 DEF Placed
  <1>7. Entered(new)
    BY <1>3, <1>5, <1>6 DEF Entered, FrameIdentity
  <1>8. QED
    BY <1>3, <1>4, <1>7 DEF new

\* The package at hand is replaced by one of the same manifest and place, which
\* has under it what was there and what is new and sound.
LEMMA FrameReplaced ==
    ASSUME NEW load, IsLoad(load), Entered(load), load.frames # <<>>,
           NEW frame, IsFrame(frame),
           frame.prefix = load.frames[Len(load.frames)].prefix,
           frame.manifest = load.frames[Len(load.frames)].manifest,
           NEW P, Below(frame) \subseteq Held(load) \cup P,
           UniqueIdentities(Held(load) \cup P),
           \A p \in P : /\ Sealed(p) /\ Placed(load, p) /\ Identity(p) \in load.seen
                        /\ \A n \in DOMAIN load.frames :
                              Identity(p) # FrameIdentity(load, n)
    PROVE  LET new == WithFrame(load, frame)
           IN /\ IsLoad(new) /\ Entered(new)
              /\ new.pc = load.pc /\ new.directory = load.directory
              /\ new.frames # <<>>
  <1> DEFINE last == Len(load.frames)
             frames == [load.frames EXCEPT ![last] = frame]
             new == WithFrame(load, frame)
  <1>1. /\ last \in Nat /\ DOMAIN load.frames = 1..last
        /\ last \in DOMAIN load.frames
    BY FramesOf
  <1>2. new = [load EXCEPT !.frames = frames]
    BY DEF WithFrame, IsLoad
  <1>3. new = [pc |-> load.pc, directory |-> load.directory, frames |-> frames,
               used |-> load.used, active |-> load.active, seen |-> load.seen,
               paths |-> load.paths, package |-> load.package]
    <2> HIDE DEF frames, new
    <2>1. QED
      BY <1>2 DEF IsLoad
  <1> DEFINE S == Range(load.frames)
             T == S \cup {frame}
  <1>4. /\ frames \in Seq(T) /\ DOMAIN frames = DOMAIN load.frames
        /\ frames[last] = frame
        /\ \A n \in DOMAIN frames : n # last => frames[n] = load.frames[n]
    <2> HIDE DEF S
    <2>1. load.frames \in Seq(S)
      BY DEF IsLoad, S
    <2>2. load.frames \in Seq(T)
      BY <2>1, SeqMonotonic
    <2>3. frames \in Seq(T)
      BY <1>1, <2>2, ExceptSeq
    <2>4. QED
      BY <1>1, <2>3
  <1> HIDE DEF frames, S, T, new, last
  <1>5. frames \in Seq(Range(frames)) /\ frames # <<>>
    <2>1. frames \in Seq(Range(frames))
      BY <1>4, SeqOfRange
    <2>2. frames # <<>>
      BY <1>1, <1>4
    <2>3. QED
      BY <2>1, <2>2
  <1>6. /\ new.pc = load.pc /\ new.directory = load.directory
        /\ new.frames = frames /\ new.seen = load.seen /\ new.paths = load.paths
    BY <1>3
  <1>7. IsLoad(new)
    BY <1>3, <1>5, <1>6 DEF IsLoad
  <1>8. \A n \in DOMAIN frames :
          /\ frames[n].manifest = load.frames[n].manifest
          /\ frames[n].prefix = load.frames[n].prefix
          /\ IsFrame(frames[n])
    BY <1>4 DEF last, Entered
  <1>9. Held(new) \subseteq Held(load) \cup P
    <2>1. \A n \in DOMAIN frames : Below(frames[n]) \subseteq Held(load) \cup P
      <3>1. \A n \in DOMAIN load.frames : Below(load.frames[n]) \subseteq Held(load)
        BY DEF Held
      <3>2. QED
        BY <1>4, <3>1
    <2>2. QED
      BY <1>6, <2>1 DEF Held
  <1>10. \A p : Placed(new, p) <=> Placed(load, p)
    BY <1>6 DEF Placed
  <1>11. \A p \in Held(new) :
           /\ Sealed(p) /\ Placed(new, p) /\ Identity(p) \in new.seen
           /\ \A n \in DOMAIN frames : Identity(p) # frames[n].manifest.identity
    <2>1. \A p \in Held(load) \cup P :
            /\ Sealed(p) /\ Placed(load, p) /\ Identity(p) \in load.seen
            /\ \A n \in DOMAIN load.frames : Identity(p) # load.frames[n].manifest.identity
      BY DEF Entered, FrameIdentity
    <2>2. QED
      BY <1>4, <1>6, <1>8, <1>9, <1>10, <2>1
  <1>12. UniqueIdentities(Held(new))
    BY <1>9 DEF UniqueIdentities
  <1>13. \A n \in DOMAIN frames :
           /\ frames[n].manifest.identity \in new.seen
           /\ Tracked(frames[n].prefix, References(frames[n].manifest)) \subseteq new.paths
    BY <1>4, <1>6, <1>8 DEF Entered, FrameIdentity
  <1>14. \A m, n \in DOMAIN frames :
           frames[m].manifest.identity = frames[n].manifest.identity => m = n
    BY <1>4, <1>8 DEF Entered, FrameIdentity
  <1>15. Entered(new)
    BY <1>6, <1>8, <1>11, <1>12, <1>13, <1>14 DEF Entered, FrameIdentity
  <1>16. QED
    BY <1>5, <1>6, <1>7, <1>15 DEF new

\* A manifest is opened and its package entered, or the load fails.
LEMMA OpenedSound ==
    ASSUME NEW load, IsLoad(load), Entered(load),
           NEW files, \A path \in DOMAIN files : files[path] \in Files,
           NEW path, NEW prefix \in Paths
    PROVE  LET new == Opened(load, files, path, prefix)
           IN /\ LoadSound(new)
              /\ new.pc \in {"read", "failed"}
              /\ new.directory = load.directory
  <1> DEFINE charged == Charged(load, files, path)
             manifest == files[path].manifest
  <1>1. load.directory \in Paths
    BY DEF IsLoad
  <1>2. /\ IsLoad(charged) /\ Entered(charged)
        /\ charged.directory = load.directory
    BY ChargedSound
  <1>3. CASE Reads(load, files, path, Limits.yaml) /\ manifest # Unset
    <2>1. manifest \in Manifests
      BY <1>3 DEF Reads, Manifests
    <2>2. Opened(load, files, path, prefix) = Enter(charged, manifest, prefix)
      BY <1>3 DEF Opened
    <2> HIDE DEF charged, manifest
    <2>3. QED
      BY <1>2, <2>1, <2>2, EnterSound
  <1>4. CASE ~(Reads(load, files, path, Limits.yaml) /\ manifest # Unset)
    <2>1. Opened(load, files, path, prefix) = Failed(load)
      BY <1>4 DEF Opened
    <2>2. QED
      BY <1>1, <2>1, FailedSound
  <1>5. QED
    BY <1>3, <1>4

\* A reference is read: of the text, if it is one, there is the path now.
LEMMA ReferenceRead ==
    ASSUME NEW frame, IsFrame(frame), frame.left # <<>>,
           NEW prompts, IsFunction(prompts), DOMAIN frame.prompts \subseteq DOMAIN prompts,
           DOMAIN prompts \subseteq {frame.manifest.prompt},
           NEW skills, IsFunction(skills), DOMAIN frame.skills \subseteq DOMAIN skills,
           DOMAIN skills \subseteq Range(frame.manifest.skills),
           Head(frame.left).kind = "prompt" => Head(frame.left).path \in DOMAIN prompts,
           Head(frame.left).kind = "skill" => Head(frame.left).path \in DOMAIN skills
    PROVE  IsFrame([prefix |-> frame.prefix, manifest |-> frame.manifest,
                    left |-> Tail(frame.left), prompts |-> prompts, skills |-> skills,
                    children |-> frame.children])
  <1> DEFINE left == frame.left
  <1>1. left \in Seq(PathReferences) /\ ReadSoFar(frame)
    BY DEF IsFrame
  <1>2. /\ Tail(left) \in Seq(PathReferences)
        /\ Range(left) = {Head(left)} \cup Range(Tail(left))
    <2> HIDE DEF left
    <2>1. /\ Tail(left) \in Seq(PathReferences)
          /\ Len(Tail(left)) = Len(left) - 1
          /\ \A i \in 1..Len(Tail(left)) : Tail(left)[i] = left[i + 1]
          /\ Len(left) \in Nat \ {0}
      BY <1>1, HeadTailProperties, EmptySeq DEF left
    <2>2. /\ Range(left) = {left[i] : i \in 1..Len(left)}
          /\ Range(Tail(left)) = {Tail(left)[i] : i \in 1..Len(left) - 1}
      <3>1. Range(left) = {left[i] : i \in 1..Len(left)}
        BY <1>1, RangeEquality DEF left
      <3>2. Range(Tail(left)) = {Tail(left)[i] : i \in 1..Len(Tail(left))}
        <4>1. PICK rest : rest = Tail(left)
          OBVIOUS
        <4>2. rest \in Seq(PathReferences)
          BY <2>1, <4>1
        <4>3. Range(rest) = {rest[i] : i \in 1..Len(rest)}
          BY <4>2, RangeEquality
        <4>4. QED
          BY <4>1, <4>3
      <3>3. QED
        BY <2>1, <3>1, <3>2
    <2>3. Head(left) = left[1]
      BY <1>1, <2>1
    <2>4. \A i \in 1..Len(left) : i = 1 \/ (i - 1 \in 1..Len(left) - 1 /\ i = (i - 1) + 1)
      BY <2>1
    <2>5. \A i \in 1..Len(left) - 1 : i + 1 \in 1..Len(left)
      BY <2>1
    <2>6. 1 \in 1..Len(left)
      BY <2>1
    <2>7. \A i \in 1..Len(left) - 1 : Tail(left)[i] = left[i + 1]
      BY <2>1
    <2>8. Range(left) \subseteq {Head(left)} \cup Range(Tail(left))
      BY <2>2, <2>3, <2>4, <2>7
    <2>9. {Head(left)} \cup Range(Tail(left)) \subseteq Range(left)
      BY <2>2, <2>3, <2>5, <2>6, <2>7
    <2>10. QED
      BY <2>1, <2>8, <2>9
  <1> DEFINE read == [prefix |-> frame.prefix, manifest |-> frame.manifest,
                      left |-> Tail(left), prompts |-> prompts, skills |-> skills,
                      children |-> frame.children]
  <1>3. /\ read.left = Tail(left) /\ read.manifest = frame.manifest
        /\ read.prompts = prompts /\ read.skills = skills
        /\ read.prefix = frame.prefix /\ read.children = frame.children
    OBVIOUS
  <1> HIDE DEF read, left
  <1>4. ReadSoFar(read)
    BY <1>1, <1>2, <1>3 DEF ReadSoFar, left
  <1>5. read = [prefix |-> read.prefix, manifest |-> read.manifest, left |-> read.left,
                prompts |-> read.prompts, skills |-> read.skills,
                children |-> read.children]
    BY <1>3 DEF read
  <1>6. QED
    BY <1>2, <1>3, <1>4, <1>5 DEF IsFrame, read, left

\* An insertion into a map.
LEMMA WithIs ==
    ASSUME NEW f, NEW x, NEW y
    PROVE  /\ DOMAIN With(f, x, y) = DOMAIN f \cup {x}
           /\ IsFunction(With(f, x, y))
           /\ With(f, x, y)[x] = y
           /\ \A k \in DOMAIN f : k # x => With(f, x, y)[k] = f[k]
  BY DEF With, IsFunction

\* The package at hand, after its next reference was read.
Further(frame, prompts, skills) ==
    [prefix |-> frame.prefix, manifest |-> frame.manifest, left |-> Tail(frame.left),
     prompts |-> prompts, skills |-> skills, children |-> frame.children]

\* Of the package at hand, only the texts and what is left to read change.
LEMMA FurtherSound ==
    ASSUME NEW load, IsLoad(load), Entered(load), load.frames # <<>>,
           NEW prompts, NEW skills,
           IsFrame(Further(load.frames[Len(load.frames)], prompts, skills))
    PROVE  LET new == WithFrame(load, Further(load.frames[Len(load.frames)], prompts, skills))
           IN /\ IsLoad(new) /\ Entered(new)
              /\ new.pc = load.pc /\ new.directory = load.directory
              /\ new.frames # <<>>
  <1> DEFINE frame == load.frames[Len(load.frames)]
             read == Further(frame, prompts, skills)
  <1>1. /\ read.prefix = frame.prefix /\ read.manifest = frame.manifest
        /\ read.children = frame.children
    BY DEF Further
  <1>2. Below(frame) \subseteq Held(load)
    <2>1. Len(load.frames) \in DOMAIN load.frames
      BY FramesOf
    <2>2. QED
      BY <2>1 DEF Held
  <1> DEFINE none == {}
  <1>3. Below(read) \subseteq Held(load) \cup none
    BY <1>1, <1>2 DEF Below
  <1>4. UniqueIdentities(Held(load) \cup none)
    BY DEF Entered
  <1>5. \A p \in none : /\ Sealed(p) /\ Placed(load, p) /\ Identity(p) \in load.seen
                        /\ \A n \in DOMAIN load.frames : Identity(p) # FrameIdentity(load, n)
    OBVIOUS
  <1>6. IsFrame(read)
    OBVIOUS
  <1> HIDE DEF read, none
  <1>7. LET new == WithFrame(load, read)
        IN /\ IsLoad(new) /\ Entered(new)
           /\ new.pc = load.pc /\ new.directory = load.directory
           /\ new.frames # <<>>
    BY <1>1, <1>3, <1>4, <1>5, <1>6, FrameReplaced DEF frame
  <1>8. QED
    BY <1>7 DEF read, frame

\* The directory of a path is a path.
LEMMA DirectoryIsPath ==
    ASSUME NEW path \in Paths
    PROVE  Directory(path) \in Paths
  <1>1. Len(path) \in Nat /\ \A n \in 1..Len(path) : path[n] \in STRING
    BY LenProperties DEF Paths
  <1>2. \A n \in 1..Len(path) - 1 : path[n] \in STRING
    BY <1>1
  <1>3. SubSeq(path, 1, Len(path) - 1) \in Seq(STRING)
    BY <1>1, <1>2, SubSeqProperties
  <1>4. QED
    BY <1>3 DEF Directory, Front, Paths

\* The next reference is one of the manifest's, and what is at hand after it is
\* read, its text put under its path, is still a package being read.
LEMMA NextReference ==
    ASSUME NEW frame, IsFrame(frame), frame.left # <<>>, NEW text,
           NEW reference, reference = Head(frame.left),
           NEW key, key = reference.path
    PROVE  /\ reference.kind \in {"prompt", "skill", "agent"}
           /\ Within(frame.prefix, key) \in Paths
           /\ reference.kind = "agent" =>
                 IsFrame(Further(frame, frame.prompts, frame.skills))
           /\ reference.kind = "prompt" =>
                 IsFrame(Further(frame, With(frame.prompts, key, text), frame.skills))
           /\ reference.kind = "skill" =>
                 IsFrame(Further(frame, frame.prompts, With(frame.skills, key, text)))
  <1> DEFINE prompted == With(frame.prompts, key, text)
             skilled == With(frame.skills, key, text)
  <1>1. /\ reference \in PathReferences
        /\ reference \in Range(References(frame.manifest))
    <2>1. frame.left \in Seq(PathReferences)
      BY DEF IsFrame
    <2>2. reference \in PathReferences /\ reference \in Range(frame.left)
      <3> DEFINE left == frame.left
      <3> HIDE DEF left
      <3>1. left \in Seq(PathReferences) /\ left # <<>>
        BY <2>1 DEF left
      <3>2. Len(left) \in Nat \ {0} /\ Range(left) = {left[i] : i \in 1..Len(left)}
        BY <3>1, EmptySeq, RangeEquality
      <3>3. Head(left) = left[1] /\ 1 \in 1..Len(left)
        BY <3>1, <3>2
      <3>4. QED
        BY <3>1, <3>2, <3>3, ElementOfSeq DEF left
    <2>3. QED
      BY <2>2 DEF IsFrame, ReadSoFar
  <1>2. /\ reference.kind \in {"prompt", "skill", "agent"} /\ key \in Paths
        /\ reference.kind = "prompt" => key = frame.manifest.prompt
        /\ reference.kind = "skill" => key \in Range(frame.manifest.skills)
        /\ frame.manifest \in Manifests /\ frame.prefix \in Paths
    BY <1>1, ReferencesOf DEF PathReferences, IsFrame
  <1>3. /\ IsFunction(frame.prompts) /\ IsFunction(frame.skills)
        /\ DOMAIN frame.prompts \subseteq {frame.manifest.prompt}
        /\ DOMAIN frame.skills \subseteq Range(frame.manifest.skills)
    BY DEF IsFrame, ReadSoFar
  <1>4. Within(frame.prefix, key) \in Paths
    BY <1>2, ConcatProperties DEF Within, Paths
  <1>5. CASE reference.kind = "agent"
    BY <1>2, <1>3, <1>4, <1>5, ReferenceRead DEF Further
  <1>6. CASE reference.kind = "prompt"
    <2>1. IsFunction(prompted) /\ DOMAIN prompted = DOMAIN frame.prompts \cup {key}
      BY DEF With, IsFunction
    <2> HIDE DEF prompted
    <2>2. IsFrame(Further(frame, prompted, frame.skills))
      BY <1>2, <1>3, <1>6, <2>1, ReferenceRead DEF Further
    <2>3. QED
      BY <1>2, <1>4, <1>6, <2>2 DEF prompted
  <1>7. CASE reference.kind = "skill"
    <2>1. IsFunction(skilled) /\ DOMAIN skilled = DOMAIN frame.skills \cup {key}
      BY DEF With, IsFunction
    <2> HIDE DEF skilled
    <2>2. IsFrame(Further(frame, frame.prompts, skilled))
      BY <1>2, <1>3, <1>7, <2>1, ReferenceRead DEF Further
    <2>3. QED
      BY <1>2, <1>4, <1>7, <2>2 DEF skilled
  <1>8. QED
    BY <1>2, <1>5, <1>6, <1>7

\* What a load reads next: the package at hand, the reference, its path there
\* and from the root of all paths, and the text.
IsNext(load, files, frame, reference, key, path, text) ==
    /\ frame = Last(load.frames) /\ IsFrame(frame)
    /\ reference = Head(frame.left) /\ key = reference.path
    /\ path = Within(load.directory, Within(frame.prefix, key))
    /\ text = files[path].text
    /\ reference.kind \in {"prompt", "skill", "agent"}

\* What reading a reference makes of a load, of the frame at hand.
LEMMA ReadReferenceIs ==
    ASSUME NEW load, NEW files, NEW frame, NEW reference, NEW key, NEW path, NEW text,
           IsNext(load, files, frame, reference, key, path, text)
    PROVE  \/ ReadReference(load, files) = Failed(load)
           \/ /\ reference.kind = "agent"
              /\ ReadReference(load, files) =
                    Opened(WithFrame(load, Further(frame, frame.prompts, frame.skills)),
                           files, path, Directory(Within(frame.prefix, key)))
           \/ /\ reference.kind = "prompt"
              /\ ReadReference(load, files) =
                    Charged(WithFrame(load, Further(frame, With(frame.prompts, key, text),
                                                    frame.skills)), files, path)
           \/ /\ reference.kind = "skill"
              /\ ReadReference(load, files) =
                    Charged(WithFrame(load, Further(frame, frame.prompts,
                                                    With(frame.skills, key, text))), files, path)
  <1>1. /\ [frame EXCEPT !.left = Tail(@)] = Further(frame, frame.prompts, frame.skills)
        /\ [[frame EXCEPT !.left = Tail(@)] EXCEPT !.prompts = With(@, key, text)] =
              Further(frame, With(frame.prompts, key, text), frame.skills)
        /\ [[frame EXCEPT !.left = Tail(@)] EXCEPT !.skills = With(@, key, text)] =
              Further(frame, frame.prompts, With(frame.skills, key, text))
    <2> DEFINE rest == [frame EXCEPT !.left = Tail(@)]
               left == Tail(frame.left)
               next == Further(frame, frame.prompts, frame.skills)
    <2>1. rest = next
      <3>1. rest = [frame EXCEPT !.left = left]
        OBVIOUS
      <3>2. frame = [prefix |-> frame.prefix, manifest |-> frame.manifest, left |-> frame.left,
                 prompts |-> frame.prompts, skills |-> frame.skills, children |-> frame.children]
        BY DEF IsNext, IsFrame
      <3> HIDE DEF left, rest
      <3>3. QED
        BY <3>1, <3>2 DEF Further, left
    <2>2. /\ next.prompts = frame.prompts /\ next.skills = frame.skills
      BY DEF Further
    <2>3. next = [prefix |-> frame.prefix, manifest |-> frame.manifest, left |-> left,
                  prompts |-> frame.prompts, skills |-> frame.skills,
                  children |-> frame.children]
      BY DEF Further
    <2> HIDE DEF rest, left, next
    <2>4. ASSUME NEW map
          PROVE  /\ [next EXCEPT !.prompts = map] = Further(frame, map, frame.skills)
                 /\ [next EXCEPT !.skills = map] = Further(frame, frame.prompts, map)
      <3>1. [next EXCEPT !.prompts = map] =
              [prefix |-> frame.prefix, manifest |-> frame.manifest, left |-> left,
               prompts |-> map, skills |-> frame.skills, children |-> frame.children]
        BY <2>3
      <3>2. [next EXCEPT !.skills = map] =
              [prefix |-> frame.prefix, manifest |-> frame.manifest, left |-> left,
               prompts |-> frame.prompts, skills |-> map, children |-> frame.children]
        BY <2>3
      <3>3. QED
        BY <3>1, <3>2, Zenon DEF Further, left
    <2>5. /\ [next EXCEPT !.prompts = With(next.prompts, key, text)] =
                Further(frame, With(frame.prompts, key, text), frame.skills)
          /\ [next EXCEPT !.skills = With(next.skills, key, text)] =
                Further(frame, frame.prompts, With(frame.skills, key, text))
      BY <2>2, <2>4
    <2>6. QED
      BY <2>1, <2>5 DEF rest, next
  <1>2. QED
    BY <1>1 DEF ReadReference, IsNext

\* The next reference of the package at hand is read, or the load fails.
LEMMA ReadReferenceSound ==
    ASSUME NEW load, IsLoad(load), Entered(load), load.pc = "read", load.frames # <<>>,
           Last(load.frames).left # <<>>,
           NEW files, \A path \in DOMAIN files : files[path] \in Files
    PROVE  /\ LoadSound(ReadReference(load, files))
           /\ ReadReference(load, files).pc \in {"read", "failed"}
           /\ ReadReference(load, files).directory = load.directory
  <1>1. PICK frame : frame = Last(load.frames)
    OBVIOUS
  <1>2. PICK reference : reference = Head(frame.left)
    OBVIOUS
  <1>3. PICK key : key = reference.path
    OBVIOUS
  <1>4. PICK path : path = Within(load.directory, Within(frame.prefix, key))
    OBVIOUS
  <1>5. PICK text : text = files[path].text
    OBVIOUS
  <1> DEFINE new == ReadReference(load, files)
  <1>6. /\ IsFrame(frame) /\ frame.left # <<>> /\ load.directory \in Paths
        /\ frame = load.frames[Len(load.frames)]
    <2>1. Len(load.frames) \in DOMAIN load.frames
      BY FramesOf
    <2>2. QED
      BY <1>1, <2>1 DEF Entered, Last, IsLoad
  <1>7. /\ reference.kind \in {"prompt", "skill", "agent"}
        /\ Within(frame.prefix, key) \in Paths
        /\ reference.kind = "agent" => IsFrame(Further(frame, frame.prompts, frame.skills))
        /\ reference.kind = "prompt" =>
              IsFrame(Further(frame, With(frame.prompts, key, text), frame.skills))
        /\ reference.kind = "skill" =>
              IsFrame(Further(frame, frame.prompts, With(frame.skills, key, text)))
    BY <1>2, <1>3, <1>6, NextReference
  <1>8. ASSUME NEW prompts, NEW skills, IsFrame(Further(frame, prompts, skills))
        PROVE  LET next == WithFrame(load, Further(frame, prompts, skills))
               IN /\ IsLoad(next) /\ Entered(next) /\ next.directory = load.directory
                  /\ next.pc = load.pc /\ next.frames # <<>>
    BY <1>6, <1>8, FurtherSound
  <1>9. ASSUME NEW prompts, NEW skills, IsFrame(Further(frame, prompts, skills)),
               new = Charged(WithFrame(load, Further(frame, prompts, skills)), files, path)
        PROVE  LoadSound(new) /\ new.pc \in {"read", "failed"} /\ new.directory = load.directory
    <2> DEFINE next == WithFrame(load, Further(frame, prompts, skills))
    <2>1. /\ IsLoad(next) /\ Entered(next) /\ next.directory = load.directory
          /\ next.pc = load.pc /\ next.frames # <<>>
      BY <1>8, <1>9
    <2> HIDE DEF next, new
    <2>2. /\ IsLoad(new) /\ Entered(new) /\ new.pc = load.pc
          /\ new.directory = load.directory /\ new.frames # <<>>
      BY <1>9, <2>1, ChargedSound DEF next
    <2>3. QED
      BY <2>2 DEF LoadSound
  <1>10. CASE new = Failed(load)
    BY <1>6, <1>10, FailedSound
  <1>11. CASE /\ reference.kind = "agent"
              /\ new = Opened(WithFrame(load, Further(frame, frame.prompts, frame.skills)),
                              files, path, Directory(Within(frame.prefix, key)))
    <2> DEFINE next == WithFrame(load, Further(frame, frame.prompts, frame.skills))
               prefix == Directory(Within(frame.prefix, key))
    <2>1. IsLoad(next) /\ Entered(next) /\ next.directory = load.directory
      BY <1>7, <1>8, <1>11
    <2>2. prefix \in Paths
      BY <1>7, DirectoryIsPath
    <2>3. new = Opened(next, files, path, prefix)
      BY <1>11
    <2> HIDE DEF next, prefix, new
    <2>4. LoadSound(new) /\ new.pc \in {"read", "failed"} /\ new.directory = next.directory
      BY <2>1, <2>2, <2>3, OpenedSound
    <2>5. QED
      BY <2>1, <2>4 DEF new
  <1>12. CASE /\ reference.kind = "prompt"
              /\ new = Charged(WithFrame(load, Further(frame, With(frame.prompts, key, text),
                                                       frame.skills)), files, path)
    BY <1>7, <1>9, <1>12
  <1>13. CASE /\ reference.kind = "skill"
              /\ new = Charged(WithFrame(load, Further(frame, frame.prompts,
                                                       With(frame.skills, key, text))), files, path)
    BY <1>7, <1>9, <1>13
  <1> HIDE DEF new
  <1>n. IsNext(load, files, frame, reference, key, path, text)
    BY <1>1, <1>2, <1>3, <1>4, <1>5, <1>6, <1>7 DEF IsNext
  <1>14. \/ new = Failed(load)
         \/ /\ reference.kind = "agent"
            /\ new = Opened(WithFrame(load, Further(frame, frame.prompts, frame.skills)),
                            files, path, Directory(Within(frame.prefix, key)))
         \/ /\ reference.kind = "prompt"
            /\ new = Charged(WithFrame(load, Further(frame, With(frame.prompts, key, text),
                                                     frame.skills)), files, path)
         \/ /\ reference.kind = "skill"
            /\ new = Charged(WithFrame(load, Further(frame, frame.prompts,
                                                     With(frame.skills, key, text))), files, path)
    BY <1>n, ReadReferenceIs DEF new
  <1>15. QED
    BY <1>10, <1>11, <1>12, <1>13, <1>14 DEF new

\* The package assembled of a frame.
Assembled(load, frame) ==
    AgentPackage(Within(load.directory, frame.prefix), frame.manifest, frame.prompts,
                 frame.skills, frame.children)

\* When nothing is left to read, every text the manifest refers to is there.
LEMMA AssembledSealed ==
    ASSUME NEW load, NEW frame, IsFrame(frame), frame.left = <<>>,
           Tracked(frame.prefix, References(frame.manifest)) \subseteq load.paths
    PROVE  /\ Sealed(Assembled(load, frame))
           /\ Placed(load, Assembled(load, frame))
           /\ Tree(Assembled(load, frame)) = {Assembled(load, frame)} \cup Below(frame)
           /\ Identity(Assembled(load, frame)) = frame.manifest.identity
  <1> DEFINE package == Assembled(load, frame)
             manifest == frame.manifest
             references == References(manifest)
  <1>1. /\ package.directory = Within(load.directory, frame.prefix)
        /\ package.manifest = manifest
        /\ package.prompts = frame.prompts /\ package.skills = frame.skills
        /\ package.children = frame.children
        /\ package.portable = PortableDigest(manifest, frame.prompts, frame.skills,
                                             frame.children)
        /\ package.nested = UNION {Tree(frame.children[path]) : path \in DOMAIN frame.children}
    BY DEF Assembled, AgentPackage
  <1> HIDE DEF package
  <1>2. manifest \in Manifests /\ frame.prefix \in Paths /\ ReadSoFar(frame)
    BY DEF IsFrame
  <1>3. /\ [kind |-> "prompt", path |-> manifest.prompt] \in Range(references)
        /\ \A path \in Range(manifest.skills) :
              [kind |-> "skill", path |-> path] \in Range(references)
        /\ references \in Seq(PathReferences)
    BY <1>2, ReferencesOf
  <1>4. Range(frame.left) = {}
    BY DEF Range
  <1>5. /\ DOMAIN frame.prompts = {manifest.prompt}
        /\ DOMAIN frame.skills = Range(manifest.skills)
        /\ IsFunction(frame.prompts) /\ IsFunction(frame.skills)
    <2>1. \A r \in Range(references) :
            /\ r.kind = "prompt" => r.path \in DOMAIN frame.prompts
            /\ r.kind = "skill" => r.path \in DOMAIN frame.skills
      BY <1>2, <1>4 DEF ReadSoFar
    <2>2. manifest.prompt \in DOMAIN frame.prompts
      BY <1>3, <2>1
    <2>3. \A path \in Range(manifest.skills) : path \in DOMAIN frame.skills
      BY <1>3, <2>1
    <2>4. /\ DOMAIN frame.prompts \subseteq {manifest.prompt}
          /\ DOMAIN frame.skills \subseteq Range(manifest.skills)
          /\ IsFunction(frame.prompts) /\ IsFunction(frame.skills)
      BY <1>2 DEF ReadSoFar
    <2>5. QED
      BY <2>2, <2>3, <2>4
  <1>6. Sealed(package)
    BY <1>1, <1>2, <1>5 DEF Sealed
  <1>7. Placed(load, package)
    <2>1. PICK n \in DOMAIN references : TRUE
      BY <1>3 DEF Range
    <2>2. [path |-> Within(frame.prefix, references[n].path), prefix |-> frame.prefix]
             \in load.paths
      BY <2>1 DEF Tracked
    <2>3. frame.prefix \in {entry.prefix : entry \in load.paths}
      BY <2>2
    <2>4. QED
      BY <1>1, <1>2, <2>3 DEF Placed
  <1>8. Tree(package) = {package} \cup Below(frame)
    BY <1>1 DEF Tree, Below
  <1>9. QED
    BY <1>1, <1>6, <1>7, <1>8 DEF Identity, package

\* The package at hand is left to the one above it.
Popped(load) ==
    [Leave(load, Last(load.frames).manifest.identity) EXCEPT !.frames = Front(@)]

LEMMA PoppedSound ==
    ASSUME NEW load, IsLoad(load), Entered(load), Len(load.frames) > 1
    PROVE  /\ IsLoad(Popped(load)) /\ Entered(Popped(load))
           /\ Popped(load).pc = load.pc /\ Popped(load).directory = load.directory
           /\ Popped(load).seen = load.seen /\ Popped(load).paths = load.paths
           /\ DOMAIN Popped(load).frames = 1..Len(load.frames) - 1
           /\ Len(Popped(load).frames) = Len(load.frames) - 1
           /\ \A n \in 1..Len(load.frames) - 1 : Popped(load).frames[n] = load.frames[n]
           /\ Held(Popped(load)) \subseteq Held(load)
  <1> DEFINE new == Popped(load)
             identity == Last(load.frames).manifest.identity
             n == Len(load.frames)
             frames == SubSeq(load.frames, 1, n - 1)
             S == Range(load.frames)
             active == load.active \ {identity}
  <1>1. n \in Nat /\ DOMAIN load.frames = 1..n
    BY FramesOf
  <1>2. new = [pc |-> load.pc, directory |-> load.directory, frames |-> frames,
               used |-> load.used, active |-> active, seen |-> load.seen,
               paths |-> load.paths, package |-> load.package]
    <2> HIDE DEF identity
    <2>1. Leave(load, identity) =
            [pc |-> load.pc, directory |-> load.directory, frames |-> load.frames,
             used |-> load.used, active |-> active, seen |-> load.seen,
             paths |-> load.paths, package |-> load.package]
      <3>1. Leave(load, identity) = [load EXCEPT !.active = active]
        BY DEF Leave
      <3> HIDE DEF active
      <3>2. QED
        BY <3>1 DEF IsLoad
    <2>2. new = [Leave(load, identity) EXCEPT !.frames = Front(Leave(load, identity).frames)]
      BY DEF Popped, identity
    <2>3. Front(Leave(load, identity).frames) = frames
      BY <2>1 DEF Front
    <2> HIDE DEF new, frames, active
    <2>4. QED
      BY <2>1, <2>2, <2>3
  <1>3. /\ frames \in Seq(S) /\ Len(frames) = n - 1 /\ DOMAIN frames = 1..n - 1
        /\ \A i \in 1..n - 1 : frames[i] = load.frames[i]
    <2> HIDE DEF n
    <2>1. \A i \in 1..n - 1 : load.frames[i] \in S
      BY <1>1 DEF Range
    <2> HIDE DEF S
    <2>2. /\ frames \in Seq(S)
          /\ Len(frames) = IF 1 <= n - 1 THEN (n - 1) - 1 + 1 ELSE 0
          /\ \A i \in 1..(n - 1) - 1 + 1 : frames[i] = load.frames[1 + i - 1]
      BY <1>1, <2>1, SubSeqProperties
    <2> HIDE DEF frames
    <2>3. Len(frames) = n - 1
      BY <1>1, <2>2 DEF n
    <2>4. \A i \in 1..n - 1 : i \in 1..(n - 1) - 1 + 1 /\ 1 + i - 1 = i
      BY <1>1
    <2>5. QED
      BY <2>2, <2>3, <2>4, LenProperties
  <1> HIDE DEF new, frames, S, active
  <1>4. frames \in Seq(Range(frames))
    BY <1>3, SeqOfRange
  <1>5. /\ new.pc = load.pc /\ new.directory = load.directory
        /\ new.frames = frames /\ new.seen = load.seen /\ new.paths = load.paths
    BY <1>2
  <1>6. IsLoad(new)
    BY <1>2, <1>4, <1>5 DEF IsLoad
  <1>7. \A i \in DOMAIN frames : i \in DOMAIN load.frames /\ frames[i] = load.frames[i]
    BY <1>1, <1>3
  <1>8. Held(new) \subseteq Held(load)
    BY <1>5, <1>7 DEF Held
  <1>9. \A p : Placed(new, p) <=> Placed(load, p)
    BY <1>5 DEF Placed
  <1>10. Entered(new)
    <2>1. \A i \in DOMAIN frames :
            /\ IsFrame(frames[i])
            /\ frames[i].manifest.identity \in new.seen
            /\ Tracked(frames[i].prefix, References(frames[i].manifest)) \subseteq new.paths
      BY <1>5, <1>7 DEF Entered, FrameIdentity
    <2>2. \A i, k \in DOMAIN frames :
            frames[i].manifest.identity = frames[k].manifest.identity => i = k
      BY <1>7 DEF Entered, FrameIdentity
    <2>3. \A p \in Held(new) :
            /\ Sealed(p) /\ Placed(new, p) /\ Identity(p) \in new.seen
            /\ \A i \in DOMAIN frames : Identity(p) # frames[i].manifest.identity
      BY <1>5, <1>7, <1>8, <1>9 DEF Entered, FrameIdentity
    <2>4. UniqueIdentities(Held(new))
      BY <1>8 DEF Entered, UniqueIdentities
    <2>5. QED
      BY <1>5, <2>1, <2>2, <2>3, <2>4 DEF Entered, FrameIdentity
  <1>11. QED
    BY <1>3, <1>5, <1>6, <1>8, <1>10 DEF new

\* The last package read is the package loaded.
LEMMA LoadedWhole ==
    ASSUME NEW load, IsLoad(load), Entered(load), Len(load.frames) = 1,
           Last(load.frames).left = <<>>
    PROVE  /\ LoadSound(Assemble(load))
           /\ Assemble(load).pc = "loaded"
           /\ Assemble(load).directory = load.directory
  <1>1. PICK frame : frame = Last(load.frames)
    OBVIOUS
  <1> DEFINE new == Assemble(load)
             package == Assembled(load, frame)
             active == load.active \ {frame.manifest.identity}
             left == Leave(load, frame.manifest.identity)
  <1>2. /\ IsFrame(frame) /\ frame.left = <<>> /\ load.directory \in Paths
        /\ Tracked(frame.prefix, References(frame.manifest)) \subseteq load.paths
        /\ 1 \in DOMAIN load.frames /\ frame = load.frames[1]
    BY <1>1, FramesOf DEF Entered, Last, IsLoad
  <1>3. /\ Sealed(package) /\ Placed(load, package)
        /\ Tree(package) = {package} \cup Below(frame)
        /\ Identity(package) = frame.manifest.identity
    BY <1>2, AssembledSealed
  <1>4. new = [left EXCEPT !.pc = "loaded", !.frames = <<>>, !.package = package]
    BY <1>1 DEF Assemble, Assembled
  <1>5. left =
          [pc |-> load.pc, directory |-> load.directory, frames |-> load.frames,
           used |-> load.used, active |-> active, seen |-> load.seen,
           paths |-> load.paths, package |-> load.package]
    <2>1. left = [load EXCEPT !.active = active]
      BY DEF Leave
    <2> HIDE DEF active, left
    <2>2. QED
      BY <2>1 DEF IsLoad
  <1> HIDE DEF new, active, package, left
  <1>6. new = [pc |-> "loaded", directory |-> load.directory, frames |-> <<>>,
               used |-> load.used, active |-> active, seen |-> load.seen,
               paths |-> load.paths, package |-> package]
    BY <1>4, <1>5
  <1>7. /\ new.pc = "loaded" /\ new.directory = load.directory /\ new.frames = <<>>
        /\ new.paths = load.paths /\ new.package = package
    BY <1>6
  <1>8. IsLoad(new)
    <2>1. <<>> \in Seq(Range(<<>>))
      BY EmptySeq
    <2>2. QED
      BY <1>2, <1>6, <1>7, <2>1 DEF IsLoad
  <1>9. Below(frame) \subseteq Held(load)
    BY <1>2 DEF Held
  <1>10. \A p \in Below(frame) :
           Sealed(p) /\ Placed(load, p) /\ Identity(p) # Identity(package)
    BY <1>2, <1>3, <1>9 DEF Entered, FrameIdentity
  <1>11. UniqueIdentities(Below(frame))
    BY <1>9 DEF Entered, UniqueIdentities
  <1>12. \A p : Placed(new, p) <=> Placed(load, p)
    BY <1>7 DEF Placed
  <1>13. Whole(new, package)
    <2>1. \A p \in Tree(package) : Sealed(p) /\ Placed(new, p)
      BY <1>3, <1>10, <1>12
    <2>2. UniqueIdentities(Tree(package))
      BY <1>3, <1>10, <1>11 DEF UniqueIdentities
    <2>3. QED
      BY <2>1, <2>2 DEF Whole
  <1>14. QED
    BY <1>7, <1>8, <1>13 DEF LoadSound, new

\* A package of another is put under it.
LEMMA ChildKept ==
    ASSUME NEW load, IsLoad(load), Entered(load), Len(load.frames) > 1,
           Last(load.frames).left = <<>>, load.pc = "read"
    PROVE  /\ LoadSound(Assemble(load))
           /\ Assemble(load).pc = "read"
           /\ Assemble(load).directory = load.directory
  <1> DEFINE frame == Last(load.frames)
             popped == Popped(load)
             parent == load.frames[Len(load.frames) - 1]
             path == SubSeq(frame.prefix, Len(parent.prefix) + 1, Len(frame.prefix))
                        \o <<AgentYaml>>
             package == Assembled(load, frame)
  <1>1. Assemble(load) = WithFrame(popped, [parent EXCEPT !.children = With(@, path, package)])
    <2>1. Len(load.frames) # 1
      BY FramesOf
    <2>2. QED
      BY <2>1, Zenon DEF Assemble, Assembled, Popped
  <1> HIDE DEF path
  <1> DEFINE n == Len(load.frames)
             children == With(parent.children, path, package)
             next == [prefix |-> parent.prefix, manifest |-> parent.manifest,
                      left |-> parent.left, prompts |-> parent.prompts,
                      skills |-> parent.skills, children |-> children]
             new == WithFrame(popped, next)
  <1>6. /\ n \in Nat /\ n > 1 /\ DOMAIN load.frames = 1..n
        /\ n \in DOMAIN load.frames /\ n - 1 \in DOMAIN load.frames
    BY FramesOf
  <1>7. /\ IsFrame(frame) /\ frame.left = <<>> /\ frame = load.frames[n]
        /\ Tracked(frame.prefix, References(frame.manifest)) \subseteq load.paths
        /\ IsFrame(parent)
    BY <1>6 DEF Entered, Last
  <1>8. /\ Sealed(package) /\ Placed(load, package)
        /\ Tree(package) = {package} \cup Below(frame)
        /\ Identity(package) = frame.manifest.identity
    BY <1>7, AssembledSealed
  <1>9. /\ IsLoad(popped) /\ Entered(popped)
        /\ popped.pc = load.pc /\ popped.directory = load.directory
        /\ popped.seen = load.seen /\ popped.paths = load.paths
        /\ DOMAIN popped.frames = 1..n - 1 /\ Len(popped.frames) = n - 1
        /\ \A i \in 1..n - 1 : popped.frames[i] = load.frames[i]
        /\ Held(popped) \subseteq Held(load)
    BY PoppedSound
  <1> HIDE DEF frame, popped, parent, package
  <1>10. Assemble(load) = new
    <2>1. [parent EXCEPT !.children = With(@, path, package)] = next
      <3>1. parent = [prefix |-> parent.prefix, manifest |-> parent.manifest,
                      left |-> parent.left, prompts |-> parent.prompts,
                      skills |-> parent.skills, children |-> parent.children]
        BY <1>7 DEF IsFrame
      <3>2. [parent EXCEPT !.children = With(@, path, package)] =
              [parent EXCEPT !.children = children]
        OBVIOUS
      <3> HIDE DEF children
      <3>3. QED
        BY <3>1, <3>2
    <2> HIDE DEF next, popped
    <2>2. QED
      BY <1>1, <2>1
  <1> HIDE DEF n
  <1>11. /\ DOMAIN children = DOMAIN parent.children \cup {path}
         /\ children[path] = package
         /\ \A x \in DOMAIN parent.children : x # path => children[x] = parent.children[x]
    BY DEF With
  <1> HIDE DEF children
  <1>12. IsFrame(next)
    BY <1>7 DEF IsFrame, ReadSoFar
  <1>13. Below(next) \subseteq Below(parent) \cup Tree(package)
    <2>1. next.children = children
      OBVIOUS
    <2> HIDE DEF next
    <2>2. QED
      BY <1>11, <2>1 DEF Below
  <1>14. /\ next.prefix = popped.frames[Len(popped.frames)].prefix
         /\ next.manifest = popped.frames[Len(popped.frames)].manifest
         /\ parent = popped.frames[Len(popped.frames)]
         /\ Len(popped.frames) \in DOMAIN popped.frames
         /\ popped.frames # <<>>
    <2>1. parent = popped.frames[Len(popped.frames)]
      BY <1>6, <1>9 DEF n, parent
    <2>2. Len(popped.frames) \in DOMAIN popped.frames
      BY <1>6, <1>9
    <2>3. popped.frames # <<>>
      BY <2>2
    <2>4. QED
      BY <2>1, <2>2, <2>3
  <1> HIDE DEF next
  <1>15. Below(next) \subseteq Held(popped) \cup Tree(package)
    <2>1. Below(parent) \subseteq Held(popped)
      BY <1>14 DEF Held
    <2>2. QED
      BY <1>13, <2>1
  <1>16. Below(frame) \subseteq Held(load)
    BY <1>6, <1>7 DEF Held
  <1>17. \A p \in Held(load) : Identity(p) # Identity(package)
    BY <1>6, <1>7, <1>8 DEF Entered, FrameIdentity
  <1>18. UniqueIdentities(Held(popped) \cup Tree(package))
    <2>1. Held(popped) \cup Tree(package) \subseteq Held(load) \cup {package}
      BY <1>8, <1>9, <1>16
    <2>2. QED
      BY <1>17, <2>1 DEF Entered, UniqueIdentities
  <1>19. ASSUME NEW p \in Tree(package)
         PROVE  /\ Sealed(p) /\ Placed(popped, p) /\ Identity(p) \in popped.seen
                /\ \A i \in DOMAIN popped.frames : Identity(p) # FrameIdentity(popped, i)
    <2>1. \A i \in DOMAIN popped.frames :
             /\ i \in DOMAIN load.frames /\ i # n
             /\ popped.frames[i] = load.frames[i]
      BY <1>6, <1>9
    <2>2. Placed(load, p) => Placed(popped, p)
      BY <1>9 DEF Placed
    <2>3. CASE p = package
      <3>1. /\ Sealed(p) /\ Placed(popped, p)
            /\ Identity(p) = load.frames[n].manifest.identity
        BY <1>7, <1>8, <2>2, <2>3
      <3>2. n \in DOMAIN load.frames
        BY <1>6
      <3>3. Identity(p) \in popped.seen
        BY <1>9, <3>1, <3>2 DEF Entered, FrameIdentity
      <3>4. \A i \in DOMAIN popped.frames : Identity(p) # FrameIdentity(popped, i)
        BY <2>1, <3>1, <3>2 DEF Entered, FrameIdentity
      <3>5. QED
        BY <3>1, <3>3, <3>4
    <2>4. CASE p \in Below(frame)
      BY <1>9, <1>16, <2>1, <2>2, <2>4 DEF Entered, FrameIdentity
    <2>5. QED
      BY <1>8, <2>3, <2>4
  <1>20. /\ IsLoad(new) /\ Entered(new) /\ new.pc = popped.pc
         /\ new.directory = popped.directory /\ new.frames # <<>>
    <2>1. PICK upper, with, P : upper = popped /\ with = next /\ P = Tree(package)
      OBVIOUS
    <2>2. /\ IsLoad(upper) /\ Entered(upper) /\ upper.frames # <<>> /\ IsFrame(with)
          /\ with.prefix = upper.frames[Len(upper.frames)].prefix
          /\ with.manifest = upper.frames[Len(upper.frames)].manifest
          /\ Below(with) \subseteq Held(upper) \cup P
          /\ UniqueIdentities(Held(upper) \cup P)
          /\ \A p \in P :
                /\ Sealed(p) /\ Placed(upper, p) /\ Identity(p) \in upper.seen
                /\ \A i \in DOMAIN upper.frames : Identity(p) # FrameIdentity(upper, i)
      BY <1>9, <1>12, <1>14, <1>15, <1>18, <1>19, <2>1
    <2>3. LET replaced == WithFrame(upper, with)
          IN /\ IsLoad(replaced) /\ Entered(replaced) /\ replaced.pc = upper.pc
             /\ replaced.directory = upper.directory /\ replaced.frames # <<>>
      BY <2>2, FrameReplaced
    <2>4. QED
      BY <2>1, <2>3
  <1> HIDE DEF new
  <1>21. QED
    BY <1>9, <1>10, <1>20 DEF LoadSound

\* One step of a load, on a disk of the files there may be.
LEMMA LoadStepSound ==
    ASSUME NEW load, LoadSound(load), load.pc \in {"open", "read"},
           NEW files, \A path \in DOMAIN files : files[path] \in Files
    PROVE  /\ LoadSound(LoadStep(load, files))
           /\ LoadStep(load, files).pc \in {"read", "loaded", "failed"}
           /\ LoadStep(load, files).directory = load.directory
  <1>1. IsLoad(load) /\ load.directory \in Paths
    BY DEF LoadSound, IsLoad
  <1>2. CASE load.pc = "open"
    <2>1. Entered(load)
      BY <1>1, <1>2, LoadingSound DEF LoadSound
    <2>2. Root \in Paths
      BY EmptySeq DEF Root, Paths
    <2>3. LoadStep(load, files) =
            Opened(load, files, Within(load.directory, <<AgentYaml>>), Root)
      BY <1>2 DEF LoadStep
    <2>4. QED
      BY <1>1, <2>1, <2>2, <2>3, OpenedSound
  <1>3. CASE load.pc = "read" /\ Last(load.frames).left = <<>>
    <2>1. Entered(load) /\ load.frames # <<>>
      BY <1>3 DEF LoadSound
    <2>2. Len(load.frames) = 1 \/ Len(load.frames) > 1
      <3>1. /\ Len(load.frames) \in Nat
            /\ Len(load.frames) \in 1..Len(load.frames)
        BY <1>1, <2>1, FramesOf
      <3> DEFINE n == Len(load.frames)
      <3> HIDE DEF n
      <3>2. n \in Nat /\ n \in 1..n
        BY <3>1 DEF n
      <3>3. n = 1 \/ n > 1
        BY <3>2
      <3>4. QED
        BY <3>3 DEF n
    <2>3. LoadStep(load, files) = Assemble(load)
      BY <1>3 DEF LoadStep
    <2>4. QED
      BY <1>1, <1>3, <2>1, <2>2, <2>3, LoadedWhole, ChildKept
  <1>4. CASE load.pc = "read" /\ Last(load.frames).left # <<>>
    <2>1. Entered(load) /\ load.frames # <<>>
      BY <1>4 DEF LoadSound
    <2>2. LoadStep(load, files) = ReadReference(load, files)
      BY <1>4 DEF LoadStep
    <2>3. QED
      BY <1>1, <1>4, <2>1, <2>2, ReadReferenceSound
  <1>5. QED
    BY <1>2, <1>3, <1>4

-----------------------------------------------------------------------------
(* What a loaded package, a digest and a lock say.                          *)

\* A loaded package has no identity twice, and no file of two directories or
\* by two cases: its paths were registered, and did not collide.
LEMMA WholeSound ==
    ASSUME NEW load, IsLoad(load), NEW package, Whole(load, package)
    PROVE  /\ UniqueIdentities(Tree(package))
           /\ \A p, q \in Tree(package) :
                 \A file \in FilesOf(p), other \in FilesOf(q) :
                     Folded(file) = Folded(other) =>
                         p.directory = q.directory /\ file = other
  <1>1. UniqueIdentities(Tree(package))
    BY DEF Whole
  <1>2. load.directory \in Paths /\ ~Collides(load.paths)
    BY DEF IsLoad
  <1>3. ASSUME NEW p \in Tree(package), NEW file \in FilesOf(p)
        PROVE  \E entry \in load.paths :
                  /\ entry.path \in Paths
                  /\ file = Within(load.directory, entry.path)
                  /\ p.directory = Within(load.directory, entry.prefix)
    <2>1. Sealed(p) /\ Placed(load, p)
      BY DEF Whole
    <2>2. PICK prefix : /\ prefix \in Paths
                        /\ p.directory = Within(load.directory, prefix)
                        /\ Tracked(prefix, References(p.manifest)) \subseteq load.paths
      BY <2>1 DEF Placed
    <2>3. PICK r \in Range(References(p.manifest)) : file = Within(p.directory, r.path)
      BY DEF FilesOf
    <2>4. p.manifest \in Manifests
      BY <2>1 DEF Sealed
    <2>5. r.path \in Paths
      BY <2>4, ReferencesOf DEF PathReferences
    <2> DEFINE entry == [path |-> Within(prefix, r.path), prefix |-> prefix]
    <2>6. entry \in load.paths
      BY <2>2, <2>3 DEF Tracked, Range
    <2>7. /\ Within(prefix, r.path) \in Paths
          /\ file = Within(load.directory, Within(prefix, r.path))
      <3>1. PICK path : path = r.path
        OBVIOUS
      <3>2. /\ Within(prefix, path) \in Paths
            /\ Within(Within(load.directory, prefix), path) =
                  Within(load.directory, Within(prefix, path))
        BY <1>2, <2>2, <2>5, <3>1, WithinWithin
      <3>3. QED
        BY <2>2, <2>3, <3>1, <3>2
    <2>8. QED
      BY <2>2, <2>6, <2>7
  <1>4. ASSUME NEW p \in Tree(package), NEW q \in Tree(package),
               NEW file \in FilesOf(p), NEW other \in FilesOf(q),
               Folded(file) = Folded(other)
        PROVE  p.directory = q.directory /\ file = other
    <2>1. PICK a \in load.paths :
             /\ a.path \in Paths
             /\ file = Within(load.directory, a.path)
             /\ p.directory = Within(load.directory, a.prefix)
      BY <1>3
    <2>2. PICK b \in load.paths :
             /\ b.path \in Paths
             /\ other = Within(load.directory, b.path)
             /\ q.directory = Within(load.directory, b.prefix)
      BY <1>3
    <2>3. Folded(a.path) = Folded(b.path)
      <3>1. PICK directory, s, t : /\ directory = load.directory
                                   /\ s = a.path /\ t = b.path
        OBVIOUS
      <3>2. /\ directory \in Paths /\ s \in Paths /\ t \in Paths
            /\ Folded(directory \o s) = Folded(directory \o t)
        BY <1>2, <1>4, <2>1, <2>2, <3>1 DEF Within
      <3>3. Folded(s) = Folded(t)
        BY <3>2, FoldedBelow
      <3>4. QED
        BY <3>1, <3>3
    <2>4. a = b
      BY <1>2, <2>3 DEF Collides
    <2>5. QED
      BY <2>1, <2>2, <2>4
  <1>5. QED
    BY <1>1, <1>4

\* The digest of a package stands for its manifest and its texts, those of
\* prompts that are skills too excepted.
LEMMA DigestTells ==
    ASSUME NEW p, NEW q, Sealed(p), Sealed(q), p.portable = q.portable
    PROVE  /\ p.manifest = q.manifest
           /\ DOMAIN p.prompts = DOMAIN q.prompts
           /\ \A path \in DOMAIN q.prompts \ DOMAIN q.skills : p.prompts[path] = q.prompts[path]
           /\ p.skills = q.skills
  <1>1. /\ p.portable.manifest = p.manifest /\ q.portable.manifest = q.manifest
        /\ p.portable.assets =
              [path \in DOMAIN p.prompts \cup DOMAIN p.skills |->
                  IF path \in DOMAIN p.skills THEN p.skills[path] ELSE p.prompts[path]]
        /\ q.portable.assets =
              [path \in DOMAIN q.prompts \cup DOMAIN q.skills |->
                  IF path \in DOMAIN q.skills THEN q.skills[path] ELSE q.prompts[path]]
    BY DEF Sealed, PortableDigest
  <1>2. p.manifest = q.manifest
    BY <1>1
  <1>3. DOMAIN p.prompts = DOMAIN q.prompts /\ DOMAIN p.skills = DOMAIN q.skills
    BY <1>2 DEF Sealed
  <1>4. p.portable.assets = q.portable.assets
    OBVIOUS
  <1>5. \A path \in DOMAIN q.skills : p.skills[path] = q.skills[path]
    <2>1. \A path \in DOMAIN q.skills : /\ p.portable.assets[path] = p.skills[path]
                                        /\ q.portable.assets[path] = q.skills[path]
      BY <1>1, <1>3
    <2>2. QED
      BY <1>4, <2>1
  <1>6. \A path \in DOMAIN q.prompts \ DOMAIN q.skills : p.prompts[path] = q.prompts[path]
    <2>1. \A path \in DOMAIN q.prompts \ DOMAIN q.skills :
             /\ p.portable.assets[path] = p.prompts[path]
             /\ q.portable.assets[path] = q.prompts[path]
      BY <1>1, <1>3
    <2>2. QED
      BY <1>4, <2>1
  <1>7. p.skills = q.skills
    BY <1>3, <1>5 DEF Sealed, IsFunction
  <1>8. QED
    BY <1>2, <1>3, <1>6, <1>7

\* Among naturals there is a least.
LEMMA LeastOfNaturals ==
    ASSUME NEW S, S \subseteq Nat, S # {}
    PROVE  \E n \in S : \A m \in S : n <= m
  <1> DEFINE less == OpToRel(<, Nat)
  <1>1. IsWellFoundedOn(less, Nat)
    BY NatLessThanWellFounded, Zenon
  <1>2. \A x, y \in S : x < y => <<x, y>> \in less
    BY DEF OpToRel
  <1> HIDE DEF less
  <1>3. PICK x \in S : \A y \in S : ~(<<y, x>> \in less)
    BY <1>1, WFMin
  <1>4. \A y \in S : ~(y < x)
    BY <1>2, <1>3
  <1>5. QED
    BY <1>4

\* Finitely many identities have a newest.
LEMMA NewestExists ==
    ASSUME NEW S, IsFiniteSet(S), S # {}, \A i \in S : i.version \in Nat
    PROVE  Newest(S) # {}
  <1> DEFINE newer(i) == {j \in S : i.version < j.version}
             sizes == {Cardinality(newer(i)) : i \in S}
  <1>1. \A i \in S : IsFiniteSet(newer(i)) /\ Cardinality(newer(i)) \in Nat
    BY FS_Subset, FS_CardinalityType
  <1>2. sizes \subseteq Nat /\ sizes # {}
    BY <1>1
  <1>3. PICK n \in sizes : \A m \in sizes : n <= m
    <2> HIDE DEF sizes
    <2>1. QED
      BY <1>2, LeastOfNaturals
  <1>4. PICK i \in S : n = Cardinality(newer(i))
    BY <1>3
  <1>5. ASSUME NEW j \in S, ~(j.version <= i.version)
        PROVE  FALSE
    <2>1. i.version < j.version /\ j.version \in Nat /\ i.version \in Nat
      BY <1>5
    <2>2. newer(j) \subseteq newer(i)
      BY <2>1
    <2>3. j \in newer(i) /\ j \notin newer(j)
      BY <2>1
    <2>4. Cardinality(newer(i)) <= Cardinality(newer(j))
      BY <1>3, <1>4
    <2> DEFINE N == newer(i)
               M == newer(j)
    <2>5. IsFiniteSet(N) /\ M \in SUBSET N /\ j \in N /\ j \notin M
          /\ Cardinality(N) <= Cardinality(M)
          /\ Cardinality(N) \in Nat /\ Cardinality(M) \in Nat
      BY <1>1, <2>2, <2>3, <2>4
    <2> HIDE DEF N, M
    <2>6. Cardinality(M) <= Cardinality(N) /\ (Cardinality(N) = Cardinality(M) => N = M)
      BY <2>5, FS_Subset
    <2>7. QED
      BY <2>5, <2>6
  <1>6. i \in Newest(S)
    BY <1>5 DEF Newest
  <1>7. QED
    BY <1>6

-----------------------------------------------------------------------------
(* The selection of versions, when locking and when resolving.              *)

\* An entry of a lock, from the catalog it was made of.
EntryOf(identity, published) ==
    [identity |-> identity, descriptor |-> published.descriptors[identity]]

\* What a catalog has for a requirement is of its name, and the newest of it
\* is one identity, if there is any.
LEMMA NewestOf ==
    ASSUME NEW published \in Catalogs, NEW r
    PROVE  /\ \A i \in Candidates(r, published) :
                 /\ i \in DOMAIN published.descriptors /\ i \in Range(TextOrder)
                 /\ i.name = r.name /\ i.version \in Nat
                 /\ i = [name |-> i.name, version |-> i.version]
           /\ \A i, k \in Newest(Candidates(r, published)) : i = k
           /\ Candidates(r, published) # {} => Newest(Candidates(r, published)) # {}
  <1> DEFINE S == Candidates(r, published)
  <1>1. /\ IsFiniteSet(DOMAIN published.descriptors)
        /\ DOMAIN published.descriptors \subseteq Range(TextOrder)
        /\ \A i \in DOMAIN published.descriptors :
              i = [name |-> i.name, version |-> i.version] /\ i.version \in Nat
    BY ToolchainAssumption DEF WellCatalogued
  <1>2. S \subseteq DOMAIN published.descriptors
    BY DEF Candidates
  <1>3. \A i \in S : i.name = r.name
    BY DEF Candidates, Matches
  <1> HIDE DEF S
  <1>4. \A i \in S : i.version \in Nat /\ i = [name |-> i.name, version |-> i.version]
    BY <1>1, <1>2
  <1>5. IsFiniteSet(S)
    BY <1>1, <1>2, FS_Subset
  <1>6. S # {} => Newest(S) # {}
    BY <1>4, <1>5, NewestExists
  <1>7. ASSUME NEW i \in Newest(S), NEW k \in Newest(S)
        PROVE  i = k
    <2>1. i \in S /\ k \in S /\ i.version <= k.version /\ k.version <= i.version
      BY DEF Newest
    <2>2. i.version = k.version
      BY <1>4, <2>1
    <2>3. i.name = k.name
      BY <1>3, <2>1
    <2>4. QED
      BY <1>4, <2>1, <2>2, <2>3
  <1>8. QED
    BY <1>1, <1>2, <1>3, <1>4, <1>6, <1>7 DEF S

\* The rank of an identity in the order of texts.
LEMMA RankOf ==
    ASSUME NEW identity \in Range(TextOrder)
    PROVE  Rank(identity) \in Nat
  <1>1. DOMAIN TextOrder \subseteq Nat
    BY OrderAssumption, LenProperties
  <1>2. \E n \in DOMAIN TextOrder : TextOrder[n] = identity
    BY DEF Range
  <1>3. Rank(identity) \in DOMAIN TextOrder
    BY <1>2 DEF Rank
  <1>4. QED
    BY <1>1, <1>3

\* What a lock was made of: its entries are those selected, and what a
\* requirement takes from it is one of them, one at most.
LEMMA LockHas ==
    ASSUME NEW package, NEW published \in Catalogs, NEW lock,
           lock = LockOf(package, published)
    PROVE  /\ Locked(lock) = {EntryOf(s.identity, published) : s \in Selected(package, published)}
           /\ \A r : \A c \in Found(r, lock) :
                 /\ c.identity \in Candidates(r, published)
                 /\ c = EntryOf(c.identity, published)
           /\ \A r : \A c, d \in Found(r, lock) : c = d
  <1> DEFINE chosen == {s.identity : s \in Selected(package, published)}
  <1>1. lock.capabilities = [i \in chosen |-> published.descriptors[i]]
    BY DEF LockOf
  <1>2. Locked(lock) = {EntryOf(i, published) : i \in chosen}
    <2> HIDE DEF chosen
    <2>1. DOMAIN lock.capabilities = chosen
      BY <1>1
    <2>2. \A i \in chosen : lock.capabilities[i] = published.descriptors[i]
      BY <1>1
    <2>3. QED
      BY <2>1, <2>2 DEF Locked, EntryOf
  <1>3. \A i \in chosen : i \in DOMAIN published.descriptors
    BY DEF Selected, Newest, Candidates
  <1>4. ASSUME NEW r, NEW c \in Found(r, lock)
        PROVE  /\ c.identity \in Candidates(r, published)
               /\ c = EntryOf(c.identity, published)
               /\ c.identity \in Range(TextOrder)
    <2>1. c \in Locked(lock) /\ Matches(r, c.identity)
      BY DEF Found
    <2>2. PICK i \in chosen : c = EntryOf(i, published)
      BY <1>2, <2>1
    <2>3. c.identity = i
      BY <2>2 DEF EntryOf
    <2>4. c.identity \in Candidates(r, published)
      BY <1>3, <2>1, <2>3 DEF Candidates
    <2>5. c.identity \in Range(TextOrder)
      BY <2>4, NewestOf
    <2>6. QED
      BY <2>2, <2>3, <2>4, <2>5
  <1>5. ASSUME NEW r, NEW c \in Found(r, lock), NEW d \in Found(r, lock), c # d
        PROVE  FALSE
    <2>1. Rank(c.identity) < Rank(d.identity) /\ Rank(d.identity) < Rank(c.identity)
      BY <1>5 DEF Found
    <2>2. Rank(c.identity) \in Nat /\ Rank(d.identity) \in Nat
      BY <1>4, RankOf
    <2>3. QED
      BY <2>1, <2>2
  <1>6. Locked(lock) = {EntryOf(s.identity, published) : s \in Selected(package, published)}
    BY <1>2
  <1>7. QED
    BY <1>4, <1>5, <1>6

\* If all that is locked is taken by some requirement, and nothing is locked
\* for two, every requirement takes the newest there was for it: of those that
\* did not, the one of the newest version would have it taken by a requirement
\* that is locked to a newer one still.
LEMMA NewestTaken ==
    ASSUME NEW package, NEW locked, NEW published \in Catalogs, NEW lock,
           lock = LockOf(locked, published),
           Requirements(package) = Requirements(locked),
           LockedOnce(locked, published), CapabilitiesMet(package, lock)
    PROVE  \A r \in Requirements(package) :
              /\ \A i \in Newest(Candidates(r, published)) :
                    EntryOf(i, published) \in Found(r, lock)
              /\ \A c \in Found(r, lock) :
                    c.identity \in Newest(Candidates(r, published))
  <1> DEFINE R == Requirements(package)
             Best(r) == Newest(Candidates(r, published))
             Missed(r) == {i \in Best(r) : EntryOf(i, published) \notin Found(r, lock)}
             missed == UNION {Missed(r) : r \in R}
  <1>1. \A r \in R : \A i \in Best(r) : [requirement |-> r, identity |-> i]
                                           \in Selected(locked, published)
    BY DEF Selected
  <1>2. \A r, s \in R : \A i \in Best(r) : i \in Best(s) => r = s
    <2> SUFFICES ASSUME NEW r \in R, NEW s \in R, NEW i \in Best(r), i \in Best(s)
                 PROVE  r = s
      OBVIOUS
    <2>1. [requirement |-> r, identity |-> i] = [requirement |-> s, identity |-> i]
      BY <1>1 DEF LockedOnce
    <2>2. QED
      BY <2>1
  <1>3. \A r \in R : \A i \in Best(r) : EntryOf(i, published) \in Locked(lock)
    <2> SUFFICES ASSUME NEW r \in R, NEW i \in Best(r)
                 PROVE  EntryOf(i, published) \in Locked(lock)
      OBVIOUS
    <2>1. PICK s \in Selected(locked, published) : s.identity = i
      BY <1>1
    <2>2. QED
      BY <2>1, LockHas
  <1>4. \A c \in Locked(lock) : \E s \in R : c \in Found(s, lock)
    BY DEF CapabilitiesMet
  <1>5. \A r : \A c \in Found(r, lock) : /\ c.identity \in Candidates(r, published)
                                         /\ c = EntryOf(c.identity, published)
    BY LockHas
  <1>6. \A r : \A c, d \in Found(r, lock) : c = d
    BY LockHas
  <1>7. /\ \A r : \A i \in Candidates(r, published) :
              /\ i \in DOMAIN published.descriptors /\ i.name = r.name /\ i.version \in Nat
              /\ i = [name |-> i.name, version |-> i.version]
        /\ \A r : Candidates(r, published) # {} => Best(r) # {}
        /\ \A r : \A i, k \in Best(r) : i = k
    BY NewestOf
  <1>8. \A r : \A i \in Best(r) : /\ i \in Candidates(r, published)
                                  /\ \A k \in Candidates(r, published) : k.version <= i.version
    BY DEF Newest
  <1>9. missed = {}
    <2> SUFFICES ASSUME missed # {}
                 PROVE  FALSE
      OBVIOUS
    <2>1. missed \subseteq DOMAIN published.descriptors /\ \A i \in missed : i.version \in Nat
      BY <1>7, <1>8
    <2>2. IsFiniteSet(DOMAIN published.descriptors)
      BY ToolchainAssumption DEF WellCatalogued
    <2>3. PICK i \in missed : \A k \in missed : k.version <= i.version
      <3> HIDE DEF missed
      <3>1. IsFiniteSet(missed)
        BY <2>1, <2>2, FS_Subset
      <3>2. Newest(missed) # {}
        BY <2>1, <3>1, NewestExists
      <3>3. QED
        BY <3>2 DEF Newest
    <2>4. PICK r \in R : i \in Best(r) /\ EntryOf(i, published) \notin Found(r, lock)
      BY <2>3
    <2>5. PICK s \in R : EntryOf(i, published) \in Found(s, lock)
      BY <1>3, <1>4, <2>4
    <2>6. i \in Candidates(s, published)
      BY <1>5, <2>5 DEF EntryOf
    <2>7. PICK k \in Best(s) : TRUE
      BY <1>7, <2>6
    <2>8. r # s
      BY <2>4, <2>5
    <2>9. i # k
      BY <1>2, <2>4, <2>7, <2>8
    <2>10. i.version <= k.version /\ k \in Candidates(s, published)
      BY <1>8, <2>6, <2>7
    <2>11. i.version < k.version
      BY <1>7, <2>6, <2>9, <2>10
    <2>12. k \notin missed
      BY <1>7, <2>3, <2>6, <2>10, <2>11
    <2>13. EntryOf(k, published) \in Found(s, lock)
      BY <2>7, <2>12
    <2>14. EntryOf(k, published) = EntryOf(i, published)
      BY <1>6, <2>5, <2>13
    <2>15. QED
      BY <2>9, <2>14 DEF EntryOf
  <1>10. ASSUME NEW r \in R, NEW i \in Best(r)
         PROVE  EntryOf(i, published) \in Found(r, lock)
    BY <1>9
  <1>11. ASSUME NEW r \in R, NEW c \in Found(r, lock)
         PROVE  c.identity \in Best(r)
    <2>1. PICK i \in Best(r) : TRUE
      BY <1>5, <1>7
    <2>2. c = EntryOf(i, published)
      BY <1>6, <1>10, <2>1
    <2>3. QED
      BY <2>1, <2>2 DEF EntryOf
  <1>12. QED
    BY <1>10, <1>11

\* Every role of a manifest has a model that satisfies it, or none.
LEMMA ModelsResolved ==
    ASSUME NEW manifest, ModelsMet(manifest), NEW role \in DOMAIN manifest.models
    PROVE  /\ manifest.models[role].required => role \in DOMAIN ResolvedModels(manifest)
           /\ role \in DOMAIN ResolvedModels(manifest) =>
                 ModelSatisfies(ResolvedModels(manifest)[role], manifest.models[role])
  <1>1. DOMAIN ResolvedModels(manifest) =
          {r \in DOMAIN manifest.models : ModelFor(manifest, r) # {}}
    BY DEF ResolvedModels
  <1>2. manifest.models[role].required => role \in DOMAIN ResolvedModels(manifest)
    BY <1>1 DEF ModelsMet
  <1>3. \A s \in ModelFor(manifest, role) : ModelSatisfies(s, manifest.models[role])
    BY DEF ModelFor
  <1>4. ASSUME role \in DOMAIN ResolvedModels(manifest)
        PROVE  ResolvedModels(manifest)[role] \in ModelFor(manifest, role)
    <2>1. ModelFor(manifest, role) # {}
      BY <1>1, <1>4
    <2>2. ResolvedModels(manifest)[role] = CHOOSE s \in ModelFor(manifest, role) : TRUE
      BY <1>1, <1>4 DEF ResolvedModels
    <2>3. QED
      BY <2>1, <2>2
  <1>5. QED
    BY <1>2, <1>3, <1>4

-----------------------------------------------------------------------------
(* Every step keeps the invariant.                                          *)

\* Locks, jobs and what was emitted are kept by a step that changes one job,
\* and no lock.
LEMMA JobKept ==
    ASSUME ToolchainInv, NEW j \in Jobs, NEW job, JobStands(job), job.pc # "sync",
           jobs' = [jobs EXCEPT ![j] = job],
           UNCHANGED <<disk, catalog, locks>>,
           \A e \in emitted' : EmittedStands(e)
    PROVE  ToolchainInv'
  <1>1. /\ jobs' = [i \in Jobs |-> jobs'[i]]
        /\ \A i \in Jobs : jobs'[i] = IF i = j THEN job ELSE jobs[i]
    BY DEF ToolchainInv
  <1>2. \A i \in Jobs : JobStands(jobs'[i])
    BY <1>1 DEF ToolchainInv
  <1>3. \A i \in Jobs : jobs'[i].pc = "sync" =>
          jobs'[i].file.generation <= locks[jobs'[i].directory].visible.generation
    BY <1>1 DEF ToolchainInv
  <1>4. QED
    BY <1>1, <1>2, <1>3 DEF ToolchainInv

\* A job that is idle stands.
LEMMA IdleStands == JobStands(Idle) /\ Idle.pc # "sync"
  BY DEF JobStands, Idle

\* A job that is not idle, with some of its parts replaced.
Job(job, pc, load, file, synced, read) ==
    [pc |-> pc, command |-> job.command, directory |-> job.directory,
     load |-> load, file |-> file, synced |-> synced, read |-> read]

\* Every command that is not idle is a job, with the packages it loaded.
LEMMA JobOf ==
    ASSUME ToolchainInv, NEW j \in Jobs, jobs[j].pc # "idle"
    PROVE  /\ jobs[j] = Job(jobs[j], jobs[j].pc, jobs[j].load, jobs[j].file,
                            jobs[j].synced, jobs[j].read)
           /\ JobStands(jobs[j])
           /\ jobs[j].directory \in Directories /\ jobs[j].command \in {"lock", "compile"}
           /\ LoadSound(jobs[j].load)
           /\ jobs[j].pc # "load" =>
                 /\ jobs[j].load.pc = "loaded"
                 /\ \A p \in Tree(Package(j)) : Sealed(p)
                 /\ Package(j) \in Tree(Package(j))
           /\ IsFunction(jobs[j].read)
           /\ \A identity \in DOMAIN jobs[j].read : Made(jobs[j].read[identity])
  <1>1. JobStands(jobs[j]) /\ jobs[j] # Idle
    BY DEF ToolchainInv, Idle
  <1>2. jobs[j].pc # "load" => jobs[j].load.pc = "loaded" /\ LoadSound(jobs[j].load)
    BY <1>1 DEF JobStands
  <1>3. Package(j) \in Tree(Package(j))
    BY DEF Tree
  <1>4. QED
    BY <1>1, <1>2, <1>3 DEF JobStands, Job, LoadSound, Whole, Package

\* A command starts: nothing is loaded yet, and nothing read.
LEMMA StartKeeps ==
    ASSUME ToolchainInv, NEW j \in Jobs, NEW command \in {"lock", "compile"},
           NEW directory \in Directories, Start(j, command, directory)
    PROVE  ToolchainInv'
  <1> DEFINE job == [pc |-> "load", command |-> command, directory |-> directory,
                     load |-> Loading(directory), file |-> NoLock, synced |-> FALSE,
                     read |-> Empty]
  <1>1. directory \in Paths
    BY ToolchainAssumption
  <1>2. LoadSound(Loading(directory)) /\ Loading(directory).pc = "open"
    BY <1>1, LoadingSound
  <1>3. IsFunction(Empty) /\ DOMAIN Empty = {}
    BY DEF IsFunction, Empty
  <1>4. JobStands(job) /\ job.pc # "sync"
    BY <1>2, <1>3 DEF JobStands
  <1>5. jobs' = [jobs EXCEPT ![j] = job] /\ UNCHANGED <<disk, catalog, locks>> /\ emitted' = {}
    BY DEF Start
  <1> HIDE DEF job
  <1>6. QED
    BY <1>4, <1>5, JobKept

\* A load goes one file on.
LEMMA LoadKeeps ==
    ASSUME ToolchainInv, NEW j \in Jobs, Load(j)
    PROVE  ToolchainInv'
  <1> DEFINE old == jobs[j]
             load == LoadStep(old.load, disk)
  <1>1. old.pc = "load" /\ old.pc # "idle"
    BY DEF Load
  <1>2. /\ old = Job(old, old.pc, old.load, old.file, old.synced, old.read)
        /\ JobStands(old)
    BY <1>1, JobOf
  <1>3. LoadSound(old.load) /\ old.load.pc \in {"open", "read"}
    BY <1>1, <1>2 DEF JobStands, Idle
  <1>4. LoadSound(load) /\ load.pc \in {"read", "loaded", "failed"}
    <2>1. \A path \in DOMAIN disk : disk[path] \in Files
      BY DEF ToolchainInv
    <2>2. QED
      BY <1>3, <2>1, LoadStepSound
  <1>5. PICK job : /\ jobs' = [jobs EXCEPT ![j] = job]
                   /\ job = CASE load.pc = "failed" -> Idle
                              [] load.pc = "loaded" ->
                                   [old EXCEPT !.load = load, !.pc = old.command]
                              [] OTHER -> [old EXCEPT !.load = load]
    BY DEF Load, Proceed
  <1>6. UNCHANGED <<disk, catalog, locks, emitted>>
    BY DEF Load, Proceed
  <1> HIDE DEF load, old
  <1>7. JobStands(job) /\ job.pc # "sync"
    <2>1. CASE load.pc = "failed"
      BY <1>5, <2>1, IdleStands
    <2>2. CASE load.pc = "loaded"
      <3>1. job = Job(old, old.command, load, old.file, old.synced, old.read)
        BY <1>2, <1>5, <2>2 DEF Job
      <3>2. old.command \in {"lock", "compile"}
        BY <1>1, <1>2 DEF JobStands, Idle
      <3>3. QED
        BY <1>1, <1>2, <1>4, <2>2, <3>1, <3>2 DEF JobStands, Job, Idle
    <2>3. CASE load.pc = "read"
      <3>1. job = Job(old, old.pc, load, old.file, old.synced, old.read)
        BY <1>2, <1>5, <2>3 DEF Job
      <3>2. QED
        BY <1>1, <1>2, <1>4, <2>3, <3>1 DEF JobStands, Job, Idle
    <2>4. QED
      BY <1>4, <2>1, <2>2, <2>3
  <1>8. \A e \in emitted' : EmittedStands(e)
    BY <1>6 DEF ToolchainInv
  <1>9. QED
    BY <1>5, <1>6, <1>7, <1>8, JobKept

\* A lock that is made is one of its package and of the catalog it was made from.
LEMMA MakeLockKeeps ==
    ASSUME ToolchainInv, NEW j \in Jobs, MakeLock(j)
    PROVE  ToolchainInv'
  <1> DEFINE old == jobs[j]
             package == Package(j)
             lock == LockOf(package, catalog)
             file == [whole |-> TRUE, generation |-> 0, lock |-> lock, package |-> package]
  <1>1. old.pc = "lock" /\ old.pc # "idle" /\ old.pc # "load"
    BY DEF MakeLock
  <1>2. /\ old = Job(old, old.pc, old.load, old.file, old.synced, old.read)
        /\ JobStands(old) /\ Sealed(package)
    BY <1>1, JobOf
  <1>3. PICK job : /\ jobs' = [jobs EXCEPT ![j] = job]
                   /\ job = IF Selectable(package, catalog) /\ LockedOnce(package, catalog)
                              THEN [[old EXCEPT !.pc = "written"] EXCEPT !.file = file]
                              ELSE Idle
    BY DEF MakeLock, Proceed, Goto
  <1>4. UNCHANGED <<disk, catalog, locks, emitted>>
    BY DEF MakeLock, Proceed
  <1>5. ASSUME LockedOnce(package, catalog)
        PROVE  Made(file)
    <2> DEFINE published == catalog
    <2>1. lock.catalog = published
      BY DEF LockOf
    <2>2. published \in Catalogs
      BY DEF ToolchainInv
    <2>3. lock = LockOf(package, lock.catalog) /\ LockedOnce(package, lock.catalog)
      BY <1>5, <2>1
    <2> HIDE DEF lock, published, package
    <2>4. QED
      BY <1>2, <2>1, <2>2, <2>3 DEF Made
  <1> HIDE DEF file, old
  <1>6. JobStands(job) /\ job.pc # "sync"
    <2>1. CASE job = Idle
      BY <2>1, IdleStands
    <2>2. CASE job # Idle
      <3>1. LockedOnce(package, catalog)
        BY <1>3, <2>2
      <3>2. job = Job(old, "written", old.load, file, old.synced, old.read)
        BY <1>2, <1>3, <2>2 DEF Job
      <3>3. Made(file)
        BY <1>5, <3>1
      <3>4. QED
        BY <1>1, <1>2, <3>2, <3>3 DEF JobStands, Job, Idle
    <2>3. QED
      BY <2>1, <2>2
  <1>7. \A e \in emitted' : EmittedStands(e)
    BY <1>4 DEF ToolchainInv
  <1>8. QED
    BY <1>3, <1>4, <1>6, <1>7, JobKept

\* The temporary file is synchronized before it is moved.
LEMMA SyncTemporaryKeeps ==
    ASSUME ToolchainInv, NEW j \in Jobs, SyncTemporary(j)
    PROVE  ToolchainInv'
  <1> DEFINE old == jobs[j]
  <1>1. old.pc = "written" /\ old.pc # "idle"
    BY DEF SyncTemporary
  <1>2. /\ old = Job(old, old.pc, old.load, old.file, old.synced, old.read)
        /\ JobStands(old)
    BY <1>1, JobOf
  <1>3. PICK job : /\ jobs' = [jobs EXCEPT ![j] = job]
                   /\ job = [old EXCEPT !.pc = "persist", !.synced = TRUE]
    BY DEF SyncTemporary, Proceed, SyncFile
  <1>4. UNCHANGED <<disk, catalog, locks, emitted>>
    BY DEF SyncTemporary, Proceed
  <1> HIDE DEF old
  <1>5. job = Job(old, "persist", old.load, old.file, TRUE, old.read)
    BY <1>2, <1>3 DEF Job
  <1>6. JobStands(job) /\ job.pc # "sync"
    BY <1>1, <1>2, <1>5 DEF JobStands, Job, Idle
  <1>7. \A e \in emitted' : EmittedStands(e)
    BY <1>4 DEF ToolchainInv
  <1>8. QED
    BY <1>3, <1>4, <1>6, <1>7, JobKept

\* A lock takes its place: it is whole, of a generation of its own.
LEMMA PersistKeeps ==
    ASSUME ToolchainInv, NEW j \in Jobs, Persist(j)
    PROVE  ToolchainInv'
  <1> DEFINE old == jobs[j]
             directory == old.directory
             place == locks[directory]
             generation == place.last + 1
             file == [old.file EXCEPT !.generation = generation]
             kept == place.kept \cup {file} \cup
                        IF old.synced THEN {} ELSE {Torn(generation)}
             lock == [place EXCEPT !.visible = file, !.last = generation, !.kept = kept]
             job == [old EXCEPT !.pc = "sync", !.file = file]
  <1>1. old.pc = "persist" /\ old.pc # "idle"
    BY DEF Persist
  <1>2. /\ old = Job(old, old.pc, old.load, old.file, old.synced, old.read)
        /\ JobStands(old) /\ directory \in Directories
    BY <1>1, JobOf
  <1>3. Made(old.file) /\ old.synced = TRUE
    BY <1>1, <1>2 DEF JobStands, Idle
  <1>4. LockStands(place)
    BY <1>2 DEF ToolchainInv
  <1>5. /\ locks' = [locks EXCEPT ![directory] = lock]
        /\ jobs' = [jobs EXCEPT ![j] = job]
        /\ UNCHANGED <<disk, catalog, emitted>>
    <2>1. jobs' = [jobs EXCEPT ![j] = job] /\ UNCHANGED <<disk, catalog, emitted>>
      BY DEF Persist
    <2>2. locks' = [locks EXCEPT ![directory] = lock]
      BY DEF Persist
    <2>3. QED
      BY <2>1, <2>2
  <1>6. /\ generation \in Nat /\ place.last \in Nat /\ place.last < generation
        /\ place.reported \in Nat
        /\ place.visible.generation <= place.last /\ place.reported <= place.last
    <2>1. /\ place.last \in Nat /\ place.reported \in Nat /\ place.visible \in place.kept
          /\ \A f \in place.kept : f = NoLock \/ Made(f)
          /\ \A f \in place.kept :
                place.reported <= f.generation /\ f.generation <= place.last
      BY <1>4 DEF LockStands
    <2>2. place.visible.generation \in Nat
      BY <2>1 DEF NoLock, Made
    <2>3. QED
      BY <2>1, <2>2
  <1>7. Made(file) /\ file.generation = generation
    <2>1. /\ old.file = [whole |-> old.file.whole, generation |-> old.file.generation,
                         lock |-> old.file.lock, package |-> old.file.package]
          /\ old.file.whole
      BY <1>3 DEF Made
    <2> DEFINE made == old.file
    <2> HIDE DEF generation, made
    <2>2. file = [whole |-> made.whole, generation |-> generation,
                  lock |-> made.lock, package |-> made.package]
      <3>1. made = [whole |-> made.whole, generation |-> made.generation,
                    lock |-> made.lock, package |-> made.package]
        BY <2>1 DEF made
      <3>2. file = [made EXCEPT !.generation = generation]
        BY DEF made
      <3> HIDE DEF file
      <3>3. QED
        BY <3>1, <3>2
    <2>3. /\ file.generation = generation /\ file.lock = made.lock
          /\ file.package = made.package /\ file.whole = made.whole
      <3> HIDE DEF file
      <3>1. QED
        BY <2>2
    <2> HIDE DEF file
    <2>4. Made(made)
      BY <1>3 DEF made
    <2>5. QED
      BY <1>6, <2>2, <2>3, <2>4 DEF Made
  <1>8. kept = place.kept \cup {file}
    BY <1>3
  <1> HIDE DEF old, directory, generation, file, kept, place
  <1>9. lock = [visible |-> file, kept |-> kept, last |-> generation,
                reported |-> place.reported]
    <2>1. place = [visible |-> place.visible, kept |-> place.kept, last |-> place.last,
                   reported |-> place.reported]
      BY <1>4 DEF LockStands
    <2>2. lock = [place EXCEPT !.visible = file, !.last = generation, !.kept = kept]
      OBVIOUS
    <2> HIDE DEF lock
    <2>3. QED
      BY <2>1, <2>2
  <1> HIDE DEF lock
  <1>10. LockStands(lock)
    <2>1. \A f \in place.kept :
             /\ f = NoLock \/ Made(f)
             /\ place.reported <= f.generation /\ f.generation <= place.last
             /\ f.generation \in Nat
      BY <1>4 DEF LockStands, NoLock, Made
    <2>2. \A f \in kept :
             /\ f = NoLock \/ Made(f)
             /\ place.reported <= f.generation /\ f.generation <= generation
      BY <1>6, <1>7, <1>8, <2>1
    <2>3. QED
      BY <1>6, <1>8, <1>9, <2>2 DEF LockStands
  <1>11. job = Job(old, "sync", old.load, file, old.synced, old.read)
    <2>1. old = [pc |-> old.pc, command |-> old.command, directory |-> old.directory,
                 load |-> old.load, file |-> old.file, synced |-> old.synced,
                 read |-> old.read]
      BY <1>2 DEF Job
    <2>2. job = [old EXCEPT !.pc = "sync", !.file = file]
      OBVIOUS
    <2> HIDE DEF job
    <2>3. QED
      BY <2>1, <2>2 DEF Job
  <1> HIDE DEF job
  <1>12. JobStands(job) /\ job.directory = directory /\ job.file = file
    BY <1>1, <1>2, <1>7, <1>11 DEF JobStands, Job, Idle, directory
  <1>13. /\ locks' = [d \in Directories |-> locks'[d]]
         /\ \A d \in Directories : locks'[d] = IF d = directory THEN lock ELSE locks[d]
    BY <1>5 DEF ToolchainInv
  <1>14. /\ jobs' = [i \in Jobs |-> jobs'[i]]
         /\ \A i \in Jobs : jobs'[i] = IF i = j THEN job ELSE jobs[i]
    BY <1>5 DEF ToolchainInv
  <1>15. ASSUME NEW i \in Jobs, jobs'[i].pc = "sync"
         PROVE  jobs'[i].file.generation <= locks'[jobs'[i].directory].visible.generation
    <2>1. CASE i = j
      BY <1>2, <1>6, <1>7, <1>9, <1>12, <1>13, <1>14, <2>1
    <2>2. CASE i # j
      <3>1. /\ jobs'[i] = jobs[i] /\ jobs[i].pc # "idle"
            /\ jobs[i].file.generation <= locks[jobs[i].directory].visible.generation
        BY <1>14, <1>15, <2>2 DEF ToolchainInv
      <3>2. jobs[i].directory \in Directories /\ Made(jobs[i].file)
        <4>1. jobs[i].directory \in Directories /\ JobStands(jobs[i]) /\ jobs[i].pc = "sync"
          BY <1>14, <1>15, <2>2, <3>1, JobOf
        <4>2. QED
          BY <4>1 DEF JobStands, Idle
      <3>3. CASE jobs[i].directory = directory
        <4>1. /\ jobs[i].file.generation \in Nat
              /\ place.visible.generation \in Nat
              /\ jobs[i].file.generation <= place.visible.generation
          BY <1>4, <3>1, <3>2, <3>3 DEF Made, LockStands, NoLock, place
        <4>2. locks'[jobs'[i].directory].visible.generation = generation
          BY <1>2, <1>7, <1>9, <1>13, <3>1, <3>3
        <4>3. QED
          BY <1>6, <3>1, <4>1, <4>2
      <3>4. CASE jobs[i].directory # directory
        BY <1>13, <3>1, <3>2, <3>4
      <3>5. QED
        BY <3>3, <3>4
    <2>3. QED
      BY <2>1, <2>2
  <1>16. \A d \in Directories : LockStands(locks'[d])
    BY <1>10, <1>13 DEF ToolchainInv
  <1>17. \A i \in Jobs : JobStands(jobs'[i])
    BY <1>12, <1>14 DEF ToolchainInv
  <1>18. QED
    BY <1>5, <1>13, <1>14, <1>15, <1>16, <1>17 DEF ToolchainInv

\* The command reports: no lock but the one that is found can come back, and
\* that is none older than the one reported.
LEMMA ReportKeeps ==
    ASSUME ToolchainInv, NEW j \in Jobs, Report(j)
    PROVE  ToolchainInv'
  <1> DEFINE old == jobs[j]
             directory == old.directory
             place == locks[directory]
             kept == {place.visible}
             reported == Later(place.reported, old.file.generation)
             lock == [visible |-> place.visible, kept |-> kept, last |-> place.last,
                      reported |-> reported]
  <1>1. old.pc = "sync" /\ old.pc # "idle"
    BY DEF Report
  <1>2. JobStands(old) /\ directory \in Directories
    BY <1>1, JobOf
  <1>3. Made(old.file) /\ old.file.generation <= place.visible.generation
    BY <1>1, <1>2 DEF JobStands, Idle, ToolchainInv
  <1>4. LockStands(place)
    BY <1>2 DEF ToolchainInv
  <1>5. /\ place = [visible |-> place.visible, kept |-> place.kept, last |-> place.last,
                    reported |-> place.reported]
        /\ place.last \in Nat /\ place.reported \in Nat /\ place.visible \in place.kept
        /\ place.visible = NoLock \/ Made(place.visible)
        /\ place.reported <= place.visible.generation
        /\ place.visible.generation <= place.last
    BY <1>4 DEF LockStands
  <1>6. /\ locks' = [locks EXCEPT ![directory] = lock]
        /\ jobs' = [jobs EXCEPT ![j] = Idle]
        /\ UNCHANGED <<disk, catalog, emitted>>
    <2> DEFINE synced == [place EXCEPT !.kept = kept]
               stamp == old.file.generation
               after == [synced EXCEPT !.reported = Later(synced.reported, stamp)]
    <2>1. /\ locks' = [locks EXCEPT ![directory] = after]
          /\ jobs' = [jobs EXCEPT ![j] = Idle]
          /\ UNCHANGED <<disk, catalog, emitted>>
      BY DEF Report, DirectorySynced
    <2> HIDE DEF place, kept, stamp
    <2>2. synced = [visible |-> place.visible, kept |-> kept, last |-> place.last,
                    reported |-> place.reported]
      BY <1>5
    <2> HIDE DEF synced
    <2>3. synced.reported = place.reported
      BY <2>2
    <2>4. after = [synced EXCEPT !.reported = reported]
      BY <2>3 DEF stamp
    <2> HIDE DEF after, reported
    <2>5. after = lock
      BY <2>2, <2>4
    <2>6. QED
      BY <2>1, <2>5
  <1>7. /\ reported \in Nat /\ reported <= place.visible.generation
        /\ place.visible.generation \in Nat
    <2>1. old.file.generation \in Nat
      BY <1>3 DEF Made
    <2>2. place.visible.generation \in Nat
      <3>1. NoLock.generation = 0
        BY DEF NoLock
      <3>2. QED
        BY <1>5, <3>1 DEF Made
    <2>3. reported = place.reported \/ reported = old.file.generation
      BY DEF Later
    <2> HIDE DEF reported, old, place
    <2>4. QED
      BY <1>3, <1>5, <2>1, <2>2, <2>3
  <1> HIDE DEF old, directory, place, reported
  <1>8. LockStands(lock)
    BY <1>5, <1>7 DEF LockStands
  <1>9. lock.visible = place.visible
    OBVIOUS
  <1> HIDE DEF lock
  <1>10. /\ locks' = [d \in Directories |-> locks'[d]]
         /\ \A d \in Directories : locks'[d] = IF d = directory THEN lock ELSE locks[d]
    BY <1>6 DEF ToolchainInv
  <1>11. /\ jobs' = [i \in Jobs |-> jobs'[i]]
         /\ \A i \in Jobs : jobs'[i] = IF i = j THEN Idle ELSE jobs[i]
    BY <1>6 DEF ToolchainInv
  <1>12. ASSUME NEW i \in Jobs, jobs'[i].pc = "sync"
         PROVE  jobs'[i].file.generation <= locks'[jobs'[i].directory].visible.generation
    <2>1. i # j /\ jobs'[i] = jobs[i] /\ jobs[i].pc = "sync" /\ jobs[i].pc # "idle"
      BY <1>11, <1>12 DEF Idle
    <2>2. jobs[i].directory \in Directories
      BY <2>1, JobOf
    <2>3. locks'[jobs[i].directory].visible = locks[jobs[i].directory].visible
      BY <1>9, <1>10, <2>2 DEF place
    <2>4. QED
      BY <2>1, <2>3 DEF ToolchainInv
  <1>13. \A d \in Directories : LockStands(locks'[d])
    BY <1>8, <1>10 DEF ToolchainInv
  <1>14. \A i \in Jobs : JobStands(jobs'[i])
    BY <1>11, IdleStands DEF ToolchainInv
  <1>15. QED
    BY <1>6, <1>10, <1>11, <1>12, <1>13, <1>14 DEF ToolchainInv

\* A lock file that is found and whole was made.
LEMMA LockFileMade ==
    ASSUME ToolchainInv, NEW directory, Readable(LockFile(directory))
    PROVE  Made(LockFile(directory))
  <1>1. LockFile(directory) # NoLock
    BY DEF Readable, NoLock
  <1>2. directory \in Directories /\ LockFile(directory) = locks[directory].visible
    BY <1>1 DEF LockFile
  <1>3. LockStands(locks[directory])
    BY <1>2 DEF ToolchainInv
  <1>4. QED
    BY <1>1, <1>2, <1>3 DEF LockStands

\* A command has read the lock of a package: it was made.
LEMMA LockReadStands ==
    ASSUME ToolchainInv, NEW j \in Jobs, jobs[j].pc \in {"compile", "children"},
           NEW identity, NEW file, Made(file)
    PROVE  JobStands(Job(jobs[j], "children", jobs[j].load, jobs[j].file, jobs[j].synced,
                         With(jobs[j].read, identity, file)))
  <1> DEFINE old == jobs[j]
             was == jobs[j].read
             read == With(was, identity, file)
  <1>1. /\ JobStands(old) /\ IsFunction(was)
        /\ \A i \in DOMAIN was : Made(was[i])
    BY JobOf
  <1>2. /\ IsFunction(read)
        /\ DOMAIN read = DOMAIN was \cup {identity}
        /\ \A i \in DOMAIN read : read[i] = IF i = identity THEN file ELSE was[i]
    <2> HIDE DEF was
    <2>1. QED
      BY DEF With, IsFunction
  <1> HIDE DEF read, was
  <1>3. \A i \in DOMAIN read : Made(read[i])
    BY <1>1, <1>2
  <1> HIDE DEF old
  <1>4. old.pc \in {"compile", "children"}
    BY DEF old
  <1>5. JobStands(Job(old, "children", old.load, old.file, old.synced, read))
    BY <1>1, <1>2, <1>3, <1>4 DEF JobStands, Job, Idle
  <1>6. QED
    BY <1>5 DEF old, read, was

\* The lock of the package that is compiled is read.
LEMMA ReadLockKeeps ==
    ASSUME ToolchainInv, NEW j \in Jobs, ReadLock(j)
    PROVE  ToolchainInv'
  <1> DEFINE old == jobs[j]
             file == LockFile(old.directory)
             identity == Identity(Package(j))
             read == With(old.read, identity, file)
  <1>1. old.pc = "compile" /\ old.pc # "idle"
    BY DEF ReadLock
  <1>2. old = Job(old, old.pc, old.load, old.file, old.synced, old.read)
    BY <1>1, JobOf
  <1>3. PICK job : /\ jobs' = [jobs EXCEPT ![j] = job]
                   /\ \/ job = Idle
                      \/ /\ Readable(file)
                         /\ job = [[old EXCEPT !.pc = "children"] EXCEPT !.read = read]
    BY DEF ReadLock, Proceed, Goto
  <1>4. UNCHANGED <<disk, catalog, locks, emitted>>
    BY DEF ReadLock, Proceed
  <1>5. JobStands(job) /\ job.pc # "sync"
    <2>1. CASE job = Idle
      BY <2>1, IdleStands
    <2>2. CASE job # Idle
      <3>1. Made(file)
        BY <1>3, <2>2, LockFileMade
      <3>2. JobStands(Job(old, "children", old.load, old.file, old.synced, read))
        <4> HIDE DEF file, identity
        <4>1. QED
          BY <1>1, <3>1, LockReadStands
      <3> HIDE DEF read, old
      <3>3. job = Job(old, "children", old.load, old.file, old.synced, read)
        BY <1>2, <1>3, <2>2 DEF Job
      <3>4. QED
        BY <3>2, <3>3 DEF Job
    <2>3. QED
      BY <2>1, <2>2
  <1>6. \A e \in emitted' : EmittedStands(e)
    BY <1>4 DEF ToolchainInv
  <1>7. QED
    BY <1>3, <1>4, <1>5, <1>6, JobKept

\* The lock of a package below it is read.
LEMMA ReadChildLockKeeps ==
    ASSUME ToolchainInv, NEW j \in Jobs, ReadChildLock(j)
    PROVE  ToolchainInv'
  <1> DEFINE old == jobs[j]
  <1>1. old.pc = "children" /\ old.pc # "idle"
    BY DEF ReadChildLock
  <1>2. old = Job(old, old.pc, old.load, old.file, old.synced, old.read)
    BY <1>1, JobOf
  <1>3. PICK child \in Unread(j) :
           Proceed(j, IF Readable(LockFile(child.directory))
                        THEN [old EXCEPT !.read =
                                 With(@, Identity(child), LockFile(child.directory))]
                        ELSE Idle)
    BY DEF ReadChildLock
  <1> DEFINE file == LockFile(child.directory)
             identity == Identity(child)
             read == With(old.read, identity, file)
  <1>4. PICK job : /\ jobs' = [jobs EXCEPT ![j] = job]
                   /\ \/ job = Idle
                      \/ /\ Readable(file)
                         /\ job = [old EXCEPT !.read = read]
    BY <1>3 DEF Proceed
  <1>5. UNCHANGED <<disk, catalog, locks, emitted>>
    BY <1>3 DEF Proceed
  <1>6. JobStands(job) /\ job.pc # "sync"
    <2>1. CASE job = Idle
      BY <2>1, IdleStands
    <2>2. CASE job # Idle
      <3>1. Made(file)
        BY <1>4, <2>2, LockFileMade
      <3>2. JobStands(Job(old, "children", old.load, old.file, old.synced, read))
        <4> HIDE DEF file, identity
        <4>1. QED
          BY <1>1, <3>1, LockReadStands
      <3> HIDE DEF read, old
      <3>3. job = Job(old, "children", old.load, old.file, old.synced, read)
        BY <1>1, <1>2, <1>4, <2>2 DEF Job
      <3>4. QED
        BY <3>2, <3>3 DEF Job
    <2>3. QED
      BY <2>1, <2>2
  <1>7. \A e \in emitted' : EmittedStands(e)
    BY <1>5 DEF ToolchainInv
  <1>8. QED
    BY <1>4, <1>5, <1>6, <1>7, JobKept

\* What is emitted was resolved with locks that were made, of every package.
LEMMA CompileKeeps ==
    ASSUME ToolchainInv, NEW j \in Jobs, Compile(j)
    PROVE  ToolchainInv'
  <1> DEFINE read == jobs[j].read
             tree == [identity \in DOMAIN read |-> read[identity].lock]
             package == Package(j)
             e == [agents |-> ResolvedAgents(package, tree), package |-> package, of |-> read]
  <1>1. jobs[j].pc = "children" /\ jobs[j].pc # "idle"
    BY DEF Compile
  <1>2. /\ \A p \in Tree(package) : Sealed(p)
        /\ \A identity \in DOMAIN read : Made(read[identity])
    BY <1>1, JobOf
  <1>3. /\ emitted' = IF AgentResolves(package, tree) THEN {e} ELSE {}
        /\ jobs' = [jobs EXCEPT ![j] = Idle]
        /\ UNCHANGED <<disk, catalog, locks>>
    BY DEF Compile
  <1>4. ASSUME AgentResolves(package, tree)
        PROVE  EmittedStands(e)
    <2>1. DOMAIN tree = DOMAIN read
      OBVIOUS
    <2>2. /\ DOMAIN tree = {Identity(p) : p \in Tree(package)}
          /\ \A p \in Tree(package) : Resolvable(p, tree[Identity(p)])
      BY <1>4 DEF AgentResolves
    <2>3. \A p \in Tree(package) : /\ Identity(p) \in DOMAIN read
                                   /\ tree[Identity(p)] = read[Identity(p)].lock
      BY <2>1, <2>2
    <2>4. /\ e.agents = ResolvedAgents(package, tree) /\ e.package = package /\ e.of = read
          /\ tree = [i \in DOMAIN e.of |-> e.of[i].lock]
      OBVIOUS
    <2> HIDE DEF e, tree, read, package
    <2>5. QED
      BY <1>2, <2>2, <2>3, <2>4 DEF EmittedStands
  <1> HIDE DEF e, tree, read, package
  <1>5. \A f \in emitted' : EmittedStands(f)
    BY <1>3, <1>4
  <1>6. QED
    BY <1>3, <1>5, IdleStands, JobKept

\* A command that is killed leaves its lock as it is.
LEMMA KilledKeeps ==
    ASSUME ToolchainInv, NEW j \in Jobs, Killed(j)
    PROVE  ToolchainInv'
  <1>1. jobs' = [jobs EXCEPT ![j] = Idle] /\ UNCHANGED <<disk, catalog, locks, emitted>>
    BY DEF Killed, Proceed
  <1>2. \A e \in emitted' : EmittedStands(e)
    BY <1>1 DEF ToolchainInv
  <1>3. QED
    BY <1>1, <1>2, IdleStands, JobKept

\* A file is saved.
LEMMA EditKeeps ==
    ASSUME ToolchainInv, Edit
    PROVE  ToolchainInv'
  <1>1. PICK edit \in Edits : disk' = With(disk, edit.path, edit.file)
    BY DEF Edit
  <1>2. UNCHANGED <<catalog, locks, jobs, emitted>>
    BY DEF Edit
  <1>3. edit.file \in Files
    BY DEF Files
  <1>4. /\ IsFunction(disk')
        /\ \A path \in DOMAIN disk' : disk'[path] \in Files
    <2>1. PICK path, file : path = edit.path /\ file = edit.file
      OBVIOUS
    <2>2. disk' = With(disk, path, file) /\ file \in Files
      BY <1>1, <1>3, <2>1
    <2>3. \A x \in DOMAIN disk : disk[x] \in Files
      BY DEF ToolchainInv
    <2>4. QED
      BY <2>2, <2>3 DEF With, IsFunction
  <1>5. QED
    BY <1>2, <1>4 DEF ToolchainInv

\* The catalog is published anew.
LEMMA PublishKeeps ==
    ASSUME ToolchainInv, Publish
    PROVE  ToolchainInv'
  <1>1. catalog' \in Catalogs /\ UNCHANGED <<disk, locks, jobs, emitted>>
    BY DEF Publish
  <1>2. QED
    BY <1>1 DEF ToolchainInv

\* After a power loss every directory has one of the locks it may have had.
LEMMA PowerLossKeeps ==
    ASSUME ToolchainInv, PowerLoss
    PROVE  ToolchainInv'
  <1>1. PICK file : /\ \A d \in Directories : file[d] \in locks[d].kept
                    /\ locks' = [d \in Directories |-> [locks[d] EXCEPT
                                    !.visible = file[d], !.kept = {file[d]}]]
    BY DEF PowerLoss
  <1>2. /\ jobs' = [j \in Jobs |-> Idle]
        /\ UNCHANGED <<disk, catalog, emitted>>
    BY DEF PowerLoss
  <1>3. ASSUME NEW d \in Directories
        PROVE  LockStands(locks'[d])
    <2>1. PICK old, visible : old = locks[d] /\ visible = file[d]
      OBVIOUS
    <2>2. LockStands(old) /\ visible \in old.kept
      BY <1>1, <2>1 DEF ToolchainInv
    <2> DEFINE kept == {visible}
    <2>3. locks'[d] = [old EXCEPT !.visible = visible, !.kept = kept]
      BY <1>1, <2>1
    <2>4. old = [visible |-> old.visible, kept |-> old.kept, last |-> old.last,
                 reported |-> old.reported]
      BY <2>2 DEF LockStands
    <2>5. PICK new : new = locks'[d]
      OBVIOUS
    <2>6. new = [visible |-> visible, kept |-> kept, last |-> old.last,
                 reported |-> old.reported]
      <3> HIDE DEF kept
      <3>1. QED
        BY <2>3, <2>4, <2>5
    <2>7. LockStands(new)
      BY <2>2, <2>6 DEF LockStands
    <2>8. QED
      BY <2>5, <2>7
  <1>4. locks' = [d \in Directories |-> locks'[d]]
    BY <1>1
  <1>5. \A j \in Jobs : JobStands(jobs'[j]) /\ jobs'[j].pc # "sync"
    BY <1>2, IdleStands
  <1>6. jobs' = [j \in Jobs |-> jobs'[j]]
    BY <1>2
  <1>7. QED
    BY <1>2, <1>3, <1>4, <1>5, <1>6 DEF ToolchainInv

-----------------------------------------------------------------------------
(* The theorems.                                                            *)

\* At first nothing is locked, and no command runs.
LEMMA ToolchainStarts ==
    ASSUME Init
    PROVE  ToolchainInv
  <1>1. /\ IsFunction(disk)
        /\ \A path \in DOMAIN disk : disk[path] \in Files
    BY ToolchainAssumption DEF Init, Files, Range, IsFunction
  <1>2. \A d \in Directories : LockStands(locks[d])
    BY DEF Init, LockStands, NoLock
  <1>3. \A j \in Jobs : JobStands(jobs[j]) /\ jobs[j].pc # "sync"
    BY IdleStands DEF Init
  <1>4. /\ catalog \in Catalogs /\ emitted = {}
        /\ locks = [d \in Directories |-> locks[d]]
        /\ jobs = [j \in Jobs |-> jobs[j]]
    BY DEF Init
  <1>5. QED
    BY <1>1, <1>2, <1>3, <1>4 DEF ToolchainInv

\* No step of a command, of the author or of the machine breaks it.
LEMMA ToolchainKept ==
    ASSUME ToolchainInv, [Next]_vars
    PROVE  ToolchainInv'
  <1>1. ASSUME NEW j \in Jobs, NEW command \in {"lock", "compile"},
               NEW directory \in Directories, Start(j, command, directory)
        PROVE  ToolchainInv'
    BY <1>1, StartKeeps
  <1>2. ASSUME NEW j \in Jobs, Load(j)
        PROVE  ToolchainInv'
    BY <1>2, LoadKeeps
  <1>3. ASSUME NEW j \in Jobs, MakeLock(j)
        PROVE  ToolchainInv'
    BY <1>3, MakeLockKeeps
  <1>4. ASSUME NEW j \in Jobs, SyncTemporary(j)
        PROVE  ToolchainInv'
    BY <1>4, SyncTemporaryKeeps
  <1>5. ASSUME NEW j \in Jobs, Persist(j)
        PROVE  ToolchainInv'
    BY <1>5, PersistKeeps
  <1>6. ASSUME NEW j \in Jobs, Report(j)
        PROVE  ToolchainInv'
    BY <1>6, ReportKeeps
  <1>7. ASSUME NEW j \in Jobs, ReadLock(j)
        PROVE  ToolchainInv'
    BY <1>7, ReadLockKeeps
  <1>8. ASSUME NEW j \in Jobs, ReadChildLock(j)
        PROVE  ToolchainInv'
    BY <1>8, ReadChildLockKeeps
  <1>9. ASSUME NEW j \in Jobs, Compile(j)
        PROVE  ToolchainInv'
    BY <1>9, CompileKeeps
  <1>10. ASSUME NEW j \in Jobs, Killed(j)
         PROVE  ToolchainInv'
    BY <1>10, KilledKeeps
  <1>11. CASE Edit \/ Publish \/ PowerLoss
    BY <1>11, EditKeeps, PublishKeeps, PowerLossKeeps
  <1>12. CASE UNCHANGED vars
    BY <1>12 DEF vars, ToolchainInv
  <1>13. QED
    BY <1>1, <1>2, <1>3, <1>4, <1>5, <1>6, <1>7, <1>8, <1>9, <1>10, <1>11, <1>12 DEF Next

\* Whatever commands run at a time, whatever is saved and published meanwhile
\* and whenever a command is killed or the power fails, loads, locks and what is
\* emitted stand.
THEOREM ToolchainInvariant == Spec => []ToolchainInv
  <1>1. QED
    BY ToolchainStarts, ToolchainKept, PTL DEF Spec

\* load_package: what it returns has no identity twice, and no two references to
\* one file, for every tree of packages and every edit made during the load.
THEOREM LoadsAreSound == Spec => []LoadedSound
  <1>1. ASSUME ToolchainInv
        PROVE  LoadedSound
    <2>1. ASSUME NEW package \in Loaded
          PROVE  /\ UniqueIdentities(Tree(package))
                 /\ \A p, q \in Tree(package) :
                       \A file \in FilesOf(p), other \in FilesOf(q) :
                           Folded(file) = Folded(other) =>
                               p.directory = q.directory /\ file = other
      <3>1. PICK j \in Jobs : /\ jobs[j] # Idle /\ jobs[j].load.pc = "loaded"
                              /\ package = jobs[j].load.package
        BY DEF Loaded, Package
      <3>2. LoadSound(jobs[j].load)
        BY <1>1, <3>1 DEF ToolchainInv, JobStands
      <3>3. PICK load : load = jobs[j].load
        OBVIOUS
      <3>4. IsLoad(load) /\ Whole(load, package)
        BY <3>1, <3>2, <3>3 DEF LoadSound
      <3>5. QED
        BY <3>4, WholeSound
    <2>2. QED
      BY <2>1 DEF LoadedSound
  <1>2. QED
    BY <1>1, ToolchainInvariant, PTL

\* write_lock_atomic: no lock is found torn, however often the power fails.
THEOREM LocksAreWhole == Spec => []LocksWhole
  <1>1. ASSUME ToolchainInv
        PROVE  LocksWhole
    <2>1. ASSUME NEW d \in Directories, NEW file \in {locks[d].visible} \cup locks[d].kept
          PROVE  file = NoLock \/ Readable(file)
      BY <1>1 DEF ToolchainInv, LockStands, Made, Readable
    <2>2. QED
      BY <2>1 DEF LocksWhole
  <1>2. QED
    BY <1>1, ToolchainInvariant, PTL

\* sync_parent_directory: a lock that was reported, or a later one, is the oldest
\* that a power loss can bring back.
THEOREM ReportsLast == Spec => []ReportedLocksStay
  <1>1. ASSUME ToolchainInv
        PROVE  ReportedLocksStay
    <2>1. ASSUME NEW d \in Directories, NEW file \in locks[d].kept
          PROVE  file.generation >= locks[d].reported
      <3>1. /\ locks[d].reported <= file.generation
            /\ locks[d].reported \in Nat /\ file.generation \in Nat
        BY <1>1 DEF ToolchainInv, LockStands, Made, NoLock
      <3>2. QED
        BY <3>1
    <2>2. QED
      BY <2>1 DEF ReportedLocksStay
  <1>2. QED
    BY <1>1, ToolchainInvariant, PTL

\* resolve_package puts into the agent what the package and its lock say.
LEMMA AgentResolved ==
    ASSUME NEW package, NEW lock, NEW agent, agent = ResolvedAgent(package, lock)
    PROVE  /\ agent.prompts = package.prompts /\ agent.skills = package.skills
           /\ agent.models = ResolvedModels(package.manifest)
           /\ agent.capabilities = ResolvedCapabilities(package, lock)
  BY DEF ResolvedAgent

\* What was compiled: sound packages, each resolved with a lock that was made.
LEMMA CompiledStands ==
    ASSUME ToolchainInv, NEW c \in Compiled
    PROVE  /\ Sealed(c.package) /\ Made(c.of)
           /\ Resolvable(c.package, c.of.lock)
           /\ c.agent.prompts = c.package.prompts /\ c.agent.skills = c.package.skills
           /\ c.agent.models = ResolvedModels(c.package.manifest)
           /\ c.agent.capabilities = ResolvedCapabilities(c.package, c.of.lock)
           /\ c.package.portable = c.of.package.portable
           /\ Sealed(c.of.package)
  <1>1. PICK e \in emitted : \E p \in Tree(e.package) :
           c = [agent |-> e.agents[p], package |-> p, of |-> e.of[Identity(p)]]
    BY DEF Compiled
  <1>2. PICK p \in Tree(e.package) :
           c = [agent |-> e.agents[p], package |-> p, of |-> e.of[Identity(p)]]
    BY <1>1
  <1>3. EmittedStands(e)
    BY DEF ToolchainInv
  <1> DEFINE tree == [i \in DOMAIN e.of |-> e.of[i].lock]
  <1>4. /\ Sealed(p) /\ Identity(p) \in DOMAIN e.of /\ Made(e.of[Identity(p)])
        /\ Resolvable(p, e.of[Identity(p)].lock)
        /\ e.agents = ResolvedAgents(e.package, tree)
    BY <1>3 DEF EmittedStands
  <1>5. tree[Identity(p)] = e.of[Identity(p)].lock
    BY <1>4
  <1>6. e.agents[p] = ResolvedAgent(p, tree[Identity(p)])
    <2> HIDE DEF tree
    <2>1. QED
      BY <1>4 DEF ResolvedAgents
  <1>7. c.agent = e.agents[p] /\ c.package = p /\ c.of = e.of[Identity(p)]
    BY <1>2
  <1> HIDE DEF tree
  <1>8. /\ Sealed(c.package) /\ Made(c.of)
        /\ Resolvable(c.package, c.of.lock)
        /\ c.agent = ResolvedAgent(c.package, c.of.lock)
    BY <1>4, <1>5, <1>6, <1>7
  <1>9. /\ c.agent.prompts = c.package.prompts /\ c.agent.skills = c.package.skills
         /\ c.agent.models = ResolvedModels(c.package.manifest)
         /\ c.agent.capabilities = ResolvedCapabilities(c.package, c.of.lock)
    BY <1>8, AgentResolved
  <1>10. c.of.lock.package = c.of.package.portable /\ Sealed(c.of.package)
    BY <1>8 DEF Made, LockOf
  <1>11. c.of.lock.package = c.package.portable
    BY <1>8 DEF Resolvable, VerifyLock
  <1>12. QED
    BY <1>8, <1>9, <1>10, <1>11

\* verify_lock: what is compiled is what was locked, for every package of the
\* tree and every sequence of edits between and during the two commands.
THEOREM CompiledIsLocked == Spec => []CompiledAsLocked
  <1>1. ASSUME ToolchainInv
        PROVE  CompiledAsLocked
    <2>1. ASSUME NEW c \in Compiled
          PROVE  /\ c.package.manifest = c.of.package.manifest
                 /\ DOMAIN c.agent.prompts = DOMAIN c.of.package.prompts
                 /\ \A path \in DOMAIN c.of.package.prompts \ DOMAIN c.of.package.skills :
                       c.agent.prompts[path] = c.of.package.prompts[path]
                 /\ c.agent.skills = c.of.package.skills
      <3>1. PICK p, q : p = c.package /\ q = c.of.package
        OBVIOUS
      <3>2. Sealed(p) /\ Sealed(q) /\ p.portable = q.portable
        BY <1>1, <3>1, CompiledStands
      <3>3. c.agent.prompts = p.prompts /\ c.agent.skills = p.skills
        BY <1>1, <3>1, CompiledStands
      <3>4. /\ p.manifest = q.manifest
            /\ DOMAIN p.prompts = DOMAIN q.prompts
            /\ \A path \in DOMAIN q.prompts \ DOMAIN q.skills :
                  p.prompts[path] = q.prompts[path]
            /\ p.skills = q.skills
        BY <3>2, DigestTells
      <3>5. QED
        BY <3>1, <3>3, <3>4
    <2>2. QED
      BY <2>1 DEF CompiledAsLocked
  <1>2. QED
    BY <1>1, ToolchainInvariant, PTL

\* lock_package and resolve_capabilities: a package that compiles at all runs with
\* the newest version its catalog had for each requirement, for every catalog, every
\* set of requirements and every order of their texts.
THEOREM SelectionIsKept == Spec => []SelectionKept
  <1>1. ASSUME ToolchainInv
        PROVE  SelectionKept
    <2>1. ASSUME NEW c \in Compiled
          PROVE  /\ \A r \in Requirements(c.package) :
                       \A i \in NewestFor(c, r) : Entry(c, i) \in Got(c, r)
                 /\ \A f \in c.agent.capabilities : \E r \in Requirements(c.package) :
                       /\ f.capability \in Got(c, r)
                       /\ f.capability.identity \in NewestFor(c, r)
      <3>1. PICK p, q, lock, published :
               /\ p = c.package /\ q = c.of.package /\ lock = c.of.lock
               /\ published = c.of.lock.catalog
        OBVIOUS
      <3>2. /\ Sealed(p) /\ Sealed(q) /\ p.portable = q.portable
            /\ lock = LockOf(q, published) /\ published \in Catalogs
            /\ LockedOnce(q, published) /\ CapabilitiesMet(p, lock)
        BY <1>1, <3>1, CompiledStands DEF Made, Resolvable
      <3>3. Requirements(p) = Requirements(q)
        BY <3>2, DigestTells DEF Requirements
      <3>4. \A r \in Requirements(p) :
               /\ \A i \in Newest(Candidates(r, published)) :
                     EntryOf(i, published) \in Found(r, lock)
               /\ \A f \in Found(r, lock) :
                     f.identity \in Newest(Candidates(r, published))
        BY <3>2, <3>3, NewestTaken
      <3>5. c.agent.capabilities =
               UNION {{[capability |-> f, required |-> r.required, resources |-> r.resources] :
                          f \in Found(r, lock)} : r \in Requirements(p)}
        BY <1>1, <3>1, CompiledStands DEF ResolvedCapabilities
      <3>6. \A r \in Requirements(p) : \A f \in Found(r, lock) : f \in Got(c, r)
        <4>1. ASSUME NEW r \in Requirements(p), NEW f \in Found(r, lock)
              PROVE  f \in Got(c, r)
          <5> DEFINE g == [capability |-> f, required |-> r.required,
                           resources |-> r.resources]
          <5>1. g \in c.agent.capabilities
            BY <3>5
          <5>2. g.required = r.required /\ g.resources = r.resources /\ g.capability = f
            OBVIOUS
          <5> HIDE DEF g
          <5>3. QED
            BY <5>1, <5>2 DEF Got
        <4>2. QED
          BY <4>1
      <3>7. /\ \A r : NewestFor(c, r) = Newest(Candidates(r, published))
            /\ \A i : Entry(c, i) = EntryOf(i, published)
        BY <3>1 DEF NewestFor, Entry, EntryOf
      <3>8. \A r \in Requirements(p) : \A i \in NewestFor(c, r) : Entry(c, i) \in Got(c, r)
        BY <3>4, <3>6, <3>7
      <3>9. ASSUME NEW f \in c.agent.capabilities
            PROVE  \E r \in Requirements(p) :
                      /\ f.capability \in Got(c, r)
                      /\ f.capability.identity \in NewestFor(c, r)
        <4>1. PICK r \in Requirements(p) : \E g \in Found(r, lock) :
                 f = [capability |-> g, required |-> r.required, resources |-> r.resources]
          BY <3>5
        <4>2. PICK g \in Found(r, lock) :
                 f = [capability |-> g, required |-> r.required, resources |-> r.resources]
          BY <4>1
        <4>3. f.capability = g
          BY <4>2
        <4>4. g \in Got(c, r) /\ g.identity \in NewestFor(c, r)
          BY <3>4, <3>6, <3>7
        <4>5. QED
          BY <4>3, <4>4
      <3>10. QED
        BY <3>1, <3>8, <3>9
    <2>2. QED
      BY <2>1 DEF SelectionKept
  <1>2. QED
    BY <1>1, ToolchainInvariant, PTL

\* resolve_models: every role of every package compiled has a model that satisfies
\* it, whatever the binding and the component catalog.
THEOREM ModelsDoSuffice == Spec => []ModelsSuffice
  <1>1. ASSUME ToolchainInv
        PROVE  ModelsSuffice
    <2>1. ASSUME NEW c \in Compiled, NEW role \in DOMAIN c.package.manifest.models
          PROVE  LET requirement == c.package.manifest.models[role]
                     models == c.agent.models
                 IN /\ requirement.required => role \in DOMAIN models
                    /\ role \in DOMAIN models => ModelSatisfies(models[role], requirement)
      <3>1. PICK manifest : manifest = c.package.manifest
        OBVIOUS
      <3>2. ModelsMet(manifest)
        BY <1>1, <3>1, CompiledStands DEF Resolvable
      <3>3. c.agent.models = ResolvedModels(manifest)
        BY <1>1, <3>1, CompiledStands
      <3>4. /\ manifest.models[role].required => role \in DOMAIN ResolvedModels(manifest)
            /\ role \in DOMAIN ResolvedModels(manifest) =>
                  ModelSatisfies(ResolvedModels(manifest)[role], manifest.models[role])
        BY <2>1, <3>1, <3>2, ModelsResolved
      <3>5. QED
        BY <3>1, <3>3, <3>4
    <2>2. QED
      BY <2>1 DEF ModelsSuffice
  <1>2. QED
    BY <1>1, ToolchainInvariant, PTL

=============================================================================
