----------------------------- MODULE PackageTree ------------------------------
(***************************************************************************)
(* Loading an agent package: load_package of kiteframe-core/src/load.rs with *)
(* the references of discover.rs and the bounded reads of path.rs, as the    *)
(* steps of a depth-first walk that opens one file at a time.               *)
(*                                                                          *)
(* A path is a sequence of names; paths of files are relative to the         *)
(* directory the load was given, those of a manifest to its own directory.   *)
(* A disk is a function from paths to files: a size, whether a component of  *)
(* the path is a symbolic link, and a text or a manifest.  What parsing      *)
(* refuses is a file whose manifest is Unset.                               *)
(***************************************************************************)
EXTENDS Integers, Sequences, FiniteSets, SequencesExt

CONSTANTS
    Unset,          \* no manifest
    Lower(_),       \* to_lowercase, of a name
    Limits          \* PackageLimits: yaml, text, total and depth

Paths == Seq(STRING)

AgentYaml == "agent.yaml"
Root == <<>>

\* A map after an insertion.
With(map, key, value) ==
    [k \in DOMAIN map \cup {key} |-> IF k = key THEN value ELSE map[k]]

Folded(path) == [n \in DOMAIN path |-> Lower(path[n])]

\* The directory of a manifest, and a path within it.
Directory(path) == Front(path)
Within(directory, path) == directory \o path

\* What parsing makes of a manifest, as far as its lists and paths go.
WellFormed(manifest) ==
    /\ manifest.prompt \in Paths
    /\ manifest.skills \in Seq(Paths)
    /\ manifest.capabilities \in Seq(Range(manifest.capabilities))
    /\ manifest.delegation \in Seq(Range(manifest.delegation))
    /\ \A delegation \in Range(manifest.delegation) : delegation.agent \in Paths

\* The paths a manifest refers to, in the order they are registered and read.
Prompt(manifest) == <<[kind |-> "prompt", path |-> manifest.prompt]>>
Skills(manifest) ==
    [n \in DOMAIN manifest.skills |-> [kind |-> "skill", path |-> manifest.skills[n]]]
Subagents(manifest) ==
    [n \in DOMAIN manifest.delegation |->
        [kind |-> "agent", path |-> manifest.delegation[n].agent]]

References(manifest) == Prompt(manifest) \o Skills(manifest) \o Subagents(manifest)

\* A loaded package keeps, beside its own digest, every package below it: what
\* a walk of its subagents meets.
Tree(package) == {package} \cup package.nested

\* portable_digest: the manifest, every asset and the digest of every child.
\* A skill's text stands for a prompt's that is read from the same path.
PortableDigest(manifest, prompts, skills, children) ==
    [manifest |-> manifest,
     assets   |-> [path \in DOMAIN prompts \cup DOMAIN skills |->
                      IF path \in DOMAIN skills THEN skills[path] ELSE prompts[path]],
     children |-> [path \in DOMAIN children |-> children[path].portable]]

\* AgentPackage::from_validated_parts.
AgentPackage(directory, manifest, prompts, skills, children) ==
    [directory |-> directory, manifest |-> manifest, prompts |-> prompts,
     skills    |-> skills, children |-> children,
     portable  |-> PortableDigest(manifest, prompts, skills, children),
     nested    |-> UNION {Tree(children[path]) : path \in DOMAIN children}]

-----------------------------------------------------------------------------
(* The walk.  A frame is a package being assembled.                          *)

Empty == [path \in {} |-> Unset]

Loading(directory) ==
    [pc |-> "open", directory |-> directory, frames |-> <<>>, used |-> 0,
     active |-> {}, seen |-> {}, paths |-> {}, package |-> Unset]

Failed(load) ==
    [Loading(load.directory) EXCEPT !.pc = "failed"]

FaultyLeave(load, identity) ==
    [load EXCEPT !.active = @ \ {identity}, !.seen = @ \ {identity}]

\* IdentityTracker::leave.
Leave(load, identity) == [load EXCEPT !.active = @ \ {identity}]

\* PathCollisionTracker: paths that differ by case only, or that two packages
\* refer to, collide; agent.yaml of the root is registered from the start.
Tracked(prefix, references) ==
    {[path |-> Within(prefix, references[n].path), prefix |-> prefix] :
        n \in DOMAIN references}

Collides(tracked) ==
    \E p, q \in tracked : p # q /\ Folded(p.path) = Folded(q.path)

RootEntry == [path |-> <<AgentYaml>>, prefix |-> Root]

\* load_parsed_package with discover_portable_references: the identity is
\* entered, the references registered and a frame opened for the package.
Enter(load, manifest, prefix) ==
    LET references == References(manifest)
        tracked == load.paths \cup {RootEntry} \cup Tracked(prefix, references)
    IN IF \/ manifest.identity \in load.active \cup load.seen
          \/ \E n \in DOMAIN Subagents(manifest) :
                Last(Subagents(manifest)[n].path) # AgentYaml
          \/ Collides(tracked)
         THEN Failed(load)
         ELSE [load EXCEPT !.pc = "read",
                 !.active = @ \cup {manifest.identity},
                 !.seen = @ \cup {manifest.identity},
                 !.paths = tracked,
                 !.frames = Append(@, [prefix |-> prefix, manifest |-> manifest,
                              left |-> references, prompts |-> Empty,
                              skills |-> Empty, children |-> Empty])]

\* open_referenced_bytes: no symbolic link, and no more than the file's own
\* limit and what is left of the total.
Reads(load, disk, path, limit) ==
    /\ path \in DOMAIN disk
    /\ ~disk[path].linked
    /\ disk[path].bytes <= limit
    /\ disk[path].bytes <= Limits.total - load.used

Charged(load, disk, path) == [load EXCEPT !.used = @ + disk[path].bytes]

Opened(load, disk, path, prefix) ==
    IF /\ Reads(load, disk, path, Limits.yaml)
       /\ disk[path].manifest # Unset
      THEN Enter(Charged(load, disk, path), disk[path].manifest, prefix)
      ELSE Failed(load)

WithFrame(load, frame) == [load EXCEPT !.frames[Len(load.frames)] = frame]

\* A file of the package being assembled is read.  That of a subagent opens a
\* frame of its own, unless it nests too deep.
ReadReference(load, disk) ==
    LET frame == Last(load.frames)
        reference == Head(frame.left)
        path == Within(load.directory, Within(frame.prefix, reference.path))
        rest == [frame EXCEPT !.left = Tail(@)]
        read(text) ==
            IF reference.kind = "prompt"
              THEN [rest EXCEPT !.prompts = With(@, reference.path, text)]
              ELSE [rest EXCEPT !.skills = With(@, reference.path, text)]
    IN CASE reference.kind = "agent" ->
              IF Len(load.frames) <= Limits.depth
                THEN Opened(WithFrame(load, rest), disk, path,
                            Directory(Within(frame.prefix, reference.path)))
                ELSE Failed(load)
         [] OTHER ->
              IF Reads(load, disk, path, Limits.text)
                THEN Charged(WithFrame(load, read(disk[path].text)), disk, path)
                ELSE Failed(load)

\* A package whose references are all read is given to the one that delegates
\* to it, under the path it is referred to by.
Assemble(load) ==
    LET frame == Last(load.frames)
        package == AgentPackage(Within(load.directory, frame.prefix), frame.manifest,
                                frame.prompts, frame.skills, frame.children)
        left == Leave(load, frame.manifest.identity)
        parent == load.frames[Len(load.frames) - 1]
        path == SubSeq(frame.prefix, Len(parent.prefix) + 1, Len(frame.prefix))
                    \o <<AgentYaml>>
    IN IF Len(load.frames) = 1
         THEN [left EXCEPT !.pc = "loaded", !.frames = <<>>, !.package = package]
         ELSE WithFrame([left EXCEPT !.frames = Front(@)],
                        [parent EXCEPT !.children = With(@, path, package)])

\* load_package up to the next file it opens, on the disk as it then is, or to
\* the next package that is complete.
LoadStep(load, disk) ==
    CASE load.pc = "open" ->
            Opened(load, disk, Within(load.directory, <<AgentYaml>>), Root)
      [] load.pc = "read" /\ Last(load.frames).left = <<>> -> Assemble(load)
      [] OTHER -> ReadReference(load, disk)
=============================================================================
