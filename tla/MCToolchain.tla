----------------------------- MODULE MCToolchain -----------------------------
(* A package that delegates to one subagent, whose author rewrites and links *)
(* files of both while they are locked and compiled.                         *)
EXTENDS Toolchain, TLC

MCLower(name) == IF name = "P.md" THEN "p.md" ELSE name

Pay(version) == [name |-> "pay", version |-> version]

\* The text of version 10 comes before that of version 8.
MCTextOrder == <<Pay(10), Pay(8), Pay(9)>>

Needs(versions, required) ==
    [name |-> "pay", versions |-> versions, required |-> required, resources |-> {"case"}]

Role(needs, required) == [needs |-> needs, context |-> 8, required |-> required]

Manifest(identity, capabilities, delegation) ==
    [identity |-> identity, prompt |-> <<"p.md">>, skills |-> <<>>,
     capabilities |-> capabilities,
     models |-> ("primary" :> Role({"text"}, TRUE)) @@ ("critic" :> Role({"tools"}, FALSE)),
     features |-> [required |-> {"f1"}, optional |-> {"f2"}],
     capture |-> [allowed |-> TRUE, classifications |-> {"confidential"}],
     delegation |-> delegation]

Text(text) == [bytes |-> 1, linked |-> FALSE, manifest |-> Unset, text |-> text]
Yaml(manifest) == [bytes |-> 1, linked |-> FALSE, manifest |-> manifest, text |-> "yaml"]

Sub == [agent |-> <<"sub", AgentYaml>>, capabilities |-> {"pay"}]
Twin == [agent |-> <<"twin", AgentYaml>>, capabilities |-> {}]

\* Any version; and beside it the oldest one, which a lock of versions 8 and 9
\* offers to both requirements, and a lock of versions 10 and 8 to one.
AnyVersion == Needs({8, 9, 10}, TRUE)
Wide == <<AnyVersion>>
Overlapping == <<AnyVersion, Needs({8}, FALSE), AnyVersion>>

Lead(capabilities, delegation) == Yaml(Manifest("lead", capabilities, delegation))
Helper == Yaml(Manifest("helper", <<>>, <<>>))

MCInitialDisk ==
    <<AgentYaml>> :> Lead(Wide, <<Sub>>) @@ <<"p.md">> :> Text("lead") @@
    <<"sub", AgentYaml>> :> Helper @@ <<"sub", "p.md">> :> Text("sub") @@
    <<"twin", AgentYaml>> :> Helper @@ <<"twin", "p.md">> :> Text("twin")

Save(path, file) == [path |-> path, file |-> file]

MCEdits ==
    {Save(<<"p.md">>, Text("other")), Save(<<"p.md">>, Text("lead")),
     Save(<<"sub", "p.md">>, [Text("sub") EXCEPT !.linked = TRUE]),
     Save(<<AgentYaml>>, Lead(Overlapping, <<Sub>>)),
     Save(<<AgentYaml>>, Lead(Wide, <<Sub, Twin>>))}

Catalog(revision, versions) ==
    [name |-> "catalog", revision |-> revision,
     descriptors |-> [i \in {Pay(v) : v \in versions} |-> <<i, revision>>]]

MCCatalogs == {Catalog(1, {8, 9}), Catalog(2, {8, 9, 10})}

MCDirectories == {Root, <<"sub">>}

MCSymmetry == Permutations(Jobs)

MCLimits == [yaml |-> 1, text |-> 1, total |-> 6, depth |-> 1]

MCBinding ==
    [target |-> "t", components |-> "audit-sink" :> "sink",
     models |-> "primary" :> "small",
     capture |-> [enabled |-> FALSE, classifications |-> {}, policies |-> Empty]]
MCTarget == [name |-> "t", features |-> {"f1"}]
MCComponents ==
    "sink" :> [kind |-> "audit-sink"] @@
    "small" :> [kind |-> "model", offers |-> {"text"}, context |-> 8]
=============================================================================
