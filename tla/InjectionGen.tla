---------------------------- MODULE InjectionGen ----------------------------
(***************************************************************************)
(* injection-gen, the generator of the injectors under pkg/client: for the *)
(* API packages it is given it makes the list of packages to write         *)
(* (generators/packages.go), and gengo executes their generators one after *)
(* the other.  A run may fail after any package; it is then repeated over  *)
(* what is already on disk.                                                *)
(*                                                                         *)
(* A package path is a sequence of names below the output package.  A type *)
(* is its input directory and its name, which is in lower case.  Of a      *)
(* generated body the model keeps which injection interface it registers   *)
(* with, under which kind, for which type, and the packages it imports     *)
(* from the output tree and from elsewhere in the repository.              *)
(***************************************************************************)
EXTENDS Naturals, Sequences, FiniteSets

CONSTANTS
    InputDirs,      \* sequence of API packages: group, version, and their types in name order
    TagSets,        \* the tags a type may have
    MaxFaults       \* bound: runs that fail

ASSUME BoundsAssumption == MaxFaults \in Nat

\* The generator does not look whether two input directories share a group and a
\* version, and would write the files of both to one place.
ASSUME InputDirsAssumption ==
    /\ InputDirs \in Seq([group : STRING, version : STRING, types : Seq(STRING)])
    /\ \A d, e \in DOMAIN InputDirs :
          InputDirs[d].group = InputDirs[e].group /\ InputDirs[d].version = InputDirs[e].version => d = e

Elems(s) == {s[i] : i \in DOMAIN s}
Types == UNION {{d} \X Elems(InputDirs[d].types) : d \in DOMAIN InputDirs}

VARIABLES
    tags,           \* the comment tags of each type
    args,           \* the flags whose value is not empty
    pc,
    next,           \* input directory, or package, to come to
    item,           \* type of that directory to come to
    packageList,    \* the packages to write
    files,          \* the bodies in the file of each package path on disk
    faults

vars == <<tags, args, pc, next, item, packageList, files, faults>>

Flags == {"output-package", "versioned-clientset-package", "external-versions-informers-package"}

Init ==
    /\ tags \in [Types -> TagSets]
    /\ args \in SUBSET Flags
    /\ pc = "main" /\ next = 1 /\ item = 1
    /\ packageList = <<>>
    /\ files = [p \in {} |-> <<>>]
    /\ faults = 0

-----------------------------------------------------------------------------
\* Tags.
NeedsInformerInjection(t) == {"genclient", "list", "watch"} \subseteq tags[t] /\ "noVerbs" \notin tags[t]
NeedsDuckInjection(t) == "genduck" \in tags[t]

\* Package paths.
ClientPath == <<"client">>
FactoryPath == <<"informers", "factory">>
InformerPath(t) == <<"informers", InputDirs[t[1]].group, InputDirs[t[1]].version, t[2]>>
DuckPath(t) == <<"ducks", InputDirs[t[1]].group, InputDirs[t[1]].version, t[2]>>
Fake(p) == Append(p, "fake")

\* What a generator writes for one type.
Body(interface, kind, t, imports, others) ==
    [interface |-> interface, kind |-> kind, type |-> t, imports |-> imports, others |-> others]

\* The type of a body that is written for all of them.
AnyType == <<>>

\* The generators, each with the filter of its package.  A generator "once" writes
\* for the first type its package lets through, the others for their own type.
ClientGenerator == [path |-> ClientPath, filter |-> "informer", once |-> TRUE,
    body |-> Body("Default", "client", AnyType, {}, {"injection", "logging"})]
FakeClientGenerator == [path |-> Fake(ClientPath), filter |-> "informer", once |-> TRUE,
    body |-> Body("Fake", "client", AnyType, {ClientPath}, {"injection", "logging"})]
FactoryGenerator == [path |-> FactoryPath, filter |-> "informer", once |-> TRUE,
    body |-> Body("Default", "factory", AnyType, {ClientPath}, {"injection", "controller", "logging"})]
FakeFactoryGenerator == [path |-> Fake(FactoryPath), filter |-> "informer", once |-> TRUE,
    body |-> Body("Fake", "factory", AnyType, {FactoryPath, Fake(ClientPath)}, {"injection", "controller"})]
InjectionGenerator(t) == [path |-> InformerPath(t), filter |-> "informer", once |-> FALSE,
    body |-> Body("Default", "informer", t, {FactoryPath}, {"injection", "controller", "logging"})]
FakeInformerGenerator(t) == [path |-> Fake(InformerPath(t)), filter |-> "informer", once |-> FALSE,
    body |-> Body("Fake", "informer", t, {InformerPath(t), Fake(FactoryPath)}, {"injection", "controller"})]
DuckGenerator(t) == [path |-> DuckPath(t), filter |-> "duck", once |-> FALSE,
    body |-> Body("Default", "duck", t, {},
                  {"injection", "controller", "logging", "injection/clients/dynamicclient", "apis/duck"})]
FakeDuckGenerator(t) == [path |-> Fake(DuckPath(t)), filter |-> "duck", once |-> FALSE,
    body |-> Body("Fake", "duck", t, {DuckPath(t)}, {"injection"})]

-----------------------------------------------------------------------------
\* Mutant: the fake of the client is forgotten.
VersionClientsPackagesImpl == <<ClientGenerator>>

VersionClientsPackages == <<ClientGenerator, FakeClientGenerator>>
VersionFactoryPackages == <<FactoryGenerator, FakeFactoryGenerator>>

\* Mutant: the closures share the loop variable, which ends as the last type.
VersionInformerPackagesLast(t) ==
    LET types == InputDirs[t[1]].types
        last == <<t[1], types[Len(types)]>>
    IN <<[InjectionGenerator(t) EXCEPT !.body = InjectionGenerator(last).body],
         [FakeInformerGenerator(t) EXCEPT !.body = FakeInformerGenerator(last).body]>>

\* One package and its fake, for one type.
VersionInformerPackages(t) == <<InjectionGenerator(t), FakeInformerGenerator(t)>>
VersionDuckPackages(t) == <<DuckGenerator(t), FakeDuckGenerator(t)>>

\* main and Validate: without one of the flags nothing is written.
Validate ==
    /\ pc = "main" /\ args = Flags
    /\ pc' = "packages" /\ next' = 1 /\ packageList' = <<>>
    /\ UNCHANGED <<tags, args, item, files, faults>>

ValidateError ==
    /\ pc = "main" /\ args # Flags
    /\ pc' = "fatal"
    /\ UNCHANGED <<tags, args, next, item, packageList, files, faults>>

\* Packages, for one input directory: the client and the factory ...
Packages ==
    /\ pc = "packages" /\ next <= Len(InputDirs)
    /\ packageList' = packageList \o VersionClientsPackages \o VersionFactoryPackages
    /\ pc' = "informers" /\ item' = 1
    /\ UNCHANGED <<tags, args, next, files, faults>>

\* The next type of the input directory, in the order of the names.
HasItem == item <= Len(InputDirs[next].types)
Item == <<next, InputDirs[next].types[item]>>

\* ... then an informer for each type with a client ...
InformerPackages ==
    /\ pc = "informers" /\ HasItem
    /\ packageList' = IF NeedsInformerInjection(Item)
                      THEN packageList \o VersionInformerPackages(Item) ELSE packageList
    /\ item' = item + 1
    /\ UNCHANGED <<tags, args, pc, next, files, faults>>

InformerPackagesDone ==
    /\ pc = "informers" /\ ~HasItem
    /\ pc' = "ducks" /\ item' = 1
    /\ UNCHANGED <<tags, args, next, packageList, files, faults>>

\* ... then a duck for each type that has the tag.
DuckPackages ==
    /\ pc = "ducks" /\ HasItem
    /\ packageList' = IF NeedsDuckInjection(Item)
                      THEN packageList \o VersionDuckPackages(Item) ELSE packageList
    /\ item' = item + 1
    /\ UNCHANGED <<tags, args, pc, next, files, faults>>

DuckPackagesDone ==
    /\ pc = "ducks" /\ ~HasItem
    /\ pc' = "packages" /\ next' = next + 1
    /\ UNCHANGED <<tags, args, item, packageList, files, faults>>

PackagesDone ==
    /\ pc = "packages" /\ next > Len(InputDirs)
    /\ pc' = "execute" /\ next' = 1
    /\ UNCHANGED <<tags, args, item, packageList, files, faults>>

\* Types the FilterFunc of a package lets through; all input directories are in the context.
Passed(g) ==
    {t \in Types : IF g.filter = "informer" THEN NeedsInformerInjection(t) ELSE NeedsDuckInjection(t)}

\* Mutant: the single client is generated for every type.
FilterAlways(g) == IF g.once THEN Cardinality(Passed(g)) ELSE Cardinality(Passed(g) \cap {g.body.type})

\* How many types Filter lets through: "once" generators say yes once.
Filter(g) ==
    IF g.once THEN (IF Passed(g) = {} THEN 0 ELSE 1) ELSE Cardinality(Passed(g) \cap {g.body.type})

\* gengo executes the next package: the file is written anew with a body per type.
ExecutePackage ==
    /\ pc = "execute" /\ next <= Len(packageList)
    /\ LET g == packageList[next] IN
        files' = [p \in DOMAIN files \cup {g.path} |->
                    IF p = g.path THEN [i \in 1 .. Filter(g) |-> g.body] ELSE files[p]]
    /\ next' = next + 1
    /\ UNCHANGED <<tags, args, pc, item, packageList, faults>>

ExecuteDone ==
    /\ pc = "execute" /\ next > Len(packageList)
    /\ pc' = "done"
    /\ UNCHANGED <<tags, args, next, item, packageList, files, faults>>

\* The run fails at some package, and is repeated.
ExecuteError ==
    /\ pc = "execute" /\ faults < MaxFaults
    /\ faults' = faults + 1
    /\ pc' = "main"
    /\ UNCHANGED <<tags, args, next, item, packageList, files>>

Next ==
    \/ Validate \/ ValidateError
    \/ Packages \/ InformerPackages \/ InformerPackagesDone \/ DuckPackages \/ DuckPackagesDone \/ PackagesDone
    \/ ExecutePackage \/ ExecuteDone \/ ExecuteError

Spec == Init /\ [][Next]_vars

-----------------------------------------------------------------------------
Bodies == UNION {Elems(files[p]) : p \in DOMAIN files}

\* "We generate a single client, so return true once": however many types need
\* an informer, over however many input directories and repeated runs, no
\* generated file holds its code twice.
SingleBody == \A p \in DOMAIN files : Len(files[p]) <= 1

\* The generated tree compiles: everything that it imports from itself was
\* generated, with its code.
ImportsGenerated ==
    pc = "done" => \A b \in Bodies : \A p \in b.imports : p \in DOMAIN files /\ files[p] # <<>>

\* Every type with a client that lists and watches, and no other, has an informer
\* registered with Default and one with Fake.
InformersGenerated ==
    pc = "done" =>
        \A t \in Types : \A p \in {InformerPath(t), Fake(InformerPath(t))} :
            IF NeedsInformerInjection(t)
            THEN p \in DOMAIN files /\ \E b \in Elems(files[p]) : b.type = t /\ b.kind = "informer"
            ELSE p \notin DOMAIN files
=============================================================================
