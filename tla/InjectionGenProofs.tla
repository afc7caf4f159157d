------------------------- MODULE InjectionGenProofs -------------------------
(***************************************************************************)
(* Proofs about InjectionGen, for any input directories, types, tags and   *)
(* any number of failed runs.                                              *)
(***************************************************************************)
EXTENDS InjectionGen, SequenceTheorems, FiniteSetTheorems, TLAPS

\* The generators there can be, given the tags: those that write once, and those
\* of one type.
Singles == {ClientGenerator, FakeClientGenerator, FactoryGenerator, FakeFactoryGenerator}
InformersOf(t) == {InjectionGenerator(t), FakeInformerGenerator(t)}
DucksOf(t) == {DuckGenerator(t), FakeDuckGenerator(t)}

InformerTypes == {t \in Types : NeedsInformerInjection(t)}
DuckTypes == {t \in Types : NeedsDuckInjection(t)}

Generators ==
    Singles \cup (UNION {InformersOf(t) : t \in InformerTypes}) \cup (UNION {DucksOf(t) : t \in DuckTypes})
-----------------------------------------------------------------------------
(* Paths *)

LEMMA TypeFacts ==
    ASSUME NEW t \in Types
    PROVE  t[1] \in DOMAIN InputDirs /\ t = <<t[1], t[2]>>
  <1>1. PICK d \in DOMAIN InputDirs : t \in {d} \X Elems(InputDirs[d].types)
    BY Zenon DEF Types
  <1> QED
    BY <1>1

\* The length and the first name of a path say what kind of package it is.
LEMMA SinglePaths ==
    /\ Len(ClientPath) = 1 /\ ClientPath[1] = "client"
    /\ Len(Fake(ClientPath)) = 2 /\ Fake(ClientPath)[1] = "client"
    /\ Len(FactoryPath) = 2 /\ FactoryPath[1] = "informers"
    /\ Len(Fake(FactoryPath)) = 3 /\ Fake(FactoryPath)[1] = "informers"
  BY DEF ClientPath, FactoryPath, Fake

LEMMA TypePaths ==
    ASSUME NEW t \in Types
    PROVE  /\ Len(InformerPath(t)) = 4 /\ InformerPath(t)[1] = "informers"
           /\ Len(Fake(InformerPath(t))) = 5 /\ Fake(InformerPath(t))[1] = "informers"
           /\ Len(DuckPath(t)) = 4 /\ DuckPath(t)[1] = "ducks"
           /\ Len(Fake(DuckPath(t))) = 5 /\ Fake(DuckPath(t))[1] = "ducks"
  <1>1. Len(InformerPath(t)) = 4 /\ InformerPath(t)[1] = "informers"
    BY DEF InformerPath
  <1>2. Len(Fake(InformerPath(t))) = 5 /\ Fake(InformerPath(t))[1] = "informers"
    BY DEF InformerPath, Fake
  <1>3. Len(DuckPath(t)) = 4 /\ DuckPath(t)[1] = "ducks"
    BY DEF DuckPath
  <1>4. Len(Fake(DuckPath(t))) = 5 /\ Fake(DuckPath(t))[1] = "ducks"
    BY DEF DuckPath, Fake
  <1> QED
    BY <1>1, <1>2, <1>3, <1>4

\* The group, the version and the name say which type it is.
LEMMA PathType ==
    ASSUME NEW t \in Types
    PROVE  \A p \in {InformerPath(t), DuckPath(t), Fake(InformerPath(t)), Fake(DuckPath(t))} :
              p[2] = InputDirs[t[1]].group /\ p[3] = InputDirs[t[1]].version /\ p[4] = t[2]
  BY DEF InformerPath, DuckPath, Fake

LEMMA SamePathSameType ==
    ASSUME NEW t \in Types, NEW u \in Types,
           \/ InformerPath(t) = InformerPath(u) \/ Fake(InformerPath(t)) = Fake(InformerPath(u))
           \/ DuckPath(t) = DuckPath(u) \/ Fake(DuckPath(t)) = Fake(DuckPath(u))
    PROVE  t = u
  <1>1. /\ InputDirs[t[1]].group = InputDirs[u[1]].group
        /\ InputDirs[t[1]].version = InputDirs[u[1]].version
        /\ t[2] = u[2]
    <2>1. PICK p : /\ p \in {InformerPath(t), DuckPath(t), Fake(InformerPath(t)), Fake(DuckPath(t))}
                   /\ p \in {InformerPath(u), DuckPath(u), Fake(InformerPath(u)), Fake(DuckPath(u))}
      BY Zenon
    <2>2. p[2] = InputDirs[t[1]].group /\ p[3] = InputDirs[t[1]].version /\ p[4] = t[2]
      BY <2>1, PathType, Zenon
    <2>3. p[2] = InputDirs[u[1]].group /\ p[3] = InputDirs[u[1]].version /\ p[4] = u[2]
      BY <2>1, PathType, Zenon
    <2> QED
      BY <2>2, <2>3, Zenon
  <1>2. t[1] = u[1]
    BY <1>1, TypeFacts, InputDirsAssumption
  <1> QED
    BY <1>1, <1>2, TypeFacts

LEMMA GeneratorCases ==
    ASSUME NEW g \in Generators
    PROVE  \/ g \in Singles
           \/ \E t \in InformerTypes : g \in InformersOf(t)
           \/ \E t \in DuckTypes : g \in DucksOf(t)
  BY Zenon DEF Generators

LEMMA SingleGenerators ==
    /\ ClientGenerator.path = ClientPath /\ FakeClientGenerator.path = Fake(ClientPath)
    /\ FactoryGenerator.path = FactoryPath /\ FakeFactoryGenerator.path = Fake(FactoryPath)
  BY DEF ClientGenerator, FakeClientGenerator, FactoryGenerator, FakeFactoryGenerator

LEMMA TypeGenerators ==
    ASSUME NEW t \in Types
    PROVE  /\ InjectionGenerator(t).path = InformerPath(t)
           /\ FakeInformerGenerator(t).path = Fake(InformerPath(t))
           /\ DuckGenerator(t).path = DuckPath(t)
           /\ FakeDuckGenerator(t).path = Fake(DuckPath(t))
  BY Zenon DEF InjectionGenerator, FakeInformerGenerator, DuckGenerator, FakeDuckGenerator

\* The kind of a generator from its path.
LEMMA SingleSigns ==
    ASSUME NEW g \in Singles
    PROVE  Len(g.path) \in {1, 2, 3} /\ g.path[1] \in {"client", "informers"}
  <1>1. g.path \in {ClientPath, Fake(ClientPath), FactoryPath, Fake(FactoryPath)}
    BY SingleGenerators, Zenon DEF Singles
  <1> QED
    BY <1>1, SinglePaths, Zenon

LEMMA InformerSigns ==
    ASSUME NEW t \in Types, NEW g \in InformersOf(t)
    PROVE  /\ g.path[1] = "informers"
           /\ \/ g = InjectionGenerator(t) /\ Len(g.path) = 4
              \/ g = FakeInformerGenerator(t) /\ Len(g.path) = 5
  <1>1. CASE g = InjectionGenerator(t)
    <2>1. g.path = InformerPath(t)
      BY <1>1, TypeGenerators, Zenon
    <2> QED
      BY <1>1, <2>1, TypePaths, Zenon
  <1>2. CASE g = FakeInformerGenerator(t)
    <2>1. g.path = Fake(InformerPath(t))
      BY <1>2, TypeGenerators, Zenon
    <2> QED
      BY <1>2, <2>1, TypePaths, Zenon
  <1> QED
    BY <1>1, <1>2, Zenon DEF InformersOf

LEMMA DuckSigns ==
    ASSUME NEW t \in Types, NEW g \in DucksOf(t)
    PROVE  /\ g.path[1] = "ducks"
           /\ \/ g = DuckGenerator(t) /\ Len(g.path) = 4
              \/ g = FakeDuckGenerator(t) /\ Len(g.path) = 5
  <1>1. CASE g = DuckGenerator(t)
    <2>1. g.path = DuckPath(t)
      BY <1>1, TypeGenerators, Zenon
    <2> QED
      BY <1>1, <2>1, TypePaths, Zenon
  <1>2. CASE g = FakeDuckGenerator(t)
    <2>1. g.path = Fake(DuckPath(t))
      BY <1>2, TypeGenerators, Zenon
    <2> QED
      BY <1>2, <2>1, TypePaths, Zenon
  <1> QED
    BY <1>1, <1>2, Zenon DEF DucksOf

\* No two generators write to the same path.
LEMMA PathDetermines ==
    ASSUME NEW g \in Generators, NEW h \in Generators, g.path = h.path
    PROVE  g = h
  <1>1. CASE g \in Singles
    <2>1. h \in Singles
      <3>1. Len(h.path) \in {1, 2, 3}
        BY <1>1, SingleSigns
      <3>2. Len(h.path) # 4 /\ Len(h.path) # 5
        BY <3>1
      <3> QED
        BY <3>2, GeneratorCases, InformerSigns, DuckSigns, Zenon DEF InformerTypes, DuckTypes
    <2> QED
      BY <1>1, <2>1, SinglePaths, SingleGenerators DEF Singles
  <1>2. CASE \E t \in InformerTypes : g \in InformersOf(t)
    <2>1. PICK t \in Types : g \in InformersOf(t)
      BY <1>2 DEF InformerTypes
    <2>2. PICK u \in Types : h \in InformersOf(u)
      <3>1. Len(h.path) = 4 \/ Len(h.path) = 5
        BY <2>1, InformerSigns, Zenon
      <3>2. ~(Len(h.path) \in {1, 2, 3})
        BY <3>1
      <3>3. h.path[1] # "ducks"
        BY <2>1, InformerSigns, Zenon
      <3> QED
        BY <3>2, <3>3, GeneratorCases, SingleSigns, DuckSigns, Zenon DEF InformerTypes, DuckTypes
    <2>3. \/ g = InjectionGenerator(t) /\ h = InjectionGenerator(u)
          \/ g = FakeInformerGenerator(t) /\ h = FakeInformerGenerator(u)
      <3>1. Len(g.path) # 4 \/ Len(g.path) # 5
        OBVIOUS
      <3> QED
        BY <2>1, <2>2, <3>1, InformerSigns, Zenon
    <2> QED
      BY <2>3, SamePathSameType, TypeGenerators
  <1>3. CASE \E t \in DuckTypes : g \in DucksOf(t)
    <2>1. PICK t \in Types : g \in DucksOf(t)
      BY <1>3 DEF DuckTypes
    <2>2. PICK u \in Types : h \in DucksOf(u)
      <3>1. h.path[1] = "ducks"
        BY <2>1, DuckSigns, Zenon
      <3> QED
        BY <3>1, GeneratorCases, SingleSigns, InformerSigns, Zenon DEF InformerTypes, DuckTypes
    <2>3. \/ g = DuckGenerator(t) /\ h = DuckGenerator(u)
          \/ g = FakeDuckGenerator(t) /\ h = FakeDuckGenerator(u)
      <3>1. Len(g.path) # 4 \/ Len(g.path) # 5
        OBVIOUS
      <3> QED
        BY <2>1, <2>2, <3>1, DuckSigns, Zenon
    <2> QED
      BY <2>3, SamePathSameType, TypeGenerators
  <1> QED
    BY <1>1, <1>2, <1>3, GeneratorCases
-----------------------------------------------------------------------------
(* What the generators write *)

Output(g) == [i \in 1 .. Filter(g) |-> g.body]

LEMMA SingletonCardinality ==
    ASSUME NEW S, NEW x \in S
    PROVE  Cardinality(S \cap {x}) = 1
  <1>1. S \cap {x} = {x}
    OBVIOUS
  <1> QED
    BY <1>1, FS_Singleton

\* The fields of the generators.
LEMMA SingleFields ==
    ASSUME NEW g \in Singles
    PROVE  /\ g.once = TRUE /\ g.filter = "informer"
           /\ g.body.imports \subseteq {ClientPath, Fake(ClientPath), FactoryPath}
  <1>1. CASE g = ClientGenerator
    BY <1>1 DEF ClientGenerator, Body
  <1>2. CASE g = FakeClientGenerator
    BY <1>2 DEF FakeClientGenerator, Body
  <1>3. CASE g = FactoryGenerator
    BY <1>3 DEF FactoryGenerator, Body
  <1>4. CASE g = FakeFactoryGenerator
    BY <1>4 DEF FakeFactoryGenerator, Body
  <1> QED
    BY <1>1, <1>2, <1>3, <1>4, Zenon DEF Singles

LEMMA InformerFields ==
    ASSUME NEW t \in Types, NEW g \in InformersOf(t)
    PROVE  /\ g.once = FALSE /\ g.filter = "informer"
           /\ g.body.type = t /\ g.body.kind = "informer"
           /\ g.body.imports \subseteq {FactoryPath, Fake(FactoryPath), InformerPath(t)}
  <1>1. CASE g = InjectionGenerator(t)
    BY <1>1 DEF InjectionGenerator, Body
  <1>2. CASE g = FakeInformerGenerator(t)
    BY <1>2 DEF FakeInformerGenerator, Body
  <1> QED
    BY <1>1, <1>2, Zenon DEF InformersOf

LEMMA DuckFields ==
    ASSUME NEW t \in Types, NEW g \in DucksOf(t)
    PROVE  /\ g.once = FALSE /\ g.filter = "duck" /\ g.body.type = t
           /\ g.body.imports \subseteq {DuckPath(t)}
  <1>1. CASE g = DuckGenerator(t)
    BY <1>1 DEF DuckGenerator, Body
  <1>2. CASE g = FakeDuckGenerator(t)
    BY <1>2 DEF FakeDuckGenerator, Body
  <1> QED
    BY <1>1, <1>2, Zenon DEF DucksOf

LEMMA SinglesFilter ==
    ASSUME NEW g \in Singles
    PROVE  Filter(g) = IF InformerTypes = {} THEN 0 ELSE 1
  <1>1. g.once = TRUE /\ g.filter = "informer"
    BY SingleFields
  <1>2. Passed(g) = InformerTypes
    BY <1>1 DEF Passed, InformerTypes
  <1> QED
    BY <1>1, <1>2 DEF Filter

LEMMA InformersFilter ==
    ASSUME NEW t \in InformerTypes, NEW g \in InformersOf(t)
    PROVE  Filter(g) = 1 /\ g.body.type = t /\ g.body.kind = "informer"
  <1>1. /\ g.once = FALSE /\ g.filter = "informer"
        /\ g.body.type = t /\ g.body.kind = "informer"
    BY InformerFields DEF InformerTypes
  <1>2. Passed(g) = InformerTypes
    BY <1>1 DEF Passed, InformerTypes
  <1>3. Filter(g) = Cardinality(InformerTypes \cap {t})
    BY <1>1, <1>2, Zenon DEF Filter
  <1> QED
    BY <1>1, <1>3, SingletonCardinality

LEMMA DucksFilter ==
    ASSUME NEW t \in DuckTypes, NEW g \in DucksOf(t)
    PROVE  Filter(g) = 1
  <1>1. g.once = FALSE /\ g.filter = "duck" /\ g.body.type = t
    BY DuckFields DEF DuckTypes
  <1>2. Passed(g) = DuckTypes
    BY <1>1 DEF Passed, DuckTypes
  <1>3. Filter(g) = Cardinality(DuckTypes \cap {t})
    BY <1>1, <1>2, Zenon DEF Filter
  <1> QED
    BY <1>3, SingletonCardinality

LEMMA FilterBound ==
    ASSUME NEW g \in Generators
    PROVE  Filter(g) = 0 \/ Filter(g) = 1
  BY GeneratorCases, SinglesFilter, InformersFilter, DucksFilter, Zenon

LEMMA OutputFacts ==
    ASSUME NEW g \in Generators
    PROVE  /\ Len(Output(g)) = Filter(g)
           /\ Elems(Output(g)) = IF Filter(g) = 0 THEN {} ELSE {g.body}
           /\ Filter(g) = 1 => Output(g) # <<>>
  <1>1. CASE Filter(g) = 0
    BY <1>1 DEF Output, Elems
  <1>2. CASE Filter(g) = 1
    BY <1>2 DEF Output, Elems
  <1> QED
    BY <1>1, <1>2, FilterBound
-----------------------------------------------------------------------------
(* The invariant *)

InformersListed(t) == t \in InformerTypes => InformersOf(t) \subseteq Elems(packageList)
DucksListed(t) == t \in DuckTypes => DucksOf(t) \subseteq Elems(packageList)

\* The types that the loop over the current input directory has come past.
ItemSeen(t) ==
    t[1] = next /\ \E i \in DOMAIN InputDirs[next].types : i < item /\ t[2] = InputDirs[next].types[i]

\* The types whose packages are to be in the list by now.
InformersDue(t) ==
    \/ pc \in {"execute", "done"}
    \/ pc \in {"packages", "informers", "ducks"} /\ t[1] < next
    \/ pc = "informers" /\ ItemSeen(t)
    \/ pc = "ducks" /\ t[1] = next
DucksDue(t) ==
    \/ pc \in {"execute", "done"}
    \/ pc \in {"packages", "informers", "ducks"} /\ t[1] < next
    \/ pc = "ducks" /\ ItemSeen(t)

ListInv ==
    /\ pc \in {"main", "fatal", "packages", "informers", "ducks", "execute", "done"}
    /\ packageList \in Seq(Generators)
    /\ next \in Nat \ {0} /\ item \in Nat \ {0}
    /\ pc \in {"informers", "ducks"} => next \in DOMAIN InputDirs /\ Singles \subseteq Elems(packageList)
    /\ \A t \in Types :
          /\ InformersDue(t) => InformersListed(t) /\ Singles \subseteq Elems(packageList)
          /\ DucksDue(t) => DucksListed(t)

\* A file on disk is what its generator writes, whichever run wrote it.
FilesInv == \A p \in DOMAIN files : \E g \in Generators : p = g.path /\ files[p] = Output(g)

WrittenInv ==
    pc \in {"execute", "done"} =>
        \A k \in DOMAIN packageList : k < next \/ pc = "done" => packageList[k].path \in DOMAIN files

GenInv == ListInv /\ FilesInv /\ WrittenInv

LEMMA Frame ==
    ASSUME tags' = tags
    PROVE  /\ InformerTypes' = InformerTypes /\ DuckTypes' = DuckTypes
           /\ Generators' = Generators
  BY DEF InformerTypes, DuckTypes, NeedsInformerInjection, NeedsDuckInjection, Generators

LEMMA OutputFrame ==
    ASSUME tags' = tags, NEW g
    PROVE  Output(g)' = Output(g)
  BY DEF Output, Filter, Passed, NeedsInformerInjection, NeedsDuckInjection

LEMMA GeneratorsIntro ==
    /\ Singles \subseteq Generators
    /\ \A t \in InformerTypes : InformersOf(t) \subseteq Generators
    /\ \A t \in DuckTypes : DucksOf(t) \subseteq Generators
  BY Zenon DEF Generators

\* Two packages more.
LEMMA AppendPair ==
    ASSUME NEW S, NEW s \in Seq(S), NEW a \in S, NEW b \in S
    PROVE  s \o <<a, b>> \in Seq(S) /\ Elems(s \o <<a, b>>) = Elems(s) \cup {a, b}
  <1> DEFINE r == s \o <<a, b>>
  <1>1. r \in Seq(S) /\ Len(r) = Len(s) + 2
    OBVIOUS
  <1>2. \A i \in 1 .. Len(r) : r[i] = IF i <= Len(s) THEN s[i] ELSE <<a, b>>[i - Len(s)]
    OBVIOUS
  <1>3. r[Len(s) + 1] = a /\ r[Len(s) + 2] = b
    OBVIOUS
  <1>4. \A x \in Elems(r) : x \in Elems(s) \/ x = a \/ x = b
    <2>1. SUFFICES ASSUME NEW i \in 1 .. Len(r)
                   PROVE  r[i] \in Elems(s) \/ r[i] = a \/ r[i] = b
      BY <1>1 DEF Elems
    <2>2. CASE i <= Len(s)
      BY <2>2, <1>2 DEF Elems
    <2>3. CASE i = Len(s) + 1 \/ i = Len(s) + 2
      BY <2>3, <1>3
    <2> QED
      BY <2>2, <2>3, <1>1
  <1>5. Elems(s) \subseteq Elems(r)
    BY <1>1, <1>2 DEF Elems
  <1>6. a \in Elems(r) /\ b \in Elems(r)
    BY <1>1, <1>3 DEF Elems
  <1> QED
    BY <1>1, <1>4, <1>5, <1>6

\* The list only grows while it is made, so what is listed stays listed.
LEMMA Monotone ==
    ASSUME tags' = tags, Elems(packageList) \subseteq Elems(packageList'), NEW t
    PROVE  /\ InformersListed(t) => InformersListed(t)'
           /\ DucksListed(t) => DucksListed(t)'
  BY Frame DEF InformersListed, DucksListed

LEMMA DirTypes ==
    ASSUME NEW d \in DOMAIN InputDirs
    PROVE  InputDirs[d].types \in Seq(STRING)
  <1> DEFINE R == [group : STRING, version : STRING, types : Seq(STRING)]
  <1>1. InputDirs \in Seq(R)
    BY InputDirsAssumption
  <1> HIDE DEF R
  <1>2. InputDirs[d] \in R
    BY <1>1
  <1> QED
    BY <1>2 DEF R

\* At the end of the loop all types of the directory have been seen, and each
\* turn of it adds the current one.
LEMMA AllSeen ==
    ASSUME ListInv, ~HasItem, next \in DOMAIN InputDirs, NEW t \in Types, t[1] = next
    PROVE  ItemSeen(t)
  <1>1. t[2] \in Elems(InputDirs[next].types)
    <2>1. PICK d \in DOMAIN InputDirs : t \in {d} \X Elems(InputDirs[d].types)
      BY Zenon DEF Types
    <2> QED
      BY <2>1
  <1>2. PICK i \in DOMAIN InputDirs[next].types : t[2] = InputDirs[next].types[i]
    BY <1>1 DEF Elems
  <1>3. InputDirs[next].types \in Seq(STRING)
    BY DirTypes
  <1>4. i < item
    BY <1>2, <1>3 DEF HasItem, ListInv
  <1> QED
    BY <1>2, <1>4 DEF ItemSeen

LEMMA SeenStep ==
    ASSUME ListInv, HasItem, next \in DOMAIN InputDirs, item' = item + 1, next' = next,
           NEW t \in Types, ItemSeen(t)'
    PROVE  ItemSeen(t) \/ t = Item
  <1>1. PICK i \in DOMAIN InputDirs[next].types : i < item + 1 /\ t[2] = InputDirs[next].types[i]
    BY DEF ItemSeen
  <1>2. InputDirs[next].types \in Seq(STRING)
    BY DirTypes
  <1>3. i < item \/ i = item
    BY <1>1, <1>2 DEF ListInv
  <1>4. t[1] = next
    BY DEF ItemSeen
  <1> QED
    BY <1>1, <1>3, <1>4, TypeFacts DEF ItemSeen, Item

LEMMA ItemIsType ==
    ASSUME ListInv, HasItem, next \in DOMAIN InputDirs
    PROVE  Item \in Types
  <1>1. InputDirs[next].types \in Seq(STRING)
    BY DirTypes
  <1>2. InputDirs[next].types[item] \in Elems(InputDirs[next].types)
    BY <1>1 DEF HasItem, ListInv, Elems
  <1>3. Item \in {next} \X Elems(InputDirs[next].types)
    BY <1>2 DEF Item
  <1> QED
    BY <1>3, Zenon DEF Types

LEMMA DirIndex ==
    ASSUME NEW t \in Types
    PROVE  t[1] \in 1 .. Len(InputDirs)
  BY TypeFacts, InputDirsAssumption

\* While the list is made: what each step leaves to show.
LEMMA ListGrows ==
    ASSUME ListInv, tags' = tags,
           packageList' \in Seq(Generators), Elems(packageList) \subseteq Elems(packageList'),
           pc' \in {"packages", "informers", "ducks", "execute", "done"},
           next' \in Nat \ {0}, item' \in Nat \ {0},
           pc' \in {"informers", "ducks"} => next' \in DOMAIN InputDirs /\ Singles \subseteq Elems(packageList'),
           \A t \in Types :
              /\ InformersDue(t)' => \/ InformersDue(t)
                                     \/ InformersListed(t)' /\ Singles \subseteq Elems(packageList')
              /\ DucksDue(t)' => DucksDue(t) \/ DucksListed(t)'
    PROVE  ListInv'
  <1>1. ASSUME NEW t \in Types
        PROVE  /\ InformersDue(t)' => InformersListed(t)' /\ Singles \subseteq Elems(packageList')
               /\ DucksDue(t)' => DucksListed(t)'
    <2>1. InformersDue(t) => InformersListed(t) /\ Singles \subseteq Elems(packageList)
      BY DEF ListInv
    <2>2. DucksDue(t) => DucksListed(t)
      BY DEF ListInv
    <2> QED
      BY <2>1, <2>2, Monotone, Zenon
  <1>2. Elems(packageList)' = Elems(packageList')
    BY DEF Elems
  <1>3. Singles' = Singles /\ Types' = Types
    BY DEF Singles, Types
  <1> QED
    BY <1>1, <1>2, <1>3, Frame DEF ListInv

LEMMA ValidateList ==
    ASSUME ListInv, Validate
    PROVE  ListInv'
  <1>1. packageList' \in Seq(Generators')
    BY DEF Validate
  <1>2. \A t \in Types : ~InformersDue(t)' /\ ~DucksDue(t)'
    BY DirIndex DEF Validate, InformersDue, DucksDue
  <1> QED
    BY <1>1, <1>2 DEF Validate, ListInv

LEMMA ErrorList ==
    ASSUME ListInv, ValidateError \/ ExecuteError
    PROVE  ListInv'
  <1>1. /\ tags' = tags /\ packageList' = packageList /\ next' = next /\ item' = item
        /\ pc' \in {"main", "fatal"}
    BY DEF ValidateError, ExecuteError
  <1>2. \A t \in Types : ~InformersDue(t)' /\ ~DucksDue(t)'
    BY <1>1 DEF InformersDue, DucksDue
  <1> QED
    BY <1>1, <1>2, Frame DEF ListInv

LEMMA PackagesList ==
    ASSUME ListInv, Packages
    PROVE  ListInv'
  <1>1. packageList \in Seq(Generators) /\ next \in Nat \ {0}
    BY DEF ListInv
  <1>2. /\ ClientGenerator \in Generators /\ FakeClientGenerator \in Generators
        /\ FactoryGenerator \in Generators /\ FakeFactoryGenerator \in Generators
    BY GeneratorsIntro, Zenon DEF Singles
  <1> DEFINE l == packageList \o <<ClientGenerator, FakeClientGenerator>>
  <1>3. l \in Seq(Generators) /\ Elems(l) = Elems(packageList) \cup {ClientGenerator, FakeClientGenerator}
    BY <1>1, <1>2, AppendPair
  <1>4. packageList' = l \o <<FactoryGenerator, FakeFactoryGenerator>>
    BY DEF Packages, VersionClientsPackages, VersionFactoryPackages
  <1> HIDE DEF l
  <1>5. /\ packageList' \in Seq(Generators)
        /\ Elems(packageList') = Elems(l) \cup {FactoryGenerator, FakeFactoryGenerator}
    BY <1>2, <1>3, <1>4, AppendPair
  <1>6. Elems(packageList) \subseteq Elems(packageList') /\ Singles \subseteq Elems(packageList')
    BY <1>3, <1>5 DEF Singles
  <1>7. next \in DOMAIN InputDirs
    BY <1>1, InputDirsAssumption DEF Packages
  <1>8. \A t \in Types : ~ItemSeen(t)'
    BY <1>7, DirTypes DEF ItemSeen, Packages
  <1>9. \A t \in Types : (InformersDue(t)' => InformersDue(t)) /\ (DucksDue(t)' => DucksDue(t))
    BY <1>8 DEF InformersDue, DucksDue, Packages
  <1> QED
    BY <1>1, <1>5, <1>6, <1>7, <1>9, ListGrows DEF Packages

LEMMA InformerPackagesList ==
    ASSUME ListInv, InformerPackages
    PROVE  ListInv'
  <1>1. /\ packageList \in Seq(Generators) /\ next \in Nat \ {0} /\ item \in Nat \ {0}
        /\ next \in DOMAIN InputDirs /\ Singles \subseteq Elems(packageList)
    BY DEF ListInv, InformerPackages
  <1>2. Item \in Types
    BY <1>1, ItemIsType DEF InformerPackages
  <1>3. /\ packageList' \in Seq(Generators) /\ Elems(packageList) \subseteq Elems(packageList')
        /\ Item \in InformerTypes => InformersOf(Item) \subseteq Elems(packageList')
    <2>1. CASE NeedsInformerInjection(Item)
      <3>1. InjectionGenerator(Item) \in Generators /\ FakeInformerGenerator(Item) \in Generators
        BY <1>2, <2>1, GeneratorsIntro DEF InformerTypes, InformersOf
      <3>2. packageList' = packageList \o <<InjectionGenerator(Item), FakeInformerGenerator(Item)>>
        BY <2>1 DEF InformerPackages, VersionInformerPackages
      <3>3. /\ packageList' \in Seq(Generators)
            /\ Elems(packageList') = Elems(packageList)
                                       \cup {InjectionGenerator(Item), FakeInformerGenerator(Item)}
        BY <1>1, <3>1, <3>2, AppendPair
      <3> QED
        BY <3>3 DEF InformersOf
    <2>2. CASE ~NeedsInformerInjection(Item)
      BY <2>2, <1>1 DEF InformerPackages, InformerTypes
    <2> QED
      BY <2>1, <2>2
  <1>4. ASSUME NEW t \in Types, InformersDue(t)'
        PROVE  InformersDue(t) \/ InformersListed(t)'
    <2>1. InformersDue(t) \/ (ItemSeen(t)' /\ ~ItemSeen(t))
      BY <1>4 DEF InformersDue, InformerPackages
    <2>2. ItemSeen(t)' => ItemSeen(t) \/ t = Item
      BY <1>1, SeenStep DEF InformerPackages
    <2>3. t = Item => InformersListed(t)'
      BY <1>3, Frame DEF InformersListed, InformerPackages, Elems
    <2> QED
      BY <2>1, <2>2, <2>3
  <1>5. \A t \in Types : DucksDue(t)' => DucksDue(t)
    BY DEF DucksDue, InformerPackages
  <1> QED
    BY <1>1, <1>3, <1>4, <1>5, ListGrows DEF InformerPackages

LEMMA DuckPackagesList ==
    ASSUME ListInv, DuckPackages
    PROVE  ListInv'
  <1>1. /\ packageList \in Seq(Generators) /\ next \in Nat \ {0} /\ item \in Nat \ {0}
        /\ next \in DOMAIN InputDirs /\ Singles \subseteq Elems(packageList)
    BY DEF ListInv, DuckPackages
  <1>2. Item \in Types
    BY <1>1, ItemIsType DEF DuckPackages
  <1>3. /\ packageList' \in Seq(Generators) /\ Elems(packageList) \subseteq Elems(packageList')
        /\ Item \in DuckTypes => DucksOf(Item) \subseteq Elems(packageList')
    <2>1. CASE NeedsDuckInjection(Item)
      <3>1. DuckGenerator(Item) \in Generators /\ FakeDuckGenerator(Item) \in Generators
        BY <1>2, <2>1, GeneratorsIntro DEF DuckTypes, DucksOf
      <3>2. packageList' = packageList \o <<DuckGenerator(Item), FakeDuckGenerator(Item)>>
        BY <2>1 DEF DuckPackages, VersionDuckPackages
      <3>3. /\ packageList' \in Seq(Generators)
            /\ Elems(packageList') = Elems(packageList)
                                       \cup {DuckGenerator(Item), FakeDuckGenerator(Item)}
        BY <1>1, <3>1, <3>2, AppendPair
      <3> QED
        BY <3>3 DEF DucksOf
    <2>2. CASE ~NeedsDuckInjection(Item)
      BY <2>2, <1>1 DEF DuckPackages, DuckTypes
    <2> QED
      BY <2>1, <2>2
  <1>4. ASSUME NEW t \in Types, DucksDue(t)'
        PROVE  DucksDue(t) \/ DucksListed(t)'
    <2>1. DucksDue(t) \/ (ItemSeen(t)' /\ ~ItemSeen(t))
      BY <1>4 DEF DucksDue, DuckPackages
    <2>2. ItemSeen(t)' => ItemSeen(t) \/ t = Item
      BY <1>1, SeenStep DEF DuckPackages
    <2>3. t = Item => DucksListed(t)'
      BY <1>3, Frame DEF DucksListed, DuckPackages, Elems
    <2> QED
      BY <2>1, <2>2, <2>3
  <1>5. \A t \in Types : InformersDue(t)' => InformersDue(t)
    BY DEF InformersDue, DuckPackages
  <1> QED
    BY <1>1, <1>3, <1>4, <1>5, ListGrows DEF DuckPackages

LEMMA PhaseList ==
    ASSUME ListInv, InformerPackagesDone \/ DuckPackagesDone \/ PackagesDone
    PROVE  ListInv'
  <1>1. packageList \in Seq(Generators) /\ next \in Nat \ {0} /\ item \in Nat \ {0}
    BY DEF ListInv
  <1>2. CASE InformerPackagesDone
    <2>1. next \in DOMAIN InputDirs /\ Singles \subseteq Elems(packageList)
      BY <1>2 DEF ListInv, InformerPackagesDone
    <2>2. \A t \in Types : t[1] = next => ItemSeen(t)
      BY <1>2, <2>1, AllSeen DEF InformerPackagesDone
    <2>3. \A t \in Types : ~ItemSeen(t)'
      BY <1>2, <2>1, DirTypes DEF ItemSeen, InformerPackagesDone
    <2>4. \A t \in Types : (InformersDue(t)' => InformersDue(t)) /\ (DucksDue(t)' => DucksDue(t))
      BY <1>2, <2>2, <2>3 DEF InformersDue, DucksDue, InformerPackagesDone
    <2> QED
      BY <1>1, <1>2, <2>1, <2>4, ListGrows DEF InformerPackagesDone
  <1>3. CASE DuckPackagesDone
    <2>1. next \in DOMAIN InputDirs
      BY <1>3 DEF ListInv, DuckPackagesDone
    <2>2. \A t \in Types : t[1] = next => ItemSeen(t)
      BY <1>3, <2>1, AllSeen DEF DuckPackagesDone
    <2>3. \A t \in Types : t[1] < next + 1 => t[1] < next \/ t[1] = next
      BY <1>1, DirIndex
    <2>4. \A t \in Types : (InformersDue(t)' => InformersDue(t)) /\ (DucksDue(t)' => DucksDue(t))
      BY <1>3, <2>2, <2>3 DEF InformersDue, DucksDue, DuckPackagesDone
    <2> QED
      BY <1>1, <1>3, <2>4, ListGrows DEF DuckPackagesDone
  <1>4. CASE PackagesDone
    <2>1. \A t \in Types : t[1] < next
      BY <1>1, <1>4, DirIndex, InputDirsAssumption DEF PackagesDone
    <2>2. \A t \in Types : (InformersDue(t)' => InformersDue(t)) /\ (DucksDue(t)' => DucksDue(t))
      BY <1>4, <2>1 DEF InformersDue, DucksDue, PackagesDone
    <2> QED
      BY <1>1, <1>4, <2>2, ListGrows DEF PackagesDone
  <1> QED
    BY <1>2, <1>3, <1>4

LEMMA ExecuteList ==
    ASSUME ListInv, ExecutePackage \/ ExecuteDone
    PROVE  ListInv'
  <1>1. packageList \in Seq(Generators) /\ next \in Nat \ {0} /\ item \in Nat \ {0}
    BY DEF ListInv
  <1>2. /\ tags' = tags /\ packageList' = packageList /\ item' = item
        /\ next' \in {next, next + 1} /\ pc = "execute" /\ pc' \in {"execute", "done"}
    BY DEF ExecutePackage, ExecuteDone
  <1>3. \A t \in Types : InformersDue(t) /\ DucksDue(t)
    BY <1>2 DEF InformersDue, DucksDue
  <1> QED
    BY <1>1, <1>2, <1>3, ListGrows

LEMMA ListStep ==
    ASSUME ListInv, [Next]_vars
    PROVE  ListInv'
  <1>1. CASE UNCHANGED vars
    BY <1>1, Frame DEF ListInv, vars, InformersDue, DucksDue, ItemSeen, InformersListed, DucksListed
  <1> QED
    BY <1>1, ValidateList, ErrorList, PackagesList, InformerPackagesList, DuckPackagesList, PhaseList, ExecuteList
    DEF Next
-----------------------------------------------------------------------------
(* The files *)

LEMMA FilesStep ==
    ASSUME ListInv, FilesInv, [Next]_vars
    PROVE  FilesInv'
  <1>1. tags' = tags
    BY DEF Next, vars, Validate, ValidateError, Packages, InformerPackages, InformerPackagesDone,
           DuckPackages, DuckPackagesDone, PackagesDone, ExecutePackage, ExecuteDone, ExecuteError
  <1>2. CASE files' = files
    BY <1>1, <1>2, Frame, OutputFrame DEF FilesInv
  <1>3. CASE ExecutePackage
    <2> DEFINE g == packageList[next]
    <2>1. g \in Generators
      BY <1>3 DEF ListInv, ExecutePackage
    <2>2. files' = [p \in DOMAIN files \cup {g.path} |-> IF p = g.path THEN Output(g) ELSE files[p]]
      BY <1>3 DEF ExecutePackage, Output
    <2> HIDE DEF g
    <2>3. ASSUME NEW p \in DOMAIN files'
          PROVE  \E h \in Generators : p = h.path /\ files'[p] = Output(h)
      <3>1. CASE p = g.path
        BY <2>1, <2>2, <3>1
      <3>2. CASE p # g.path
        BY <2>2, <3>2 DEF FilesInv
      <3> QED
        BY <3>1, <3>2
    <2> QED
      BY <2>3, <1>1, Frame, OutputFrame DEF FilesInv
  <1> QED
    BY <1>2, <1>3 DEF Next, vars, Validate, ValidateError, Packages, InformerPackages, InformerPackagesDone,
           DuckPackages, DuckPackagesDone, PackagesDone, ExecuteDone, ExecuteError

LEMMA WrittenStep ==
    ASSUME ListInv, WrittenInv, [Next]_vars
    PROVE  WrittenInv'
  <1>1. CASE ExecutePackage
    <2>1. DOMAIN files' = DOMAIN files \cup {packageList[next].path}
      BY <1>1 DEF ExecutePackage
    <2>2. next \in Nat /\ packageList \in Seq(Generators) /\ pc = "execute"
      BY <1>1 DEF ExecutePackage, ListInv
    <2>3. ASSUME NEW k \in DOMAIN packageList, k < next + 1
          PROVE  packageList[k].path \in DOMAIN files'
      <3>1. k < next \/ k = next
        BY <2>2, <2>3
      <3>2. k < next => packageList[k].path \in DOMAIN files
        BY <2>2, Zenon DEF WrittenInv
      <3> QED
        BY <2>1, <3>1, <3>2
    <2> QED
      BY <1>1, <2>2, <2>3 DEF ExecutePackage, WrittenInv
  <1>2. CASE ExecuteDone
    BY <1>2 DEF ExecuteDone, WrittenInv, ListInv
  <1>3. CASE PackagesDone
    BY <1>3 DEF PackagesDone, WrittenInv, ListInv
  <1>4. CASE UNCHANGED vars
    BY <1>4 DEF vars, WrittenInv
  <1> QED
    BY <1>1, <1>2, <1>3, <1>4 DEF WrittenInv, Next, vars, Validate, ValidateError, Packages, InformerPackages,
       InformerPackagesDone, DuckPackages, DuckPackagesDone, ExecuteError

LEMMA GenInvariant == Spec => []GenInv
  <1>1. Init => GenInv
    BY DEF Init, GenInv, ListInv, FilesInv, WrittenInv, InformersDue, DucksDue
  <1>2. GenInv /\ [Next]_vars => GenInv'
    BY ListStep, FilesStep, WrittenStep DEF GenInv
  <1> QED
    BY <1>1, <1>2, PTL DEF Spec
-----------------------------------------------------------------------------
(* The properties *)

\* No generated file holds its code twice, over any number of types, input
\* directories and repeated runs: the generators that are told of every type say
\* yes once, the others only to their own type (Filter of the generators).
THEOREM GenSingleBody == Spec => []SingleBody
  <1>1. GenInv => SingleBody
    <2>1. SUFFICES ASSUME GenInv, NEW p \in DOMAIN files
                   PROVE  Len(files[p]) <= 1
      BY DEF SingleBody
    <2>2. PICK g \in Generators : files[p] = Output(g)
      BY <2>1 DEF GenInv, FilesInv
    <2> QED
      BY <2>2, OutputFacts, FilterBound
  <1> QED
    BY <1>1, GenInvariant, PTL

\* At the end a listed package is on disk, as its generator writes it.
LEMMA ListedWritten ==
    ASSUME GenInv, pc = "done", NEW g \in Elems(packageList)
    PROVE  g \in Generators /\ g.path \in DOMAIN files /\ files[g.path] = Output(g)
  <1>1. PICK k \in DOMAIN packageList : g = packageList[k]
    BY DEF Elems
  <1>2. g \in Generators
    BY <1>1 DEF GenInv, ListInv
  <1>3. g.path \in DOMAIN files
    BY <1>1 DEF GenInv, WrittenInv
  <1>4. PICK h \in Generators : g.path = h.path /\ files[g.path] = Output(h)
    BY <1>3 DEF GenInv, FilesInv
  <1> QED
    BY <1>2, <1>3, <1>4, PathDetermines

LEMMA AllListed ==
    ASSUME GenInv, pc = "done", NEW t \in Types
    PROVE  InformersListed(t) /\ DucksListed(t) /\ Singles \subseteq Elems(packageList)
  BY DEF GenInv, ListInv, InformersDue, DucksDue

\* Only the generators of a type with an informer write where its informer goes.
LEMMA InformerPathType ==
    ASSUME NEW t \in Types, NEW h \in Generators,
           h.path = InformerPath(t) \/ h.path = Fake(InformerPath(t))
    PROVE  t \in InformerTypes
  <1>1. (Len(h.path) = 4 \/ Len(h.path) = 5) /\ h.path[1] = "informers"
    BY TypePaths, Zenon
  <1>2. ~(Len(h.path) \in {1, 2, 3})
    BY <1>1
  <1>3. PICK u \in InformerTypes : h \in InformersOf(u)
    BY <1>1, <1>2, GeneratorCases, SingleSigns, DuckSigns, Zenon DEF DuckTypes
  <1>4. u \in Types
    BY DEF InformerTypes
  <1>5. h.path = InformerPath(u) \/ h.path = Fake(InformerPath(u))
    BY <1>3, <1>4, TypeGenerators, Zenon DEF InformersOf
  <1>6. t = u
    <2>1. Len(InformerPath(t)) # Len(Fake(InformerPath(u))) /\ Len(Fake(InformerPath(t))) # Len(InformerPath(u))
      <3>1. /\ Len(InformerPath(t)) = 4 /\ Len(Fake(InformerPath(t))) = 5
            /\ Len(InformerPath(u)) = 4 /\ Len(Fake(InformerPath(u))) = 5
        BY <1>4, TypePaths, Zenon
      <3> QED
        BY ONLY <3>1
    <2>2. InformerPath(t) = InformerPath(u) \/ Fake(InformerPath(t)) = Fake(InformerPath(u))
      BY <1>5, <2>1, Zenon
    <2> QED
      BY <1>4, <2>2, SamePathSameType, Zenon
  <1> QED
    BY <1>6

\* When a run has ended, every type with a client that lists and watches, and no
\* other, has an informer registered with Default and one with Fake (Packages,
\* versionInformerPackages).  The files of two types never share a path, so the
\* order of the packages and the runs before do not matter.
THEOREM GenInformersGenerated == Spec => []InformersGenerated
  <1>1. GenInv => InformersGenerated
    <2>1. SUFFICES ASSUME GenInv, pc = "done", NEW t \in Types,
                          NEW p \in {InformerPath(t), Fake(InformerPath(t))}
                   PROVE  IF NeedsInformerInjection(t)
                          THEN p \in DOMAIN files
                               /\ \E b \in Elems(files[p]) : b.type = t /\ b.kind = "informer"
                          ELSE p \notin DOMAIN files
      BY Zenon DEF InformersGenerated
    <2>2. CASE NeedsInformerInjection(t)
      <3>1. t \in InformerTypes
        BY <2>2 DEF InformerTypes
      <3>2. PICK g \in InformersOf(t) : p = g.path
        BY TypeGenerators, Zenon DEF InformersOf
      <3>3. g \in Generators /\ p \in DOMAIN files /\ files[p] = Output(g)
        BY <2>1, <3>1, <3>2, AllListed, ListedWritten DEF InformersListed
      <3>4. Filter(g) = 1 /\ g.body.type = t /\ g.body.kind = "informer"
        BY <3>1, <3>2, InformersFilter
      <3>5. g.body \in Elems(files[p])
        BY <3>3, <3>4, OutputFacts
      <3> QED
        BY <2>2, <3>3, <3>4, <3>5, Zenon
    <2>3. CASE ~NeedsInformerInjection(t)
      <3>1. t \notin InformerTypes
        BY <2>3 DEF InformerTypes
      <3>2. p \notin DOMAIN files
        BY <2>1, <3>1, InformerPathType, Zenon DEF GenInv, FilesInv
      <3> QED
        BY <2>3, <3>2
    <2> QED
      BY <2>2, <2>3
  <1> QED
    BY <1>1, GenInvariant, PTL

LEMMA ListedNotEmpty ==
    ASSUME GenInv, pc = "done", NEW g \in Elems(packageList), Filter(g) = 1
    PROVE  g.path \in DOMAIN files /\ files[g.path] # <<>>
  BY ListedWritten, OutputFacts

\* When a run has ended, everything that the generated code imports from the
\* generated tree is there, with its code: the fakes import what they fake, the
\* informers their factory and the factory its client (Imports of the generators,
\* Packages).
THEOREM GenImportsGenerated == Spec => []ImportsGenerated
  <1>1. GenInv => ImportsGenerated
    <2>1. SUFFICES ASSUME GenInv, pc = "done", NEW p \in DOMAIN files, NEW b \in Elems(files[p]),
                          NEW q \in b.imports
                   PROVE  q \in DOMAIN files /\ files[q] # <<>>
      BY Zenon DEF ImportsGenerated, Bodies
    <2>2. PICK g \in Generators : files[p] = Output(g)
      BY <2>1 DEF GenInv, FilesInv
    <2>3. Filter(g) = 1 /\ b = g.body
      BY <2>2, OutputFacts, FilterBound
    <2>4. ASSUME InformerTypes # {}, q \in {ClientPath, Fake(ClientPath), FactoryPath, Fake(FactoryPath)}
          PROVE  q \in DOMAIN files /\ files[q] # <<>>
      <3>1. PICK h \in Singles : q = h.path
        BY <2>4, SingleGenerators, Zenon DEF Singles
      <3>2. Filter(h) = 1
        BY <2>4, SinglesFilter
      <3>3. h \in Elems(packageList)
        BY <2>1, <2>4, AllListed DEF InformerTypes
      <3> QED
        BY <2>1, <3>1, <3>2, <3>3, ListedNotEmpty
    <2>5. CASE g \in Singles
      <3>1. InformerTypes # {}
        BY <2>3, <2>5, SinglesFilter
      <3> QED
        BY <2>3, <2>4, <2>5, <3>1, SingleFields, Zenon
    <2>6. ASSUME NEW t \in InformerTypes, g \in InformersOf(t)
          PROVE  q \in DOMAIN files /\ files[q] # <<>>
      <3>1. t \in Types
        BY DEF InformerTypes
      <3>2. q \in {FactoryPath, Fake(FactoryPath), InformerPath(t)}
        BY <2>3, <2>6, <3>1, InformerFields
      <3>3. CASE q = InformerPath(t)
        <4>1. InjectionGenerator(t) \in InformersOf(t) /\ InjectionGenerator(t).path = q
          BY <3>1, <3>3, TypeGenerators, Zenon DEF InformersOf
        <4>2. InjectionGenerator(t) \in Elems(packageList)
          BY <2>1, <3>1, <4>1, AllListed DEF InformersListed
        <4>3. Filter(InjectionGenerator(t)) = 1
          BY <4>1, InformersFilter
        <4> QED
          BY <2>1, <4>1, <4>2, <4>3, ListedNotEmpty
      <3> QED
        BY <2>4, <3>2, <3>3
    <2>7. ASSUME NEW t \in DuckTypes, g \in DucksOf(t)
          PROVE  q \in DOMAIN files /\ files[q] # <<>>
      <3>1. t \in Types
        BY DEF DuckTypes
      <3>2. q = DuckPath(t)
        BY <2>3, <2>7, <3>1, DuckFields
      <3>3. DuckGenerator(t) \in DucksOf(t) /\ DuckGenerator(t).path = q
        BY <3>1, <3>2, TypeGenerators, Zenon DEF DucksOf
      <3>4. DuckGenerator(t) \in Elems(packageList)
        BY <2>1, <3>1, <3>3, AllListed DEF DucksListed
      <3>5. Filter(DuckGenerator(t)) = 1
        BY <3>3, DucksFilter
      <3> QED
        BY <2>1, <3>3, <3>4, <3>5, ListedNotEmpty
    <2> QED
      BY <2>5, <2>6, <2>7, GeneratorCases, Zenon
  <1> QED
    BY <1>1, GenInvariant, PTL
=============================================================================
