---------------------------- MODULE ProcessProofs ----------------------------
(***************************************************************************)
(* Proofs about Process: in whatever order Go initialises the packages,    *)
(* for any number of workers, keys and signals.                            *)
(***************************************************************************)
EXTENDS Process, SequenceTheorems, TLAPS

LinkedKeys == {i.key : i \in Linked}

AfterSetup == {"newagent", "newgc", "startinformers", "wait", "startall", "done", "newscheduler", "serve"}
BeforeWait == {"init", "newcontext", "setup", "newagent", "newgc", "startinformers"}
AfterWait == {"startall", "done", "newscheduler", "serve"}

ProgramInv ==
    /\ program \in Programs /\ env \in Environments
    /\ cfg \in [source : Sources \cup {"none"}, master : BOOLEAN]
    /\ pc \in {"init", "newcontext", "setup"} \cup AfterSetup
    /\ pc \in {"newagent", "newgc", "startall", "done"} => program = "agent"
    /\ pc \in {"newscheduler", "serve"} => program = "scheduler"

\* The injectors are registered under their kinds, and all of them once main runs.
RegistryInv ==
    /\ registry \in [Kinds -> Seq(Linked)]
    /\ \A k \in Kinds : \A n \in DOMAIN registry[k] : registry[k][n].kind = k
    /\ pc # "init" => \A i \in Linked : i \in Range(registry[i.kind])

\* Each injector of the sequence t finds what it needs in the context, or before
\* itself in t.
Ready(have, t) ==
    \A n \in 1 .. Len(t) : t[n].needs \subseteq have \cup {t[m].key : m \in 1 .. n - 1}

\* The injector has run.
Injected(i) == i.key \in ctx /\ (i.kind = "informer" => i.key \in Range(list))

ContextInv ==
    /\ todo \in Seq(Linked) /\ list \in Seq(Informers) /\ ctx \subseteq LinkedKeys
    /\ pc = "setup" => Ready(ctx, todo) /\ \A i \in Linked : Injected(i) \/ i \in Range(todo)
    /\ pc \in AfterSetup => \A i \in Linked : Injected(i)

\* A cache that has had its first list keeps it.
Settled(i) == informer[i] \in {"synced", "frozen"}

\* The informers that were waited for are settled, and after the wait all of them.
CacheInv ==
    /\ informer \in [Informers -> {"created", "running", "synced", "stopped", "frozen"}]
    /\ waitFor \in 1 .. Len(list) + 1
    /\ pc \in BeforeWait => waitFor = 1
    /\ pc = "wait" => \A n \in 1 .. waitFor - 1 : Settled(list[n])
    /\ pc \in AfterWait => \A i \in Informers : Settled(i)

\* Nobody works before the start-up is over.
WorkInv ==
    /\ controller \in [Controllers -> {"none", "starting", "running", "draining", "ended"}]
    /\ queue \in [Controllers -> 0 .. MaxQueue]
    /\ busy \in [Controllers -> 0 .. Threads]
    /\ serving \in BOOLEAN
    /\ pc # "done" => \A c \in Controllers : controller[c] = "none" /\ busy[c] = 0
    /\ pc # "serve" => ~serving

SignalInv ==
    /\ sent \in 0 .. MaxSignals /\ pending \in 0 .. 2
    /\ handler \in {"none", "first", "second"} /\ stop \in BOOLEAN
    /\ exit \in {"none", "0", "1", "fatal", "killed"}

Inv == ProgramInv /\ RegistryInv /\ ContextInv /\ CacheInv /\ WorkInv /\ SignalInv
-----------------------------------------------------------------------------
(* What the programs link *)

\* A key stands for one injector.
LEMMA KeysUnique == \A i, j \in Injectors : i.key = j.key => i = j
  BY DEF Injectors, LocalVolumeClient, KubeClient, LocalVolumeFactory, KubeFactory, LocalVolumeInformer,
         PersistentVolumeInformer, PersistentVolumeClaimInformer, PodInformer, StorageClassInformer

\* A client needs nothing, a factory its client, and an informer its factory.
LEMMA Needs ==
    ASSUME NEW i \in Injectors
    PROVE  /\ i.kind \in Kinds /\ i.kind # "duck"
           /\ i.kind = "client" => i.needs = {}
           /\ i.kind = "factory" =>
                \E j \in Injectors : j.kind = "client" /\ i.needs = {j.key}
           /\ i.kind = "informer" =>
                \E j \in Injectors : j.kind = "factory" /\ i.needs = {j.key}
  BY DEF Kinds, Injectors, LocalVolumeClient, KubeClient, LocalVolumeFactory, KubeFactory,
         LocalVolumeInformer, PersistentVolumeInformer, PersistentVolumeClaimInformer, PodInformer,
         StorageClassInformer

LEMMA ImportsFacts ==
    ASSUME NEW keys, NEW k
    PROVE  k \in Imports(keys) <=> k \in keys \/ \E i \in Injectors : i.key \in keys /\ k \in i.needs
  BY DEF Imports

\* What an injector of a program needs is linked too, and of the kind that is set up before.
LEMMA LinkedClosed ==
    ASSUME NEW p \in {"agent", "scheduler"}, NEW i \in LinkedBy[p], NEW k \in i.needs
    PROVE  \E j \in LinkedBy[p] :
                /\ j.key = k
                /\ \/ i.kind = "factory" /\ j.kind = "client"
                   \/ i.kind = "informer" /\ j.kind = "factory"
<1> DEFINE K == Imported[p]
<1>1. i \in Injectors /\ i.key \in Imports(Imports(K))
  BY DEF LinkedBy
<1>2. \A j \in Injectors : j.key \in Imports(Imports(K)) => j \in LinkedBy[p]
  BY DEF LinkedBy
<1> HIDE DEF K
<1>3. ASSUME NEW j \in Injectors, j.kind = "informer", NEW keys, j.key \in Imports(keys)
      PROVE  j.key \in keys
  <2> SUFFICES ASSUME NEW h \in Injectors, j.key \in h.needs PROVE FALSE
    BY <1>3, ImportsFacts
  <2>1. PICK g \in Injectors : g.kind # "informer" /\ h.needs = {g.key}
    BY Needs DEF Kinds
  <2> QED
    BY <1>3, <2>1, KeysUnique
<1>4. ASSUME NEW j \in Injectors, j.kind = "factory", j.key \in Imports(Imports(K))
      PROVE  j.key \in Imports(K)
  <2>1. CASE j.key \in Imports(K)
    BY <2>1
  <2>2. CASE \E h \in Injectors : h.key \in Imports(K) /\ j.key \in h.needs
    <3>1. PICK h \in Injectors : h.key \in Imports(K) /\ j.key \in h.needs
      BY <2>2
    <3>2. h.kind = "informer"
      <4>1. h.kind = "factory" => \E g \in Injectors : g.kind = "client" /\ h.needs = {g.key}
        BY Needs
      <4>2. h.kind # "factory"
        BY <1>4, <3>1, <4>1, KeysUnique
      <4> QED
        BY <3>1, <4>2, Needs DEF Kinds
    <3>3. h.key \in K
      BY <1>3, <3>1, <3>2
    <3> QED
      BY <3>1, <3>3, ImportsFacts
  <2> QED
    BY <1>4, <2>1, <2>2, ImportsFacts
<1>5. CASE i.kind = "client"
  BY <1>1, <1>5, Needs
<1>6. CASE i.kind = "factory"
  <2>1. PICK j \in Injectors : j.kind = "client" /\ i.needs = {j.key}
    BY <1>1, <1>6, Needs
  <2>2. j.key \in Imports(Imports(K))
    BY <1>1, <1>4, <1>6, <2>1, ImportsFacts
  <2> QED
    BY <1>2, <1>6, <2>1, <2>2
<1>7. CASE i.kind = "informer"
  <2>1. PICK j \in Injectors : j.kind = "factory" /\ i.needs = {j.key}
    BY <1>1, <1>7, Needs
  <2>2. i.key \in K
    BY <1>1, <1>3, <1>7
  <2>3. j.key \in Imports(K)
    BY <1>1, <2>1, <2>2, ImportsFacts
  <2>4. j.key \in Imports(Imports(K))
    BY <2>3, ImportsFacts
  <2> QED
    BY <1>2, <1>7, <2>1, <2>4
<1> QED
  BY <1>1, <1>5, <1>6, <1>7, Needs DEF Kinds

\* Every key a constructor of the program uses belongs to a linked injector.
LEMMA ImportedLinked ==
    ASSUME NEW p \in {"agent", "scheduler"}, NEW k \in Imported[p]
    PROVE  \E i \in LinkedBy[p] : i.key = k
<1>1. k \in Imports(Imports(Imported[p]))
  BY ImportsFacts
<1>2. \E i \in Injectors : i.key = k
  BY DEF Imported, NewAgentNeeds, NewGCNeeds, NewLocalVolumeSchedulerNeeds, Injectors, LocalVolumeClient,
         KubeClient, LocalVolumeInformer, PersistentVolumeInformer, PersistentVolumeClaimInformer,
         PodInformer, StorageClassInformer
<1> QED
  BY <1>1, <1>2 DEF LinkedBy

LEMMA LinkedFacts ==
    ASSUME ProgramInv
    PROVE  /\ program \in {"agent", "scheduler"} /\ Linked \subseteq Injectors
           /\ \A x \in Informers : \E i \in Linked : i.kind = "informer" /\ i.key = x
           /\ \A i \in Linked : i.kind = "informer" => i.key \in Informers
           /\ Informers \subseteq LinkedKeys
<1>1. program \in {"agent", "scheduler"}
  BY ProgramAssumption DEF ProgramAssumption, ProgramInv
<1>2. Linked \subseteq Injectors
  BY <1>1 DEF Linked, LinkedBy
<1>3. Informers = LinkedKeys \cap InformerKeys
  BY <1>1 DEF Informers, InformersOf, Linked, LinkedKeys
<1>4. ASSUME NEW x \in Informers PROVE \E i \in Linked : i.kind = "informer" /\ i.key = x
  <2>1. PICK i \in Linked : i.key = x
    BY <1>3 DEF LinkedKeys
  <2>2. PICK j \in Injectors : j.kind = "informer" /\ j.key = x
    BY <1>3 DEF InformerKeys
  <2> QED
    BY <1>2, <2>1, <2>2, KeysUnique
<1>5. ASSUME NEW i \in Linked, i.kind = "informer" PROVE i.key \in Informers
  BY <1>2, <1>3, <1>5 DEF LinkedKeys, InformerKeys
<1> QED
  BY <1>1, <1>2, <1>3, <1>4, <1>5
-----------------------------------------------------------------------------
(* Sequences of injectors *)

KeysOf(t) == {x.key : x \in Range(t)}

\* The first injector finds what it needs; the others do when its value is there.
LEMMA ReadyTail ==
    ASSUME NEW S, NEW t \in Seq(S), t # <<>>, NEW have, Ready(have, t)
    PROVE  /\ Head(t) \in S /\ Tail(t) \in Seq(S)
           /\ Range(t) = {Head(t)} \cup Range(Tail(t))
           /\ Head(t).needs \subseteq have
           /\ Ready(have \cup {Head(t).key}, Tail(t))
<1> DEFINE u == Tail(t)
<1>1. /\ Len(t) \in Nat /\ Len(t) >= 1 /\ Head(t) = t[1] /\ Head(t) \in S
      /\ u \in Seq(S) /\ Len(u) = Len(t) - 1 /\ \A n \in 1 .. Len(u) : u[n] = t[n + 1]
  OBVIOUS
<1> HIDE DEF u
<1>2. Range(t) = {Head(t)} \cup Range(u)
  <2>1. Range(t) = {t[n] : n \in 1 .. Len(t)} /\ Range(u) = {u[n] : n \in 1 .. Len(u)}
    BY <1>1, RangeEquality
  <2>2. ASSUME NEW n \in 1 .. Len(t) PROVE t[n] = Head(t) \/ \E m \in 1 .. Len(u) : t[n] = u[m]
    <3>1. CASE n = 1
      BY <1>1, <3>1
    <3>2. CASE n # 1
      <4>1. n - 1 \in 1 .. Len(u) /\ u[n - 1] = t[(n - 1) + 1] /\ (n - 1) + 1 = n
        BY <1>1, <3>2
      <4> QED
        BY <4>1
    <3> QED
      BY <3>1, <3>2
  <2>3. ASSUME NEW m \in 1 .. Len(u) PROVE m + 1 \in 1 .. Len(t) /\ u[m] = t[m + 1]
    BY <1>1
  <2> QED
    BY <1>1, <2>1, <2>2, <2>3
<1>3. Head(t).needs \subseteq have
  <2>1. t[1].needs \subseteq have \cup {t[m].key : m \in 1 .. 1 - 1}
    BY <1>1 DEF Ready
  <2>2. {t[m].key : m \in 1 .. 1 - 1} = {}
    OBVIOUS
  <2> QED
    BY <1>1, <2>1, <2>2
<1>4. ASSUME NEW n \in 1 .. Len(u), NEW k \in u[n].needs
      PROVE  k \in (have \cup {Head(t).key}) \cup {u[m].key : m \in 1 .. n - 1}
  <2>1. n + 1 \in 1 .. Len(t) /\ u[n] = t[n + 1] /\ n \in Nat
    BY <1>1
  <2>2. k \in have \cup {t[m].key : m \in 1 .. (n + 1) - 1}
    BY <1>4, <2>1 DEF Ready
  <2>3. ASSUME NEW m \in 1 .. (n + 1) - 1, k = t[m].key, m # 1
        PROVE  k \in {u[l].key : l \in 1 .. n - 1}
    <3>1. m - 1 \in 1 .. n - 1 /\ m - 1 \in 1 .. Len(u) /\ (m - 1) + 1 = m
      BY <1>1, <2>1, <2>3
    <3>2. u[m - 1] = t[m]
      BY <1>1, <3>1
    <3> QED
      BY <2>3, <3>1, <3>2
  <2> QED
    BY <1>1, <2>2, <2>3
<1>5. Ready(have \cup {Head(t).key}, u)
  BY <1>4 DEF Ready
<1> QED
  BY <1>1, <1>2, <1>3, <1>5 DEF u

LEMMA ReadyAll ==
    ASSUME NEW S, NEW t \in Seq(S), NEW have, \A x \in Range(t) : x.needs \subseteq have
    PROVE  Ready(have, t)
<1>1. Range(t) = {t[n] : n \in 1 .. Len(t)}
  BY RangeEquality
<1> QED
  BY <1>1 DEF Ready

LEMMA ReadyConcat ==
    ASSUME NEW S, NEW s \in Seq(S), NEW t \in Seq(S), NEW have,
           Ready(have, s), Ready(have \cup KeysOf(s), t)
    PROVE  Ready(have, s \o t)
<1> DEFINE u == s \o t
<1>1. /\ Len(s) \in Nat /\ Len(t) \in Nat /\ Len(u) = Len(s) + Len(t)
      /\ \A n \in 1 .. Len(s) : u[n] = s[n]
      /\ \A n \in 1 .. Len(t) : u[Len(s) + n] = t[n]
  OBVIOUS
<1> HIDE DEF u
<1>2. Range(s) = {s[n] : n \in 1 .. Len(s)}
  BY RangeEquality
<1>3. ASSUME NEW n \in 1 .. Len(s), NEW k \in u[n].needs
      PROVE  k \in have \cup {u[m].key : m \in 1 .. n - 1}
  <2>1. k \in have \cup {s[m].key : m \in 1 .. n - 1}
    BY Zenon, <1>1, <1>3 DEF Ready
  <2>2. \A m \in 1 .. n - 1 : s[m] = u[m]
    BY <1>1
  <2> QED
    BY <2>1, <2>2
<1>4. ASSUME NEW l \in 1 .. Len(t), NEW k \in u[Len(s) + l].needs
      PROVE  k \in have \cup {u[m].key : m \in 1 .. (Len(s) + l) - 1}
  <2>1. k \in (have \cup KeysOf(s)) \cup {t[m].key : m \in 1 .. l - 1}
    BY <1>1, <1>4 DEF Ready
  <2>2. CASE k \in have
    BY <2>2
  <2>3. CASE k \in KeysOf(s)
    <3>1. PICK m \in 1 .. Len(s) : k = s[m].key
      BY <1>2, <2>3 DEF KeysOf
    <3>2. m \in 1 .. (Len(s) + l) - 1 /\ u[m] = s[m]
      BY <1>1
    <3> QED
      BY <3>1, <3>2
  <2>4. CASE k \in {t[m].key : m \in 1 .. l - 1}
    <3>1. PICK m \in 1 .. l - 1 : k = t[m].key
      BY <2>4
    <3>2. Len(s) + m \in 1 .. (Len(s) + l) - 1 /\ m \in 1 .. Len(t)
      BY <1>1
    <3>3. u[Len(s) + m] = t[m]
      BY <1>1, <3>2
    <3> QED
      BY <3>1, <3>2, <3>3
  <2> QED
    BY <2>1, <2>2, <2>3, <2>4
<1>5. ASSUME NEW n \in 1 .. Len(u)
      PROVE  u[n].needs \subseteq have \cup {u[m].key : m \in 1 .. n - 1}
  <2>1. CASE n \in 1 .. Len(s)
    BY <1>3, <2>1
  <2>2. CASE n \notin 1 .. Len(s)
    <3>1. n - Len(s) \in 1 .. Len(t) /\ Len(s) + (n - Len(s)) = n
      BY <1>1, <2>2
    <3> DEFINE l == n - Len(s)
    <3> HIDE DEF l
    <3>2. l \in 1 .. Len(t) /\ Len(s) + l = n
      BY <3>1 DEF l
    <3> QED
      BY <1>4, <3>2
  <2> QED
    BY <2>1, <2>2
<1> QED
  BY Zenon, <1>5 DEF u, Ready

\* The order of SetupInformers serves every injector, and reaches all of them.
LEMMA OrderIsReady ==
    ASSUME ProgramInv, RegistryInv, pc # "init", NEW have
    PROVE  LET t == registry["client"] \o registry["factory"] \o registry["duck"] \o registry["informer"]
           IN t \in Seq(Linked) /\ Ready(have, t) /\ Linked \subseteq Range(t)
<1> DEFINE c == registry["client"]
           f == registry["factory"]
           d == registry["duck"]
           i == registry["informer"]
<1>1. c \in Seq(Linked) /\ f \in Seq(Linked) /\ d \in Seq(Linked) /\ i \in Seq(Linked)
  BY DEF RegistryInv, Kinds
<1>2. ASSUME NEW k \in Kinds, NEW x \in Range(registry[k]) PROVE x \in Linked /\ x.kind = k
  BY DEF RegistryInv, Range
<1>3. \A x \in Linked : x \in Range(registry[x.kind])
  BY DEF RegistryInv
<1>4. Linked \subseteq Injectors /\ program \in {"agent", "scheduler"} /\ Linked = LinkedBy[program]
  BY LinkedFacts DEF Linked
<1>5. /\ \A x \in Range(c) : x \in Linked /\ x.kind = "client"
      /\ \A x \in Range(f) : x \in Linked /\ x.kind = "factory"
      /\ \A x \in Range(d) : x \in Linked /\ x.kind = "duck"
      /\ \A x \in Range(i) : x \in Linked /\ x.kind = "informer"
  BY <1>2 DEF Kinds
<1>6. \A x \in Linked : \/ x.kind = "client" /\ x \in Range(c)
                        \/ x.kind = "factory" /\ x \in Range(f)
                        \/ x.kind = "informer" /\ x \in Range(i)
  BY <1>3, <1>4, Needs DEF Kinds
<1> HIDE DEF c, f, d, i
<1>7. Ready(have, c)
  BY <1>1, <1>4, <1>5, Needs, ReadyAll
<1>8. Ready(have \cup KeysOf(c), f)
  <2>1. ASSUME NEW x \in Range(f), NEW k \in x.needs PROVE k \in KeysOf(c)
    BY <1>4, <1>5, <1>6, LinkedClosed DEF KeysOf
  <2> QED
    BY <1>1, <2>1, ReadyAll
<1>9. c \o f \in Seq(Linked) /\ Ready(have, c \o f) /\ Range(c \o f) = Range(c) \cup Range(f)
  BY <1>1, <1>7, <1>8, ReadyConcat, RangeConcatenation
<1>10. Ready(have \cup KeysOf(c \o f), d)
  <2>1. \A x \in Range(d) : FALSE
    BY <1>4, <1>5, Needs
  <2> QED
    BY <1>1, <2>1, ReadyAll
<1> DEFINE cf == c \o f
<1> HIDE DEF cf
<1>11. cf \o d \in Seq(Linked) /\ Ready(have, cf \o d) /\ Range(cf \o d) = Range(c) \cup Range(f) \cup Range(d)
  <2>1. cf \in Seq(Linked) /\ Ready(have, cf) /\ Range(cf) = Range(c) \cup Range(f) /\ Ready(have \cup KeysOf(cf), d)
    BY <1>9, <1>10 DEF cf
  <2>2. Ready(have, cf \o d)
    BY <1>1, <2>1, ReadyConcat
  <2>3. cf \o d \in Seq(Linked) /\ Range(cf \o d) = Range(cf) \cup Range(d)
    BY <1>1, <2>1, RangeConcatenation
  <2> QED
    BY <2>1, <2>2, <2>3
<1> DEFINE cfd == cf \o d
<1> HIDE DEF cfd
<1>12. cfd \in Seq(Linked) /\ Ready(have, cfd) /\ Range(cfd) = Range(c) \cup Range(f) \cup Range(d)
  BY <1>11 DEF cfd
<1>13. Ready(have \cup KeysOf(cfd), i)
  <2>1. ASSUME NEW x \in Range(i), NEW k \in x.needs PROVE k \in KeysOf(cfd)
    <3>1. PICK y \in Linked : y.key = k /\ y.kind = "factory"
      BY <1>4, <1>5, LinkedClosed
    <3>2. y \in Range(cfd)
      BY <1>6, <1>12, <3>1
    <3> QED
      BY <3>1, <3>2 DEF KeysOf
  <2> QED
    BY <1>1, <2>1, ReadyAll
<1>14. Ready(have, cfd \o i)
  BY <1>1, <1>12, <1>13, ReadyConcat
<1>15. cfd \o i \in Seq(Linked) /\ Range(cfd \o i) = Range(cfd) \cup Range(i)
  BY <1>1, <1>12, RangeConcatenation
<1>16. Linked \subseteq Range(cfd \o i)
  BY <1>6, <1>12, <1>15
<1> QED
  BY <1>14, <1>15, <1>16 DEF cfd, cf, c, f, d, i
-----------------------------------------------------------------------------
(* What a step leaves alone *)

LEMMA SetupStays ==
    ASSUME Inv, UNCHANGED <<setup, pc>>
    PROVE  ProgramInv' /\ RegistryInv' /\ ContextInv'
<1>1. ProgramInv'
  BY DEF Inv, ProgramInv, setup
<1>2. RegistryInv'
  BY DEF Inv, RegistryInv, setup, Linked
<1>3. ContextInv'
  BY DEF Inv, ContextInv, setup, Linked, LinkedKeys, Informers, Injected, Ready
<1> QED
  BY <1>1, <1>2, <1>3

\* Main goes on after the injectors have run.
LEMMA SetupDone ==
    ASSUME Inv, UNCHANGED setup, pc \in AfterSetup, pc' \in AfterSetup,
           pc' \in {"newagent", "newgc", "startall", "done"} => program = "agent",
           pc' \in {"newscheduler", "serve"} => program = "scheduler"
    PROVE  ProgramInv' /\ RegistryInv' /\ ContextInv'
<1>1. ProgramInv'
  BY DEF Inv, ProgramInv, setup
<1>2. RegistryInv'
  BY DEF Inv, RegistryInv, setup, Linked, AfterSetup
<1>3. ContextInv'
  BY DEF Inv, ContextInv, setup, Linked, LinkedKeys, Informers, Injected, AfterSetup
<1> QED
  BY <1>1, <1>2, <1>3

LEMMA CacheStays ==
    ASSUME Inv, UNCHANGED <<setup, informer, waitFor>>,
           pc' = pc \/ {pc, pc'} \subseteq BeforeWait \/ {pc, pc'} \subseteq AfterWait
    PROVE  CacheInv'
  BY DEF Inv, CacheInv, Settled, setup, Informers, BeforeWait, AfterWait

LEMMA WorkStays ==
    ASSUME Inv, UNCHANGED <<controller, queue, busy, serving>>, pc' = pc \/ pc \notin {"done", "serve"}
    PROVE  WorkInv'
  BY DEF Inv, WorkInv

LEMMA SignalStays ==
    ASSUME Inv, UNCHANGED signal, exit' \in {exit, "0", "fatal"}
    PROVE  SignalInv'
  BY DEF Inv, SignalInv, signal
-----------------------------------------------------------------------------
(* The steps of the main goroutine *)

LEMMA InitInv == Init => Inv
<1> SUFFICES ASSUME Init PROVE Inv
  OBVIOUS
<1>1. ProgramInv
  BY DEF Init, ProgramInv, NoConfig, Sources
<1>2. RegistryInv
  <2>1. registry \in [Kinds -> Seq(Linked)] /\ \A k \in Kinds : registry[k] = <<>>
    BY DEF Init
  <2> QED
    BY <2>1 DEF Init, RegistryInv
<1>3. ContextInv
  BY DEF Init, ContextInv, AfterSetup
<1>4. CacheInv
  BY DEF Init, CacheInv, BeforeWait, AfterWait
<1>5. WorkInv
  <2>1. 0 \in 0 .. MaxQueue /\ 0 \in 0 .. Threads
    BY BoundsAssumption DEF BoundsAssumption
  <2>2. serving = FALSE /\ serving \in BOOLEAN
    BY Zenon DEF Init
  <2> QED
    BY <2>1, <2>2 DEF Init, WorkInv
<1>6. SignalInv
  <2>1. 0 \in 0 .. MaxSignals /\ 0 \in 0 .. 2
    BY BoundsAssumption DEF BoundsAssumption
  <2>2. stop \in BOOLEAN
    BY Zenon DEF Init
  <2> QED
    BY <2>1, <2>2 DEF Init, SignalInv
<1> QED
  BY <1>1, <1>2, <1>3, <1>4, <1>5, <1>6 DEF Inv

LEMMA RegisterInv ==
    ASSUME Inv, NEW i \in Linked, Register(i)
    PROVE  Inv'
<1>1. UNCHANGED <<program, env, cfg, todo, ctx, list, pc, waitFor, work, signal, exit>> /\ pc = "init"
  BY DEF Register
<1>2. ProgramInv'
  BY <1>1 DEF Inv, ProgramInv
<1>3. Linked' = Linked
  BY <1>1 DEF Linked
<1>4. RegistryInv'
  <2>1. i.kind \in Kinds
    BY LinkedFacts, Needs DEF Inv
  <2>2. registry' = [registry EXCEPT ![i.kind] = Append(registry[i.kind], i)]
    BY DEF Register
  <2>3. registry[i.kind] \in Seq(Linked) /\ registry \in [Kinds -> Seq(Linked)]
    BY <2>1 DEF Inv, RegistryInv
  <2> DEFINE r == registry[i.kind]
             a == Append(r, i)
  <2>4. a \in Seq(Linked) /\ DOMAIN a = 1 .. Len(r) + 1 /\ \A n \in DOMAIN a : a[n] = IF n <= Len(r) THEN r[n] ELSE i
    BY <2>3
  <2>5. \A n \in 1 .. Len(r) : n \in DOMAIN r /\ r[n].kind = i.kind
    BY <2>1, <2>3 DEF Inv, RegistryInv
  <2>6. Len(r) \in Nat
    BY <2>3
  <2> HIDE DEF a, r
  <2>7. \A n \in DOMAIN a : a[n].kind = i.kind
    BY <2>4, <2>5, <2>6
  <2>8. registry' \in [Kinds -> Seq(Linked)] /\ registry'[i.kind] = a /\ \A k \in Kinds : k # i.kind => registry'[k] = registry[k]
    BY <2>1, <2>2, <2>3, <2>4 DEF a, r
  <2>9. \A k \in Kinds : \A n \in DOMAIN registry'[k] : registry'[k][n].kind = k
    BY Zenon, <2>7, <2>8 DEF Inv, RegistryInv
  <2> QED
    BY <1>1, <1>3, <2>8, <2>9 DEF RegistryInv
<1>5. ContextInv'
  BY <1>1 DEF Inv, ContextInv, Linked, LinkedKeys, Informers, AfterSetup
<1>6. CacheInv'
  BY <1>1 DEF Inv, CacheInv, Settled, Informers, work, BeforeWait, AfterWait
<1>7. WorkInv' /\ SignalInv'
  BY <1>1, WorkStays, SignalStays DEF work
<1> QED
  BY <1>2, <1>4, <1>5, <1>6, <1>7 DEF Inv

LEMMA GetConfigType ==
    ASSUME NEW e
    PROVE  GetConfig(e) \in [source : Sources \cup {"none"}, master : BOOLEAN]
<1> DEFINE T == [source : Sources \cup {"none"}, master : BOOLEAN]
<1>1. /\ [source |-> "kubeconfig", master |-> "master" \in e] \in T
      /\ [source |-> "KUBECONFIG", master |-> "master" \in e] \in T
      /\ [source |-> "cluster", master |-> FALSE] \in T
      /\ [source |-> "home", master |-> FALSE] \in T
      /\ NoConfig \in T
  BY DEF Sources, NoConfig
<1> HIDE DEF T
<1>2. GetConfig(e) \in T
  BY <1>1 DEF GetConfig
<1> QED
  BY <1>2 DEF T

\* Package initialisation is complete when main begins.
LEMMA MainInv ==
    ASSUME Inv, Main
    PROVE  Inv'
<1>1. /\ pc = "init" /\ pc' = "newcontext" /\ cfg' = GetConfig(env)
      /\ Registered = {i.key : i \in Linked} /\ exit' \in {exit, "fatal"}
      /\ UNCHANGED <<program, env, registry, todo, ctx, list, waitFor, work, signal>>
  BY DEF Main
<1>2. ProgramInv'
  BY <1>1, GetConfigType DEF Inv, ProgramInv, AfterSetup
<1>3. RegistryInv'
  <2>1. ASSUME NEW i \in Linked PROVE i \in Range(registry[i.kind])
    <3>1. i.key \in Registered
      BY <1>1
    <3>2. PICK k \in Kinds : \E n \in DOMAIN registry[k] : registry[k][n].key = i.key
      BY <3>1 DEF Registered
    <3>3. PICK n \in DOMAIN registry[k] : registry[k][n].key = i.key
      BY <3>2
    <3>4. registry[k] \in Seq(Linked) /\ registry[k][n].kind = k
      BY DEF Inv, RegistryInv
    <3>5. registry[k][n] \in Linked
      BY <3>4
    <3>6. registry[k][n] = i
      BY <3>3, <3>5, LinkedFacts, KeysUnique DEF Inv
    <3> QED
      BY <3>4, <3>6 DEF Range
  <2> QED
    BY <1>1, <2>1 DEF Inv, RegistryInv, Linked
<1>4. ContextInv'
  BY Zenon, <1>1 DEF Inv, ContextInv, Linked, LinkedKeys, Informers, AfterSetup
<1>5. CacheInv'
  BY <1>1 DEF Inv, CacheInv, Settled, Informers, work, BeforeWait, AfterWait
<1>6. WorkInv' /\ SignalInv'
  BY <1>1, WorkStays, SignalStays DEF work
<1> QED
  BY <1>2, <1>3, <1>4, <1>5, <1>6 DEF Inv

LEMMA NewContextInv ==
    ASSUME Inv, NewContext
    PROVE  Inv'
<1>1. /\ pc = "newcontext" /\ pc' = "setup" /\ handler' = "first"
      /\ todo' = registry["client"] \o registry["factory"] \o registry["duck"] \o registry["informer"]
      /\ UNCHANGED <<program, env, cfg, registry, ctx, list, waitFor, work, sent, pending, stop, exit>>
  BY DEF NewContext
<1>2. ProgramInv'
  BY <1>1 DEF Inv, ProgramInv
<1>3. RegistryInv'
  BY <1>1 DEF Inv, RegistryInv, Linked
<1>4. ContextInv'
  <2>1. todo' \in Seq(Linked) /\ Ready(ctx, todo') /\ Linked \subseteq Range(todo')
    BY <1>1, OrderIsReady DEF Inv
  <2> QED
    BY ZenonT(30), <1>1, <2>1 DEF Inv, ContextInv, Linked, LinkedKeys, Informers, AfterSetup, Ready
<1>5. CacheInv'
  BY Zenon, <1>1 DEF Inv, CacheInv, Settled, Informers, work, BeforeWait, AfterWait
<1>6. WorkInv'
  BY <1>1, WorkStays DEF work
<1>7. SignalInv'
  BY <1>1 DEF Inv, SignalInv
<1> QED
  BY <1>2, <1>3, <1>4, <1>5, <1>6, <1>7 DEF Inv

\* One injector: what it needs is in the context, and its value comes to it.
LEMMA InjectInv ==
    ASSUME Inv, Inject
    PROVE  Inv'
<1> DEFINE i == Head(todo)
<1>1. /\ pc = "setup" /\ todo # <<>> /\ todo' = Tail(todo)
      /\ exit' = IF i.needs \subseteq ctx THEN exit ELSE "panic"
      /\ ctx' = ctx \cup {i.key}
      /\ list' = IF i.kind = "informer" THEN Append(list, i.key) ELSE list
      /\ UNCHANGED <<program, env, cfg, registry, pc, waitFor, work, signal>>
  BY DEF Inject
<1>2. /\ todo \in Seq(Linked) /\ Ready(ctx, todo) /\ \A j \in Linked : Injected(j) \/ j \in Range(todo)
      /\ list \in Seq(Informers) /\ ctx \subseteq LinkedKeys
  BY <1>1 DEF Inv, ContextInv
<1>3. /\ i \in Linked /\ Tail(todo) \in Seq(Linked) /\ Range(todo) = {i} \cup Range(Tail(todo))
      /\ i.needs \subseteq ctx /\ Ready(ctx \cup {i.key}, Tail(todo))
  BY Zenon, <1>1, <1>2, ReadyTail
<1> HIDE DEF i
<1>4. /\ list' \in Seq(Informers) /\ Len(list) \in Nat /\ Len(list) <= Len(list')
      /\ Range(list) \subseteq Range(list')
      /\ i.kind = "informer" => i.key \in Range(list')
  <2>1. CASE i.kind = "informer"
    <3> DEFINE a == Append(list, i.key)
    <3>1. i.key \in Informers
      BY <1>3, <2>1, LinkedFacts DEF Inv
    <3>2. /\ a \in Seq(Informers) /\ Len(a) = Len(list) + 1 /\ Len(list) \in Nat
          /\ \A n \in 1 .. Len(list) : a[n] = list[n]
          /\ a[Len(list) + 1] = i.key
      BY <1>2, <3>1
    <3> HIDE DEF a
    <3>3. Range(a) = {a[n] : n \in 1 .. Len(a)} /\ Range(list) = {list[n] : n \in 1 .. Len(list)}
      BY <1>2, <3>2, RangeEquality
    <3>4. i.key \in Range(a)
      <4>1. Len(list) + 1 \in 1 .. Len(a)
        BY <3>2
      <4> QED
        BY <3>2, <3>3, <4>1
    <3>5. Range(list) \subseteq Range(a)
      <4>1. \A n \in 1 .. Len(list) : n \in 1 .. Len(a)
        BY <3>2
      <4> QED
        BY <3>2, <3>3, <4>1
    <3>6. list' = a /\ Len(list) <= Len(a)
      BY <1>1, <2>1, <3>2 DEF a
    <3> QED
      BY <3>2, <3>4, <3>5, <3>6
  <2>2. CASE i.kind # "informer"
    BY <1>1, <1>2, <2>2
  <2> QED
    BY <2>1, <2>2
<1>5. ProgramInv'
  BY <1>1 DEF Inv, ProgramInv
<1>6. RegistryInv'
  BY <1>1 DEF Inv, RegistryInv, Linked
<1>7. ContextInv'
  <2>1. ctx' \subseteq LinkedKeys
    BY Zenon, <1>1, <1>2, <1>3 DEF LinkedKeys
  <2>2. ASSUME NEW j \in Linked PROVE Injected(j)' \/ j \in Range(todo')
    <3>1. CASE Injected(j)
      BY <1>1, <1>4, <3>1 DEF Injected
    <3>2. CASE j = i
      BY <1>1, <1>4, <3>2 DEF Injected
    <3>3. CASE j \in Range(Tail(todo))
      BY <1>1, <3>3
    <3> QED
      BY <1>2, <1>3, <3>1, <3>2, <3>3
  <2>3. Linked' = Linked /\ Informers' = Informers /\ LinkedKeys' = LinkedKeys
    BY <1>1 DEF Linked, Informers, LinkedKeys
  <2>4. Ready(ctx', todo')
    BY <1>1, <1>3
  <2>5. Ready(ctx, todo)' <=> Ready(ctx', todo')
    BY DEF Ready
  <2> QED
    BY Zenon, <1>1, <1>3, <1>4, <2>1, <2>2, <2>3, <2>4, <2>5 DEF ContextInv, AfterSetup
<1>8. CacheInv'
  <2>1. waitFor = 1 /\ 1 \in 1 .. Len(list') + 1
    BY <1>1, <1>4 DEF Inv, CacheInv, BeforeWait
  <2> QED
    BY <1>1, <2>1 DEF Inv, CacheInv, Settled, Informers, work, BeforeWait, AfterWait
<1>9. WorkInv' /\ SignalInv'
  BY <1>1, <1>3, WorkStays, SignalStays DEF work
<1> QED
  BY <1>5, <1>6, <1>7, <1>8, <1>9 DEF Inv

\* All injectors have run.
LEMMA SetUpInv ==
    ASSUME Inv, SetUp
    PROVE  Inv'
<1>1. /\ pc = "setup" /\ todo = <<>> /\ pc' = (IF program = "agent" THEN "newagent" ELSE "startinformers")
      /\ UNCHANGED <<setup, waitFor, work, signal, exit>>
  BY DEF SetUp
<1>2. ProgramInv'
  BY <1>1 DEF Inv, ProgramInv, setup, AfterSetup
<1>3. RegistryInv'
  BY Zenon, <1>1 DEF Inv, RegistryInv, setup, Linked
<1>4. ContextInv'
  <2>1. Range(todo) = {}
    BY <1>1 DEF Range
  <2>2. \A i \in Linked : Injected(i)
    BY <1>1, <2>1 DEF Inv, ContextInv
  <2> QED
    BY <1>1, <2>2 DEF Inv, ContextInv, setup, Linked, LinkedKeys, Informers, Injected
<1>5. CacheInv'
  BY <1>1, CacheStays DEF work, BeforeWait
<1>6. WorkInv' /\ SignalInv'
  BY <1>1, WorkStays, SignalStays DEF work
<1> QED
  BY <1>2, <1>3, <1>4, <1>5, <1>6 DEF Inv

\* After the set-up the context holds every value that is linked.
LEMMA ContextComplete ==
    ASSUME Inv, pc \in AfterSetup
    PROVE  /\ Imported[program] \subseteq ctx
           /\ \A x \in Informers : x \in Range(list)
<1>1. \A i \in Linked : Injected(i)
  BY DEF Inv, ContextInv
<1>2. program \in {"agent", "scheduler"} /\ Linked = LinkedBy[program]
  BY LinkedFacts DEF Inv, Linked
<1>3. Imported[program] \subseteq ctx
  BY <1>1, <1>2, ImportedLinked DEF Injected
<1>4. \A x \in Informers : x \in Range(list)
  BY <1>1, LinkedFacts DEF Inv, Injected
<1> QED
  BY <1>3, <1>4

LEMMA ConstructorsInv ==
    ASSUME Inv, NewAgent \/ NewGC \/ NewLocalVolumeScheduler
    PROVE  Inv'
<1>1. UNCHANGED <<setup, waitFor, work, signal>>
  BY DEF NewAgent, NewGC, NewLocalVolumeScheduler
<1>2. CASE NewAgent
  <2>1. pc = "newagent" /\ pc' = "newgc" /\ program = "agent"
    BY <1>2 DEF NewAgent, Inv, ProgramInv
  <2>2. NewAgentNeeds \subseteq ctx
    BY <2>1, ContextComplete DEF AfterSetup, Imported
  <2>3. exit' \in {exit, "fatal"}
    BY <1>2, <2>2 DEF NewAgent
  <2>4. ProgramInv' /\ RegistryInv' /\ ContextInv'
    BY <1>1, <2>1, SetupDone DEF AfterSetup
  <2>5. CacheInv' /\ WorkInv' /\ SignalInv'
    BY <1>1, <2>1, <2>3, CacheStays, WorkStays, SignalStays DEF work, BeforeWait
  <2> QED
    BY <2>4, <2>5 DEF Inv
<1>3. CASE NewGC
  <2>1. pc = "newgc" /\ pc' = "startinformers" /\ program = "agent"
    BY <1>3 DEF NewGC, Inv, ProgramInv
  <2>2. NewGCNeeds \subseteq ctx
    BY <2>1, ContextComplete DEF AfterSetup, Imported
  <2>3. exit' = exit
    BY <1>3, <2>2 DEF NewGC
  <2>4. ProgramInv' /\ RegistryInv' /\ ContextInv'
    BY <1>1, <2>1, SetupDone DEF AfterSetup
  <2>5. CacheInv' /\ WorkInv' /\ SignalInv'
    BY <1>1, <2>1, <2>3, CacheStays, WorkStays, SignalStays DEF work, BeforeWait
  <2> QED
    BY <2>4, <2>5 DEF Inv
<1>4. CASE NewLocalVolumeScheduler
  <2>1. pc = "newscheduler" /\ pc' = "serve" /\ program = "scheduler"
    BY <1>4 DEF NewLocalVolumeScheduler, Inv, ProgramInv
  <2>2. NewLocalVolumeSchedulerNeeds \subseteq ctx
    BY <2>1, ContextComplete DEF AfterSetup, Imported
  <2>3. exit' = exit
    BY <1>4, <2>2 DEF NewLocalVolumeScheduler
  <2>4. ProgramInv' /\ RegistryInv' /\ ContextInv'
    BY <1>1, <2>1, SetupDone DEF AfterSetup
  <2>5. CacheInv' /\ WorkInv' /\ SignalInv'
    BY <1>1, <2>1, <2>3, CacheStays, WorkStays, SignalStays DEF work, AfterWait
  <2> QED
    BY <2>4, <2>5 DEF Inv
<1> QED
  BY <1>2, <1>3, <1>4

LEMMA StartInformersInv ==
    ASSUME Inv, StartInformers
    PROVE  Inv'
<1>1. /\ pc = "startinformers" /\ pc' = "wait"
      /\ informer' = [i \in Informers |-> IF \E n \in DOMAIN list : list[n] = i THEN "running" ELSE informer[i]]
      /\ UNCHANGED <<setup, waitFor, controller, queue, busy, serving, signal, exit>>
  BY DEF StartInformers
<1>2. ProgramInv' /\ RegistryInv' /\ ContextInv'
  BY <1>1, SetupDone DEF AfterSetup
<1>3. CacheInv'
  <2>1. informer' \in [Informers -> {"created", "running", "synced", "stopped", "frozen"}]
    BY <1>1 DEF Inv, CacheInv
  <2>2. waitFor = 1 /\ waitFor \in 1 .. Len(list) + 1
    BY <1>1 DEF Inv, CacheInv, BeforeWait
  <2>3. 1 .. waitFor - 1 = {}
    BY <2>2
  <2> QED
    BY <1>1, <2>1, <2>2, <2>3 DEF CacheInv, setup, Informers, BeforeWait, AfterWait
<1>4. WorkInv' /\ SignalInv'
  BY <1>1, WorkStays, SignalStays
<1> QED
  BY <1>2, <1>3, <1>4 DEF Inv

\* The wait ends when every informer of the list, which is every informer, is settled.
LEMMA WaitForCacheSyncInv ==
    ASSUME Inv, WaitForCacheSync
    PROVE  Inv'
<1>1. /\ pc = "wait" /\ UNCHANGED <<setup, work, signal, exit>>
      /\ list \in Seq(Informers) /\ waitFor \in 1 .. Len(list) + 1
      /\ informer \in [Informers -> {"created", "running", "synced", "stopped", "frozen"}]
      /\ \A n \in 1 .. waitFor - 1 : Settled(list[n])
  BY Zenon DEF WaitForCacheSync, Inv, ContextInv, CacheInv
<1>2. Len(list) \in Nat
  BY <1>1
<1>3. CASE waitFor <= Len(list)
  <2>1. Settled(list[waitFor]) /\ waitFor' = waitFor + 1 /\ pc' = pc
    BY <1>3 DEF WaitForCacheSync, Settled
  <2>2. ProgramInv' /\ RegistryInv' /\ ContextInv'
    BY <1>1, <2>1, SetupStays
  <2>3. WorkInv' /\ SignalInv'
    BY <1>1, <2>1, WorkStays, SignalStays DEF work
  <2>4. CacheInv'
    <3>1. waitFor' \in 1 .. Len(list) + 1
      BY <1>1, <1>2, <1>3, <2>1
    <3>2. \A n \in 1 .. waitFor' - 1 : n \in 1 .. waitFor - 1 \/ n = waitFor
      BY <1>1, <1>2, <2>1
    <3>3. \A n \in 1 .. waitFor' - 1 : Settled(list[n])
      BY <1>1, <2>1, <3>2
    <3> QED
      BY Zenon, <1>1, <2>1, <3>1, <3>3 DEF CacheInv, Settled, setup, work, Informers, BeforeWait, AfterWait
  <2> QED
    BY <2>2, <2>3, <2>4 DEF Inv
<1>4. CASE ~(waitFor <= Len(list))
  <2>1. pc' = (IF program = "agent" THEN "startall" ELSE "newscheduler") /\ waitFor' = waitFor
    BY <1>4 DEF WaitForCacheSync
  <2>2. program \in {"agent", "scheduler"}
    BY LinkedFacts DEF Inv
  <2>3. ProgramInv' /\ RegistryInv' /\ ContextInv'
    BY <1>1, <2>1, <2>2, SetupDone DEF AfterSetup
  <2>4. WorkInv' /\ SignalInv'
    BY <1>1, <2>1, WorkStays, SignalStays DEF work
  <2>5. \A n \in 1 .. Len(list) : Settled(list[n])
    BY <1>1, <1>2, <1>4
  <2>6. ASSUME NEW x \in Informers PROVE Settled(x)
    <3>1. x \in Range(list)
      BY <1>1, ContextComplete DEF AfterSetup
    <3>2. Range(list) = {list[n] : n \in 1 .. Len(list)}
      BY <1>1, RangeEquality
    <3> QED
      BY <2>5, <3>1, <3>2
  <2>7. CacheInv'
    BY Zenon, <1>1, <2>1, <2>6 DEF CacheInv, Settled, setup, work, Informers, BeforeWait, AfterWait
  <2> QED
    BY <2>3, <2>4, <2>7 DEF Inv
<1> QED
  BY <1>3, <1>4

LEMMA StartAllInv ==
    ASSUME Inv, StartAll
    PROVE  Inv'
<1>1. /\ pc = "startall" /\ pc' = "done" /\ controller' = [c \in Controllers |-> "starting"]
      /\ UNCHANGED <<setup, waitFor, informer, queue, busy, serving, signal, exit>>
      /\ program = "agent"
  BY DEF StartAll, Inv, ProgramInv
<1>2. ProgramInv' /\ RegistryInv' /\ ContextInv'
  BY <1>1, SetupDone DEF AfterSetup
<1>3. CacheInv' /\ SignalInv'
  BY <1>1, CacheStays, SignalStays DEF AfterWait
<1>4. WorkInv'
  BY <1>1 DEF Inv, WorkInv
<1> QED
  BY <1>2, <1>3, <1>4 DEF Inv

\* The main goroutine ends the process.
LEMMA EndInv ==
    ASSUME Inv, StartInformersError \/ MainReturn
    PROVE  Inv'
<1>1. UNCHANGED <<setup, pc, waitFor, work, signal>> /\ exit' \in {"0", "fatal"}
  BY DEF StartInformersError, MainReturn
<1>2. ProgramInv' /\ RegistryInv' /\ ContextInv'
  BY <1>1, SetupStays
<1>3. CacheInv' /\ WorkInv' /\ SignalInv'
  BY <1>1, CacheStays, WorkStays, SignalStays DEF work
<1> QED
  BY <1>2, <1>3 DEF Inv

LEMMA ListenAndServeInv ==
    ASSUME Inv, ListenAndServe
    PROVE  Inv'
<1>1. /\ pc = "serve" /\ UNCHANGED <<setup, pc, waitFor, informer, controller, queue, busy, signal>>
      /\ exit' \in {exit, "fatal"}
  BY DEF ListenAndServe
<1>2. serving' \in BOOLEAN
  BY Zenon DEF ListenAndServe, Inv, WorkInv
<1>3. ProgramInv' /\ RegistryInv' /\ ContextInv'
  BY <1>1, SetupStays
<1>4. CacheInv' /\ SignalInv'
  BY <1>1, CacheStays, SignalStays
<1>5. WorkInv'
  BY <1>1, <1>2 DEF Inv, WorkInv
<1> QED
  BY <1>3, <1>4, <1>5 DEF Inv
-----------------------------------------------------------------------------
(* The other goroutines *)

LEMMA InformerInv ==
    ASSUME Inv, NEW i, InformerGoroutine(i)
    PROVE  Inv'
<1>1. /\ i \in Informers /\ UNCHANGED <<setup, pc, waitFor, controller, queue, busy, serving, signal, exit>>
      /\ \E state \in {"synced", "frozen", "stopped"} :
            /\ informer' = [informer EXCEPT ![i] = state]
            /\ informer[i] = "running" \/ (informer[i] = "synced" /\ state = "frozen")
  BY DEF InformerGoroutine, Sync, InformerStops
<1>2. ProgramInv' /\ RegistryInv' /\ ContextInv'
  BY <1>1, SetupStays
<1>3. WorkInv' /\ SignalInv'
  BY <1>1, WorkStays, SignalStays
<1>4. informer' \in [Informers -> {"created", "running", "synced", "stopped", "frozen"}]
  BY <1>1 DEF Inv, CacheInv
<1>5. \A j \in Informers : Settled(j) => Settled(j)'
  BY <1>1 DEF Inv, CacheInv, Settled
<1>6. list \in Seq(Informers) /\ waitFor \in 1 .. Len(list) + 1
  BY Zenon DEF Inv, ContextInv, CacheInv
<1>7. \A n \in 1 .. waitFor - 1 : list[n] \in Informers
  BY <1>6
<1>8. pc = "wait" => \A n \in 1 .. waitFor - 1 : informer'[list[n]] \in {"synced", "frozen"}
  BY <1>5, <1>7 DEF Inv, CacheInv, Settled
<1>9. pc \in AfterWait => \A j \in Informers : informer'[j] \in {"synced", "frozen"}
  BY <1>5 DEF Inv, CacheInv, Settled
<1>10. CacheInv'
  BY Zenon, <1>1, <1>4, <1>8, <1>9 DEF Inv, CacheInv, Settled, setup, Informers
<1> QED
  BY <1>2, <1>3, <1>10 DEF Inv

\* Workers begin after their controller was started, and there are Threads of them.
LEMMA ControllerInv ==
    ASSUME Inv, NEW c \in Controllers, Event(c) \/ ControllerGoroutine(c)
    PROVE  Inv'
<1>1. UNCHANGED <<setup, pc, waitFor, informer, serving, signal, exit>>
  BY Zenon DEF Event, ControllerGoroutine, RunController, BeginReconcile, EndReconcile
<1>2. ProgramInv' /\ RegistryInv' /\ ContextInv'
  BY <1>1, SetupStays
<1>3. CacheInv' /\ SignalInv'
  BY <1>1, CacheStays, SignalStays
<1>4. /\ queue[c] \in 0 .. MaxQueue /\ busy[c] \in 0 .. Threads /\ MaxQueue \in Nat /\ Threads \in Nat
      /\ controller \in [Controllers -> {"none", "starting", "running", "draining", "ended"}]
      /\ queue \in [Controllers -> 0 .. MaxQueue] /\ busy \in [Controllers -> 0 .. Threads]
  BY BoundsAssumption DEF BoundsAssumption, Inv, WorkInv
<1>5. WorkInv'
  <2>1. CASE Event(c)
    <3>1. queue' \in [Controllers -> 0 .. MaxQueue]
      BY <1>4, <2>1 DEF Event
    <3> QED
      BY <1>1, <2>1, <3>1 DEF Event, Inv, WorkInv
  <2>2. CASE RunController(c)
    <3>1. controller' \in [Controllers -> {"none", "starting", "running", "draining", "ended"}]
      BY Zenon, <1>4, <2>2 DEF RunController
    <3>2. controller[c] # "none" /\ UNCHANGED <<queue, busy>>
      BY Zenon, <2>2 DEF RunController
    <3>3. pc = "done"
      BY <3>2 DEF Inv, WorkInv
    <3> QED
      BY <1>1, <3>1, <3>2, <3>3 DEF Inv, WorkInv
  <2>3. CASE BeginReconcile(c)
    <3>1. queue' \in [Controllers -> 0 .. MaxQueue] /\ busy' \in [Controllers -> 0 .. Threads]
      BY <1>4, <2>3 DEF BeginReconcile
    <3>2. controller[c] # "none" /\ controller' = controller
      BY <2>3 DEF BeginReconcile
    <3>3. pc = "done"
      BY <3>2 DEF Inv, WorkInv
    <3> QED
      BY <1>1, <3>1, <3>2, <3>3 DEF Inv, WorkInv
  <2>4. CASE EndReconcile(c)
    <3>1. busy' \in [Controllers -> 0 .. Threads]
      BY <1>4, <2>4 DEF EndReconcile
    <3>2. busy[c] # 0 /\ UNCHANGED <<controller, queue>>
      BY <1>4, <2>4 DEF EndReconcile
    <3>3. pc = "done"
      BY <3>2 DEF Inv, WorkInv
    <3> QED
      BY <1>1, <3>1, <3>2, <3>3 DEF Inv, WorkInv
  <2> QED
    BY <2>1, <2>2, <2>3, <2>4 DEF ControllerGoroutine
<1> QED
  BY <1>2, <1>3, <1>5 DEF Inv

LEMMA SignalsInv ==
    ASSUME Inv, Signal \/ SignalHandler
    PROVE  Inv'
<1>1. UNCHANGED <<setup, pc, waitFor, work>>
  BY DEF Signal, SignalHandler
<1>2. ProgramInv' /\ RegistryInv' /\ ContextInv'
  BY <1>1, SetupStays
<1>3. CacheInv' /\ WorkInv'
  BY <1>1, CacheStays, WorkStays DEF work
<1>4. MaxSignals \in Nat
  BY BoundsAssumption DEF BoundsAssumption
<1>5. stop' \in BOOLEAN
  BY Zenon DEF Signal, SignalHandler, Inv, SignalInv
<1>6. sent' \in 0 .. MaxSignals /\ pending' \in 0 .. 2
  BY <1>4 DEF Signal, SignalHandler, Inv, SignalInv
<1>7. handler' \in {"none", "first", "second"} /\ exit' \in {"none", "0", "1", "fatal", "killed"}
  BY DEF Signal, SignalHandler, Inv, SignalInv
<1>8. SignalInv'
  BY <1>5, <1>6, <1>7 DEF SignalInv
<1> QED
  BY <1>2, <1>3, <1>8 DEF Inv
-----------------------------------------------------------------------------
LEMMA StutterInv == Inv /\ UNCHANGED vars => Inv'
<1> SUFFICES ASSUME Inv, UNCHANGED vars PROVE Inv'
  OBVIOUS
<1>1. ProgramInv' /\ RegistryInv' /\ ContextInv'
  BY SetupStays DEF vars
<1>2. CacheInv' /\ WorkInv' /\ SignalInv'
  BY CacheStays, WorkStays, SignalStays DEF vars, work
<1> QED
  BY <1>1, <1>2 DEF Inv

LEMMA NextInv == Inv /\ [Next]_vars => Inv'
<1> SUFFICES ASSUME Inv, [Next]_vars PROVE Inv'
  OBVIOUS
<1>1. CASE MainGoroutine
  BY <1>1, RegisterInv, MainInv, NewContextInv, InjectInv, SetUpInv, ConstructorsInv, StartInformersInv,
     WaitForCacheSyncInv, StartAllInv, EndInv, ListenAndServeInv DEF MainGoroutine
<1>2. CASE \E i \in InformerKeys : InformerGoroutine(i)
  BY <1>2, InformerInv
<1>3. CASE \E c \in Controllers : Event(c) \/ ControllerGoroutine(c)
  BY <1>3, ControllerInv
<1>4. CASE Signal \/ SignalHandler
  BY <1>4, SignalsInv
<1>5. CASE UNCHANGED vars
  BY <1>5, StutterInv
<1> QED
  BY <1>1, <1>2, <1>3, <1>4, <1>5 DEF Next

\* Every reachable state is one that the start-up can have got to.
THEOREM Invariance == Spec => []Inv
  BY InitInv, NextInv, PTL DEF Spec

\* The state variables keep their types: among them that the context and the list
\* of informers hold only what is linked, and that at most Threads workers
\* of a controller are inside Reconcile.
THEOREM TypeCorrect == Spec => []TypeOK
<1>1. Inv => TypeOK
  <2> SUFFICES ASSUME Inv PROVE TypeOK
    OBVIOUS
  <2>1. \A k \in Kinds : \A n \in DOMAIN registry[k] : registry[k][n] \in Linked
    BY DEF Inv, RegistryInv
  <2>2. list \in Seq(Informers)
    BY DEF Inv, ContextInv
  <2>3. \A n \in DOMAIN list : list[n] \in Informers
    BY <2>2
  <2>4. ctx \subseteq {i.key : i \in Linked}
    BY Zenon DEF Inv, ContextInv, LinkedKeys
  <2>5. /\ program \in Programs /\ env \in Environments
        /\ cfg \in [source : Sources \cup {"none"}, master : BOOLEAN]
        /\ pc \in {"init", "newcontext", "setup", "newagent", "newgc", "startinformers", "wait",
                   "startall", "done", "newscheduler", "serve"}
    BY DEF Inv, ProgramInv, AfterSetup
  <2>6. /\ waitFor \in 1 .. Len(list) + 1
        /\ informer \in [Informers -> {"created", "running", "synced", "stopped", "frozen"}]
    BY DEF Inv, CacheInv
  <2>7. /\ controller \in [Controllers -> {"none", "starting", "running", "draining", "ended"}]
        /\ queue \in [Controllers -> 0 .. MaxQueue]
        /\ busy \in [Controllers -> 0 .. Threads] /\ serving \in BOOLEAN
    BY DEF Inv, WorkInv
  <2>8. /\ stop \in BOOLEAN /\ sent \in 0 .. MaxSignals /\ pending \in 0 .. 2
        /\ handler \in {"none", "first", "second"}
        /\ exit \in {"none", "0", "1", "fatal", "panic", "killed"}
    BY DEF Inv, SignalInv
  <2> QED
    BY Zenon, <2>1, <2>3, <2>4, <2>5, <2>6, <2>7, <2>8 DEF TypeOK
<1> QED
  BY <1>1, Invariance, PTL

\* No Get of an injected value panics: SetupInformers runs the injectors by kind,
\* which serves each of them in whatever order Go initialised the packages,
\* and leaves in the context everything the constructors take from it.
THEOREM NothingPanics == Spec => []NeverPanics
<1>1. Inv => NeverPanics
  BY DEF Inv, SignalInv, NeverPanics
<1> QED
  BY <1>1, Invariance, PTL

\* Reconcile and the HTTP handlers read only caches that have had their first
\* list: StartInformers waits for every informer of the program before it returns,
\* and the workers and the server start after it, whenever signals come.
THEOREM CachesReadAfterSync == Spec => []ReadsSyncedCaches
<1>1. Inv => ReadsSyncedCaches
  <2> SUFFICES ASSUME Inv, serving \/ \E c \in Controllers : busy[c] > 0, NEW i \in Informers
               PROVE  informer[i] \in {"synced", "frozen"}
    BY DEF ReadsSyncedCaches
  <2>1. pc \in {"done", "serve"}
    BY DEF Inv, WorkInv
  <2> QED
    BY <2>1 DEF Inv, CacheInv, Settled, AfterWait
<1> QED
  BY <1>1, Invariance, PTL
=============================================================================
