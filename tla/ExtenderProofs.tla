--------------------------- MODULE ExtenderProofs ---------------------------
(***************************************************************************)
(* Proofs about the extender's handlers, for any number of requests, nodes *)
(* and sizes: whatever the caches become while a handler runs, its scores  *)
(* are in range and agree with predicates, and no request that could not   *)
(* be read is answered as if it had been carried out.  And about the       *)
(* cached objects the handlers share with the controller and the informer, *)
(* SharedCache (the instance C): no goroutine writes what another can      *)
(* reach, whatever the threads run.                                        *)
(***************************************************************************)
EXTENDS Extender, TLAPS

\* The functions from a part of S to V: what a handler knows of the nodes so far.
Partial(S, V) == UNION {[D -> V] : D \in SUBSET S}

Looks == [request : RequestSizes, free : FreeSizes]

Seen == Partial(Nodes, Looks)

\* 0 to MaxExtenderPriority.
ScoreRange == 0 .. 10

AnswerRecord ==
    [status : {0, 200, 400}, error : BOOLEAN, nodes : SUBSET Nodes,
     scores : Partial(Nodes, ScoreRange), victims : {{}}]

ConnRecord ==
    [pc : {"idle", "decode", "request", "free", "write", "ended"}, route : Routes, body : Bodies,
     todo : SUBSET Nodes, seen : Seen, request : RequestSizes, answer : AnswerRecord]

\* Nothing is answered before the body is decoded, and only a good body comes to
\* the loops over the nodes.
Progress(c) ==
    /\ c.pc = "decode" => c.answer = NoAnswer
    /\ c.pc \in {"request", "free", "write"} => c.body = "good"

\* Only priorities has scores, each of a node whose sizes it has looked up.
Scored(c) ==
    /\ c.route # "priorities" => DOMAIN c.answer.scores = {}
    /\ DOMAIN c.answer.scores \subseteq DOMAIN c.seen
    /\ \A n \in DOMAIN c.answer.scores :
          c.answer.scores[n] > 0 => Predicate(c.seen[n].request, c.seen[n].free)

Honest(c) ==
    c.pc = "ended" /\ c.body # "good" /\ c.route # "version" /\ c.answer.status = 200
        => c.answer.error

Sound(c) == c \in ConnRecord /\ Progress(c) /\ Scored(c) /\ Honest(c)

\* The inductive invariant.
Inv ==
    /\ size \in RequestSizes /\ free \in [Nodes -> FreeSizes]
    /\ DOMAIN conn = Requests /\ \A r \in Requests : Sound(conn[r])
-----------------------------------------------------------------------------
(* Partial functions and scores *)

\* The functions that With makes of seen and of scores.
WithIn(F, S, V) ==
    \A f \in F, n \in S, v \in V :
        /\ With(f, n, v) \in F
        /\ DOMAIN With(f, n, v) = DOMAIN f \cup {n} /\ With(f, n, v)[n] = v
        /\ \A m \in DOMAIN f \ {n} : With(f, n, v)[m] = f[m]

LEMMA WithFacts ==
    ASSUME NEW S, NEW V
    PROVE  WithIn(Partial(S, V), S, V)
<1> SUFFICES ASSUME NEW f \in Partial(S, V), NEW n \in S, NEW v \in V
             PROVE  /\ With(f, n, v) \in Partial(S, V)
                    /\ DOMAIN With(f, n, v) = DOMAIN f \cup {n} /\ With(f, n, v)[n] = v
                    /\ \A m \in DOMAIN f \ {n} : With(f, n, v)[m] = f[m]
  BY Zenon DEF WithIn
<1>1. PICK D \in SUBSET S : f \in [D -> V]
  BY DEF Partial
<1>2. With(f, n, v) \in [D \cup {n} -> V]
  BY <1>1 DEF With
<1>3. With(f, n, v) \in Partial(S, V)
  BY <1>2 DEF Partial
<1> QED
  BY <1>1, <1>3 DEF With

LEMMA EmptyPartial ==
    ASSUME NEW S, NEW V
    PROVE  <<>> \in Partial(S, V) /\ DOMAIN <<>> = {}
<1>1. <<>> \in [{} -> V] /\ DOMAIN <<>> = {}
  OBVIOUS
<1> QED
  BY <1>1 DEF Partial

LEMMA SizesAreNat ==
    /\ Word \in Nat /\ 0 \in RequestSizes
    /\ \A n \in RequestSizes \cup FreeSizes : n \in Nat /\ 2 * n < Word
  BY SizesAssumption DEF SizesAssumption

\* The scores prioritize may give are in kube-scheduler's range, and are positive
\* only on sizes with which predicate lets the node pass.
LEMMA ScoresFacts ==
    ASSUME NEW request \in RequestSizes, NEW freeSize \in FreeSizes,
           NEW s \in Scores(request, freeSize)
    PROVE  s \in 0 .. 10 /\ (s > 0 => Predicate(request, freeSize))
<1>1. /\ Word \in Nat /\ request \in Nat /\ freeSize \in Nat /\ 2 * freeSize < Word
  BY SizesAreNat
<1>2. CASE request = 0
  BY <1>2, <1>1 DEF Scores, RandInt64Range, Predicate
<1>3. CASE request # 0 /\ freeSize > request
  <2>1. Int64(freeSize) = freeSize
    BY <1>1 DEF Int64
  <2>2. Rem(freeSize, 10) = freeSize % 10 /\ freeSize % 10 \in 0 .. 9
    BY <1>1 DEF Rem
  <2>3. GetScoreByNodeLocalVolumeSize(freeSize) \in 0 .. 10
    BY <2>2 DEF GetScoreByNodeLocalVolumeSize
  <2>4. s = GetScoreByNodeLocalVolumeSize(freeSize)
    BY <1>1, <1>3, <2>1 DEF Scores
  <2> QED
    BY <1>1, <1>3, <2>3, <2>4 DEF Predicate
<1>4. CASE request # 0 /\ ~(freeSize > request)
  BY <1>4, <1>1 DEF Scores, Predicate
<1> QED
  BY <1>2, <1>3, <1>4
-----------------------------------------------------------------------------
(* The handlers *)

LEMMA NoRequestSound == NoAnswer \in AnswerRecord /\ Sound(NoRequest)
<1>1. NoAnswer \in AnswerRecord
  BY EmptyPartial DEF NoAnswer, AnswerRecord
<1>2. NoRequest \in ConnRecord
  BY <1>1, EmptyPartial, SizesAreNat DEF NoRequest, ConnRecord, Seen, Routes, Bodies
<1> QED
  BY <1>1, <1>2, EmptyPartial DEF Sound, Progress, Scored, Honest, NoRequest, NoAnswer

\* One request is replaced by a sound one; the caches stay.
LEMMA SetSound ==
    ASSUME Inv, NEW r \in Requests, NEW c, Sound(c), Set(r, c), UNCHANGED <<size, free>>
    PROVE  Inv'
  BY DEF Inv, Set

LEMMA ReceiveStep ==
    ASSUME Inv, NEW r \in Requests, NEW route \in Routes, NEW body \in Bodies, Receive(r, route, body)
    PROVE  Inv'
<1> DEFINE c == [NoRequest EXCEPT !.pc = "decode", !.route = route, !.body = body]
<1>1. /\ c \in ConnRecord /\ c.pc = "decode" /\ c.answer = NoAnswer /\ c.seen = NoRequest.seen
  BY Zenon, NoRequestSound DEF Sound, ConnRecord, NoRequest
<1>2. DOMAIN NoAnswer.scores = {}
  BY EmptyPartial DEF NoAnswer
<1>3. Sound(c)
  <2> HIDE DEF c
  <2> QED
    BY <1>1, <1>2 DEF Sound, Progress, Scored, Honest
<1> QED
  BY <1>3, SetSound DEF Receive

\* A handler that ends at once, with an answer that has no scores.
LEMMA AnswerSound ==
    ASSUME NEW c, Sound(c), NEW a \in AnswerRecord, DOMAIN a.scores = {},
           c.body # "good" /\ c.route # "version" /\ a.status = 200 => a.error
    PROVE  Sound(Answer(c, a))
<1> DEFINE d == Answer(c, a)
<1>1. /\ d \in ConnRecord /\ d.pc = "ended" /\ d.answer = a
      /\ d.body = c.body /\ d.route = c.route /\ d.seen = c.seen
  BY Zenon DEF Sound, ConnRecord, Answer
<1> HIDE DEF d
<1>2. Sound(d)
  BY <1>1 DEF Sound, Progress, Scored, Honest
<1> QED
  BY <1>2 DEF d

\* Nothing has been written when a handler panics in decoding.
LEMMA PanicSound ==
    ASSUME NEW c, Sound(c), c.pc = "decode"
    PROVE  Sound(Panic(c))
<1> DEFINE d == Panic(c)
<1>1. /\ d \in ConnRecord /\ d.pc = "ended" /\ d.answer = NoAnswer
      /\ d.body = c.body /\ d.route = c.route /\ d.seen = c.seen
  BY DEF Sound, ConnRecord, Panic, Progress
<1>2. NoAnswer.status = 0 /\ DOMAIN NoAnswer.scores = {}
  BY EmptyPartial DEF NoAnswer
<1> HIDE DEF d
<1>3. Sound(d)
  BY <1>1, <1>2 DEF Sound, Progress, Scored, Honest
<1> QED
  BY <1>3 DEF d

LEMMA OkFacts ==
    /\ Ok \in AnswerRecord /\ DOMAIN Ok.scores = {} /\ Ok.status = 200
    /\ \A e \in BOOLEAN : LET a == [Ok EXCEPT !.error = e]
                          IN a \in AnswerRecord /\ DOMAIN a.scores = {} /\ a.error = e
<1>1. Ok \in AnswerRecord /\ Ok.scores = <<>> /\ Ok.status = 200
  <2>1. NoAnswer \in AnswerRecord /\ NoAnswer.scores = <<>>
    BY NoRequestSound DEF NoAnswer
  <2> QED
    BY <2>1 DEF AnswerRecord, Ok
<1>2. ASSUME NEW e \in BOOLEAN
      PROVE  LET a == [Ok EXCEPT !.error = e]
             IN a \in AnswerRecord /\ a.scores = <<>> /\ a.error = e
  BY <1>1 DEF AnswerRecord
<1> QED
  BY <1>1, <1>2, EmptyPartial

LEMMA DecodeStep ==
    ASSUME Inv, NEW r \in Requests, Decode(r)
    PROVE  Inv'
<1> DEFINE c == conn[r]
<1>1. Sound(c) /\ c.pc = "decode" /\ c.body \in Bodies /\ size \in RequestSizes
  BY DEF Inv, Decode, Sound, ConnRecord
<1> HIDE DEF c
<1>2. c.route = "predicates" => Sound(PredicateRoute(c))
  <2>1. CASE c.body = "garbled"
    BY Zenon, <1>1, <2>1, OkFacts, AnswerSound DEF PredicateRoute
  <2>2. CASE c.body = "empty"
    BY <1>1, <2>2, PanicSound DEF PredicateRoute
  <2>3. CASE c.body = "good"
    <3> DEFINE d == [c EXCEPT !.pc = "request", !.todo = Nodes]
    <3>1. /\ d \in ConnRecord /\ d.pc = "request" /\ d.body = "good"
          /\ d.answer = c.answer /\ d.route = c.route /\ d.seen = c.seen
      BY Zenon, <1>1, <2>3 DEF Sound, ConnRecord
    <3>2. PredicateRoute(c) = d
      BY <2>3 DEF PredicateRoute
    <3> HIDE DEF d
    <3> QED
      BY <1>1, <3>1, <3>2 DEF Sound, Progress, Scored, Honest
  <2> QED
    BY <1>1, <2>1, <2>2, <2>3 DEF Bodies
<1>3. c.route = "priorities" => Sound(PrioritizeRoute(c))
  <2>1. CASE c.body # "good"
    BY <1>1, <2>1, PanicSound DEF PrioritizeRoute
  <2>2. CASE c.body = "good"
    <3> DEFINE d == [c EXCEPT !.pc = "free", !.todo = Nodes, !.request = size]
    <3>1. /\ d \in ConnRecord /\ d.pc = "free" /\ d.body = "good"
          /\ d.answer = c.answer /\ d.route = c.route /\ d.seen = c.seen
      BY Zenon, <1>1, <2>2 DEF Sound, ConnRecord
    <3>2. PrioritizeRoute(c) = d
      BY <2>2 DEF PrioritizeRoute
    <3> HIDE DEF d
    <3> QED
      BY <1>1, <3>1, <3>2 DEF Sound, Progress, Scored, Honest
  <2> QED
    BY <2>1, <2>2
<1>4. ASSUME NEW fails \in BOOLEAN PROVE Sound(BindRoute(c, fails))
  BY Zenon, <1>1, OkFacts, AnswerSound DEF BindRoute
<1>5. c.route = "preemption" => Sound(PreemptionRoute(c))
  <2>1. CASE c.body = "garbled"
    <3> DEFINE a == [NoAnswer EXCEPT !.status = 400]
    <3>1. a \in AnswerRecord /\ a.scores = NoAnswer.scores /\ a.status = 400
      BY NoRequestSound DEF AnswerRecord
    <3> HIDE DEF a
    <3>2. DOMAIN a.scores = {}
      BY <3>1, EmptyPartial DEF NoAnswer
    <3>3. Sound(Answer(c, a))
      BY <1>1, <3>1, <3>2, AnswerSound
    <3> QED
      BY <2>1, <3>3 DEF PreemptionRoute, a
  <2>2. CASE c.body = "empty"
    BY <1>1, <2>2, PanicSound DEF PreemptionRoute
  <2>3. CASE c.body = "good"
    <3>1. [Ok EXCEPT !.victims = Preemption] = Ok
      <4>1. Ok \in AnswerRecord /\ Ok.victims = {}
        BY OkFacts DEF AnswerRecord
      <4> QED
        BY <4>1 DEF AnswerRecord, Preemption
    <3> QED
      BY <1>1, <2>3, <3>1, OkFacts, AnswerSound DEF PreemptionRoute
  <2> QED
    BY <1>1, <2>1, <2>2, <2>3 DEF Bodies
<1>6. c.route = "version" => Sound(VersionRoute(c))
  BY <1>1, OkFacts, AnswerSound DEF VersionRoute
<1> QED
  BY <1>2, <1>3, <1>4, <1>5, <1>6, SetSound DEF Decode, c

LEMMA GetRequestSizeStep ==
    ASSUME Inv, NEW r \in Requests, GetRequestSize(r)
    PROVE  Inv'
<1> DEFINE c == conn[r]
           d == [c EXCEPT !.pc = "free", !.request = size]
<1>1. Sound(c) /\ c.pc = "request" /\ size \in RequestSizes
  BY DEF Inv, GetRequestSize
<1>2. /\ d \in ConnRecord /\ d.pc = "free" /\ d.body = c.body
      /\ d.answer = c.answer /\ d.route = c.route /\ d.seen = c.seen
  BY Zenon, <1>1 DEF Sound, ConnRecord
<1>3. Sound(d)
  <2> HIDE DEF c, d
  <2> QED
    BY <1>1, <1>2 DEF Sound, Progress, Scored, Honest
<1> QED
  BY <1>3, SetSound DEF GetRequestSize

\* What a look at a node leaves in the request, whatever the answer becomes.
Looked(c, n) ==
    [c EXCEPT !.todo = @ \ {n}, !.seen = With(@, n, [request |-> c.request, free |-> free[n]])]

LEMMA LookedFacts ==
    ASSUME Inv, NEW c, Sound(c), NEW n \in Nodes
    PROVE  LET d == Looked(c, n) IN
           /\ d \in ConnRecord /\ d.pc = c.pc /\ d.route = c.route /\ d.body = c.body
           /\ d.answer = c.answer /\ DOMAIN d.seen = DOMAIN c.seen \cup {n}
           /\ d.seen[n].request = c.request /\ d.seen[n].free = free[n]
           /\ \A m \in DOMAIN c.seen \ {n} : d.seen[m] = c.seen[m]
<1> DEFINE v == [request |-> c.request, free |-> free[n]]
           s == With(c.seen, n, v)
           d == Looked(c, n)
<1>1. c \in ConnRecord /\ c.seen \in Seen /\ c.request \in RequestSizes /\ c.todo \in SUBSET Nodes
  BY DEF Sound, ConnRecord
<1>2. v \in Looks /\ v.request = c.request /\ v.free = free[n]
  BY <1>1 DEF Inv, Looks
<1> HIDE DEF v
<1>3. /\ s \in Seen /\ DOMAIN s = DOMAIN c.seen \cup {n} /\ s[n] = v
      /\ \A m \in DOMAIN c.seen \ {n} : s[m] = c.seen[m]
  <2>1. WithIn(Seen, Nodes, Looks)
    BY WithFacts DEF Seen
  <2> QED
    BY ZenonT(30), <1>1, <1>2, <2>1 DEF WithIn
<1>4. d = [[c EXCEPT !.todo = c.todo \ {n}] EXCEPT !.seen = s]
  <2> DEFINE b == [c EXCEPT !.todo = c.todo \ {n}]
  <2>1. b.seen = c.seen
    BY <1>1 DEF ConnRecord
  <2>2. d = [b EXCEPT !.seen = With(b.seen, n, v)]
    BY DEF Looked, v
  <2> QED
    BY <2>1, <2>2
<1> HIDE DEF s
<1>5. /\ d \in ConnRecord /\ d.pc = c.pc /\ d.route = c.route /\ d.body = c.body
      /\ d.answer = c.answer /\ d.seen = s
  BY Zenon, <1>1, <1>3, <1>4 DEF ConnRecord
<1> QED
  BY <1>2, <1>3, <1>5

LEMMA GetNodeFreeSizeStep ==
    ASSUME Inv, NEW r \in Requests, NEW n \in Nodes, GetNodeFreeSize(r, n)
    PROVE  Inv'
<1> DEFINE c == conn[r]
           d == Looked(c, n)
<1>1. Sound(c) /\ c.pc = "free" /\ free[n] \in FreeSizes /\ c.request \in RequestSizes
  BY Zenon DEF Inv, GetNodeFreeSize, Sound, ConnRecord
<1>2. /\ d \in ConnRecord /\ d.pc = c.pc /\ d.route = c.route /\ d.body = c.body
      /\ d.answer = c.answer /\ DOMAIN d.seen = DOMAIN c.seen \cup {n}
      /\ d.seen[n].request = c.request /\ d.seen[n].free = free[n]
      /\ \A m \in DOMAIN c.seen \ {n} : d.seen[m] = c.seen[m]
  BY <1>1, LookedFacts
<1>3. c.answer \in AnswerRecord /\ c.answer.scores \in Partial(Nodes, ScoreRange)
  BY <1>1 DEF Sound, ConnRecord, AnswerRecord
<1>4. CASE c.route = "predicates"
  <2> DEFINE ns == IF Predicate(c.request, free[n]) THEN c.answer.nodes \cup {n} ELSE c.answer.nodes
             pc == IF d.todo = {} THEN "write" ELSE "request"
             a == [c.answer EXCEPT !.nodes = ns]
             e == [[d EXCEPT !.pc = pc] EXCEPT !.answer = a]
  <2>1. ns \in SUBSET Nodes /\ pc \in {"write", "request"}
    BY <1>3 DEF AnswerRecord
  <2>2. Set(r, e) /\ UNCHANGED <<size, free>>
    BY <1>2, <1>4 DEF GetNodeFreeSize, Looked, ConnRecord
  <2> HIDE DEF ns, pc
  <2>3. a \in AnswerRecord /\ a.scores = c.answer.scores
    BY <1>3, <2>1 DEF AnswerRecord
  <2> HIDE DEF a, d
  <2>4. /\ e \in ConnRecord /\ e.pc = pc /\ e.answer = a
        /\ e.route = c.route /\ e.body = c.body /\ e.seen = d.seen
    BY Zenon, <1>2, <2>1, <2>3 DEF ConnRecord
  <2> HIDE DEF e
  <2>5. Sound(e)
    BY <1>1, <1>4, <2>1, <2>3, <2>4 DEF Sound, Progress, Scored, Honest
  <2> QED
    BY <2>2, <2>5, SetSound
<1>5. CASE c.route = "priorities"
  <2> DEFINE pc == IF d.todo = {} THEN "write" ELSE "free"
             A(s) == [c.answer EXCEPT !.scores = With(c.answer.scores, n, s)]
             E(s) == [[d EXCEPT !.pc = pc] EXCEPT !.answer = A(s)]
  <2>1. PICK s \in Scores(c.request, free[n]) : Set(r, E(s)) /\ UNCHANGED <<size, free>>
    BY Zenon, <1>2, <1>5 DEF GetNodeFreeSize, Looked, ConnRecord
  <2> DEFINE f == With(c.answer.scores, n, s)
             a == A(s)
             e == E(s)
  <2>2. s \in ScoreRange /\ (s > 0 => Predicate(c.request, free[n]))
    BY <1>1, ScoresFacts DEF ScoreRange
  <2>3. /\ f \in Partial(Nodes, ScoreRange) /\ DOMAIN f = DOMAIN c.answer.scores \cup {n} /\ f[n] = s
        /\ \A m \in DOMAIN c.answer.scores \ {n} : f[m] = c.answer.scores[m]
    <3>1. WithIn(Partial(Nodes, ScoreRange), Nodes, ScoreRange)
      BY WithFacts
    <3> DEFINE g == c.answer.scores
    <3>2. g \in Partial(Nodes, ScoreRange) /\ s \in ScoreRange
      BY <1>3, <2>2
    <3> HIDE DEF g
    <3>3. /\ With(g, n, s) \in Partial(Nodes, ScoreRange)
          /\ DOMAIN With(g, n, s) = DOMAIN g \cup {n} /\ With(g, n, s)[n] = s
          /\ \A m \in DOMAIN g \ {n} : With(g, n, s)[m] = g[m]
      BY <3>1, <3>2 DEF WithIn
    <3> QED
      BY <3>3 DEF g
  <2>4. pc \in {"write", "free"}
    OBVIOUS
  <2> HIDE DEF f, pc
  <2>5. a \in AnswerRecord /\ a.scores = f
    BY <1>3, <2>3 DEF AnswerRecord, f
  <2> HIDE DEF A, d
  <2>6. /\ e \in ConnRecord /\ e.pc = pc /\ e.answer = a
        /\ e.route = c.route /\ e.body = c.body /\ e.seen = d.seen
    BY Zenon, <1>2, <2>4, <2>5 DEF ConnRecord
  <2>7. Set(r, e) /\ UNCHANGED <<size, free>>
    BY <2>1
  <2> HIDE DEF E
  <2>8. Progress(e) /\ Honest(e)
    BY <1>1, <2>4, <2>6 DEF Sound, Progress, Honest
  <2>9. Scored(e)
    <3>1. DOMAIN c.answer.scores \subseteq DOMAIN c.seen
      BY <1>1 DEF Sound, Scored
    <3>2. ASSUME NEW m \in DOMAIN f, f[m] > 0
          PROVE  Predicate(d.seen[m].request, d.seen[m].free)
      <4>1. CASE m = n
        BY <4>1, <3>2, <1>2, <2>2, <2>3
      <4>2. CASE m # n
        <5>1. m \in DOMAIN c.answer.scores /\ f[m] = c.answer.scores[m] /\ d.seen[m] = c.seen[m]
          BY <4>2, <3>1, <3>2, <1>2, <2>3
        <5> QED
          BY <5>1, <3>2, <1>1 DEF Sound, Scored
      <4> QED
        BY <4>1, <4>2
    <3> QED
      BY <1>2, <1>5, <2>3, <2>5, <2>6, <3>1, <3>2 DEF Scored
  <2> QED
    BY <2>6, <2>7, <2>8, <2>9, SetSound DEF Sound
<1> QED
  BY Zenon, <1>4, <1>5 DEF GetNodeFreeSize

LEMMA WriteStep ==
    ASSUME Inv, NEW r \in Requests, Write(r)
    PROVE  Inv'
<1> DEFINE c == conn[r]
           a == [c.answer EXCEPT !.status = 200]
           d == [[c EXCEPT !.pc = "ended"] EXCEPT !.answer = a]
<1>1. Sound(c) /\ c.pc = "write" /\ c.body = "good" /\ c \in ConnRecord /\ c.answer \in AnswerRecord
  BY DEF Inv, Write, Sound, Progress, ConnRecord
<1>2. Set(r, d) /\ UNCHANGED <<size, free>>
  BY <1>1 DEF Write, ConnRecord
<1>3. a \in AnswerRecord /\ a.scores = c.answer.scores
  BY <1>1 DEF AnswerRecord
<1> HIDE DEF c, a
<1>4. /\ d \in ConnRecord /\ d.pc = "ended" /\ d.answer = a
      /\ d.route = c.route /\ d.body = c.body /\ d.seen = c.seen
  BY Zenon, <1>1, <1>3 DEF ConnRecord
<1> HIDE DEF d
<1>5. Sound(d)
  BY <1>1, <1>3, <1>4 DEF Sound, Progress, Scored, Honest
<1> QED
  BY <1>2, <1>5, SetSound
-----------------------------------------------------------------------------
(* The invariant *)

LEMMA InitInv == Init => Inv
  BY NoRequestSound DEF Init, Inv

LEMMA NextInv == Inv /\ [Next]_vars => Inv'
<1> SUFFICES ASSUME Inv, [Next]_vars PROVE Inv'
  OBVIOUS
<1>1. ASSUME NEW r \in Requests, NEW route \in Routes, NEW body \in Bodies, Receive(r, route, body)
      PROVE  Inv'
  BY <1>1, ReceiveStep
<1>2. ASSUME NEW r \in Requests, Handler(r) PROVE Inv'
  BY <1>2, DecodeStep, GetRequestSizeStep, GetNodeFreeSizeStep, WriteStep DEF Handler
<1>3. ASSUME NEW r \in Requests, Done(r) PROVE Inv'
  BY <1>3, NoRequestSound, SetSound DEF Done
<1>4. ASSUME NEW s \in RequestSizes, CacheClaim(s) PROVE Inv'
  BY <1>4 DEF CacheClaim, Inv
<1>5. ASSUME NEW n \in Nodes, NEW s \in FreeSizes, CacheLocalVolume(n, s) PROVE Inv'
  BY <1>5 DEF CacheLocalVolume, Inv
<1>6. CASE UNCHANGED vars
  BY <1>6 DEF vars, Inv
<1> QED
  BY <1>1, <1>2, <1>3, <1>4, <1>5, <1>6 DEF Next

LEMMA InvMeans == Inv => ScoreInRange /\ PreferredFits /\ NoFalseSuccess
<1> SUFFICES ASSUME Inv, NEW r \in Requests
             PROVE  LET c == conn[r] IN
                    /\ \A n \in DOMAIN c.answer.scores : c.answer.scores[n] \in 0 .. 10
                    /\ Scored(c) /\ Honest(c)
  BY DEF ScoreInRange, PreferredFits, NoFalseSuccess, Scored, Honest
<1> DEFINE g == conn[r].answer.scores
<1>1. Sound(conn[r])
  BY DEF Inv
<1>2. g \in Partial(Nodes, ScoreRange)
  BY <1>1 DEF Sound, ConnRecord, AnswerRecord
<1> HIDE DEF g
<1>3. \A n \in DOMAIN g : g[n] \in 0 .. 10
  BY <1>2 DEF Partial, ScoreRange
<1> QED
  BY <1>1, <1>3 DEF Sound, g

\* The scores of priorities stay between 0 and MaxExtenderPriority: the free size
\* is below 2^63, so that int64 keeps its sign and the remainder is 0 to 9.
THEOREM ScoresStayInRange == Spec => []ScoreInRange
  BY InitInv, NextInv, InvMeans, PTL DEF Spec

\* A node that priorities prefers is one that predicates lets pass on the sizes
\* priorities saw, although the caches change between the looks at two nodes.
THEOREM PreferredNodesFit == Spec => []PreferredFits
  BY InitInv, NextInv, InvMeans, PTL DEF Spec

\* No handler answers a body it could not use as if it had done what was asked:
\* predicates and bind answer an error, preemption a status, and the others panic.
THEOREM NoRequestFalselyDone == Spec => []NoFalseSuccess
  BY InitInv, NextInv, InvMeans, PTL DEF Spec
----------------------------------------------------------------------------
(* The cached LocalVolumes, which the handlers share with the controller *)

CONSTANTS Threads, Ops, Keys, BindKey, Refs, Nil, MaxVersion
VARIABLES versions, version, heap, cache, pc, object, copy, todo, seen

C == INSTANCE SharedCache

\* The object o holds what the server stored under its version, with the heap h
\* and the n versions vs.
Stored(o, h, vs, n) ==
    o # C!NoObject =>
        /\ o.version \in 1 .. n
        /\ vs[o.version] = IF o.map = Nil THEN {} ELSE h[o.map]

\* A thread's copy has a map of its own.
OwnMap(t) ==
    copy[t].map # Nil =>
        /\ copy[t].map # cache.map
        /\ \A u \in Threads : copy[t].map # object[u].map /\ (u # t => copy[t].map # copy[u].map)

CacheInv ==
    /\ Stored(cache, heap, versions, version)
    /\ \A t \in Threads : Stored(object[t], heap, versions, version)

OwnInv == \A t \in Threads : OwnMap(t)

\* A busy thread has an object, and a reader has come to what it has not yet to
\* come to.
ReadInv ==
    \A t \in Threads :
        /\ pc[t] # "idle" => object[t] # C!NoObject
        /\ pc[t] = "read" => seen[t] \cup todo[t] = versions[object[t].version]

SharedInv == C!TypeOK /\ CacheInv /\ OwnInv /\ ReadInv /\ C!NoNilMapWrite

LEMMA NoObjectFacts ==
    ASSUME C!BoundsAssumption
    PROVE  C!NoObject \in C!Objects /\ C!NoObject.map = Nil /\ C!NoObject.version = 0
  BY C!BoundsAssumption DEF C!BoundsAssumption, C!NoObject, C!Objects

LEMMA SharedInit ==
    ASSUME C!BoundsAssumption
    PROVE  C!Init => SharedInv
<1> SUFFICES ASSUME C!Init PROVE SharedInv
  OBVIOUS
<1>1. C!TypeOK
  BY NoObjectFacts, C!BoundsAssumption DEF C!BoundsAssumption, C!Init, C!TypeOK
<1>2. CacheInv /\ ReadInv /\ C!NoNilMapWrite
  BY DEF C!Init, CacheInv, Stored, ReadInv, C!NoNilMapWrite
<1>3. OwnInv
  BY NoObjectFacts DEF C!Init, OwnInv, OwnMap
<1> QED
  BY <1>1, <1>2, <1>3 DEF SharedInv

----------------------------------------------------------------------------
(* What a stored version and a change of the heap do to the objects *)

LEMMA StoreFacts ==
    ASSUME C!BoundsAssumption, C!TypeOK, NEW keys \in SUBSET Keys, C!Store(keys)
    PROVE  /\ version' \in 0 .. MaxVersion /\ versions' \in [1 .. MaxVersion -> SUBSET Keys]
           /\ version' > version
           /\ \A v \in 1 .. version : versions'[v] = versions[v]
<1>1. version \in Nat /\ version < MaxVersion /\ MaxVersion \in Nat
  BY C!BoundsAssumption DEF C!BoundsAssumption, C!TypeOK, C!Store
<1>2. version' = version + 1 /\ versions' = [versions EXCEPT ![version + 1] = keys]
  BY DEF C!Store
<1>3. version + 1 \in 1 .. MaxVersion
  BY <1>1
<1>4. versions \in [1 .. MaxVersion -> SUBSET Keys]
  BY DEF C!TypeOK
<1>5. versions' \in [1 .. MaxVersion -> SUBSET Keys]
  BY <1>2, <1>3, <1>4
<1>6. \A v \in 1 .. version : v \in 1 .. MaxVersion /\ v # version + 1
  BY <1>1
<1>7. \A v \in 1 .. version : versions'[v] = versions[v]
  BY <1>2, <1>4, <1>6
<1> QED
  BY <1>1, <1>2, <1>3, <1>5, <1>7

\* Objects stay what was stored while versions are only added, and while the heap
\* changes where no object has its map.
LEMMA StoredStays ==
    ASSUME NEW o \in C!Objects, NEW h, NEW g, NEW vs, NEW ws, NEW n \in Nat, NEW m \in Nat,
           Stored(o, h, vs, n), n <= m, \A v \in 1 .. n : ws[v] = vs[v],
           o.map # Nil => g[o.map] = h[o.map]
    PROVE  Stored(o, g, ws, m)
<1>1. CASE o = C!NoObject
  BY <1>1 DEF Stored
<1>2. CASE o # C!NoObject
  <2>1. o.version \in 1 .. n /\ vs[o.version] = IF o.map = Nil THEN {} ELSE h[o.map]
    BY <1>2 DEF Stored
  <2>2. o.version \in 1 .. m /\ ws[o.version] = vs[o.version]
    BY <2>1
  <2>3. vs[o.version] = IF o.map = Nil THEN {} ELSE g[o.map]
    BY <2>1
  <2> QED
    BY <2>2, <2>3 DEF Stored
<1> QED
  BY <1>1, <1>2

\* A step that leaves the objects and the threads alone and stores a version.
LEMMA StoreInv ==
    ASSUME C!BoundsAssumption, SharedInv, NEW keys \in SUBSET Keys, C!Store(keys),
           UNCHANGED <<heap, cache, pc, object, copy, todo, seen>>
    PROVE  SharedInv'
<1> USE DEF SharedInv
<1>1. version \in Nat /\ version' \in Nat /\ version <= version'
  BY StoreFacts DEF C!TypeOK
<1>2. C!TypeOK'
  BY StoreFacts DEF C!TypeOK
<1>3. \A v \in 1 .. version : versions'[v] = versions[v]
  BY StoreFacts
<1>4. ASSUME NEW o \in C!Objects, Stored(o, heap, versions, version)
      PROVE  Stored(o, heap', versions', version')
  BY Zenon, <1>1, <1>3, <1>4, StoredStays
<1>5. CacheInv'
  BY <1>4 DEF CacheInv, C!TypeOK
<1>6. OwnInv' /\ C!NoNilMapWrite'
  BY DEF OwnInv, OwnMap, C!NoNilMapWrite
<1>7. ReadInv'
  <2>1. \A t \in Threads : object[t] # C!NoObject => versions'[object[t].version] = versions[object[t].version]
    BY StoreFacts DEF CacheInv, Stored
  <2> QED
    BY <2>1 DEF ReadInv
<1> QED
  BY <1>2, <1>5, <1>6, <1>7

----------------------------------------------------------------------------
(* The informer *)

LEMMA FreeFacts ==
    ASSUME C!SetsAssumption, SharedInv, NEW r \in Refs \ C!Reachable
    PROVE  /\ r # cache.map /\ r # Nil
           /\ \A t \in Threads : r # object[t].map /\ r # copy[t].map
  BY C!SetsAssumption DEF C!SetsAssumption, C!Reachable

LEMMA HeapSet ==
    ASSUME SharedInv, NEW r \in Refs, NEW keys \in SUBSET Keys, heap' = [heap EXCEPT ![r] = keys]
    PROVE  /\ heap' \in [Refs -> SUBSET Keys] /\ heap'[r] = keys
           /\ \A o \in C!Objects : o.map # r /\ Stored(o, heap, versions, version)
                                  => Stored(o, heap', versions, version)
<1>1. heap \in [Refs -> SUBSET Keys]
  BY DEF SharedInv, C!TypeOK
<1>2. heap' \in [Refs -> SUBSET Keys] /\ heap'[r] = keys /\ \A q \in Refs \ {r} : heap'[q] = heap[q]
  BY <1>1
<1>3. ASSUME NEW o \in C!Objects, o.map # r, Stored(o, heap, versions, version)
      PROVE  Stored(o, heap', versions, version)
  <2>1. o.map # Nil => heap'[o.map] = heap[o.map]
    BY <1>2, <1>3 DEF C!Objects
  <2> QED
    BY <1>3, <2>1 DEF Stored
<1> QED
  BY Zenon, <1>2, <1>3

LEMMA CacheSetInv ==
    ASSUME C!SetsAssumption, C!BoundsAssumption, SharedInv, NEW v \in 1 .. MaxVersion, C!CacheSet(v)
    PROVE  SharedInv'
<1> USE DEF SharedInv
<1>1. v \in 1 .. version /\ versions[v] \in SUBSET Keys /\ v \in 0 .. MaxVersion /\ v # 0
  <2>1. v <= version /\ version \in 0 .. MaxVersion /\ versions \in [1 .. MaxVersion -> SUBSET Keys]
    BY DEF C!CacheSet, C!TypeOK
  <2> QED
    BY <2>1, C!BoundsAssumption DEF C!BoundsAssumption
<1>2. UNCHANGED <<versions, version, pc, object, copy, todo, seen>>
  BY DEF C!CacheSet
<1>3. CASE versions[v] = {}
  <2>1. cache' = [version |-> v, map |-> Nil] /\ UNCHANGED heap
    BY <1>3 DEF C!CacheSet
  <2>2. cache' \in C!Objects /\ cache'.version = v /\ cache'.map = Nil
    BY <1>1, <2>1 DEF C!Objects
  <2>3. C!TypeOK'
    BY <1>2, <2>1, <2>2 DEF C!TypeOK
  <2>4. CacheInv'
    BY <1>1, <1>2, <1>3, <2>1, <2>2 DEF CacheInv, Stored
  <2>5. OwnInv' /\ ReadInv' /\ C!NoNilMapWrite'
    BY <1>2, <2>2 DEF OwnInv, OwnMap, ReadInv, C!NoNilMapWrite
  <2> QED
    BY <2>3, <2>4, <2>5
<1>4. CASE versions[v] # {}
  <2>1. PICK r \in Refs \ C!Reachable : /\ heap' = [heap EXCEPT ![r] = versions[v]]
                                       /\ cache' = [version |-> v, map |-> r]
    BY <1>4 DEF C!CacheSet
  <2>2. cache' \in C!Objects /\ cache'.version = v /\ cache'.map = r /\ r # Nil
    BY <1>1, <2>1, C!SetsAssumption DEF C!SetsAssumption, C!Objects
  <2>3. /\ heap' \in [Refs -> SUBSET Keys] /\ heap'[r] = versions[v]
        /\ \A o \in C!Objects : o.map # r /\ Stored(o, heap, versions, version)
                               => Stored(o, heap', versions, version)
    BY Zenon, <1>1, <2>1, HeapSet
  <2>4. C!TypeOK'
    BY <1>2, <2>2, <2>3 DEF C!TypeOK
  <2>5. Stored(cache', heap', versions', version')
    BY <1>1, <1>2, <2>2, <2>3 DEF Stored
  <2>6. ASSUME NEW t \in Threads PROVE Stored(object[t], heap', versions, version)
    BY <2>3, FreeFacts DEF C!TypeOK, CacheInv
  <2>7. CacheInv'
    BY <1>2, <2>5, <2>6 DEF CacheInv
  <2>8. OwnInv'
    BY <1>2, <2>2, FreeFacts DEF OwnInv, OwnMap
  <2>9. ReadInv' /\ C!NoNilMapWrite'
    BY <1>2 DEF ReadInv, C!NoNilMapWrite
  <2> QED
    BY <2>4, <2>7, <2>8, <2>9
<1> QED
  BY <1>3, <1>4

----------------------------------------------------------------------------
(* The threads *)

\* Nothing changes but the thread t, which has an object and no other copy.
Others(t) ==
    \A u \in Threads \ {t} :
        /\ pc'[u] = pc[u] /\ object'[u] = object[u] /\ copy'[u] = copy[u]
        /\ todo'[u] = todo[u] /\ seen'[u] = seen[u]

\* One thread steps and nothing that is shared changes.
LEMMA ThreadInv ==
    ASSUME C!BoundsAssumption, SharedInv, NEW t \in Threads, UNCHANGED <<versions, version, heap, cache>>, Others(t), C!TypeOK',
           object'[t] \in {object[t], cache, C!NoObject},
           copy'[t].map \in {copy[t].map, Nil},
           pc'[t] # "idle" => object'[t] # C!NoObject,
           pc'[t] = "read" => seen'[t] \cup todo'[t] = versions[object'[t].version],
           pc'[t] = "add" => copy'[t].map # Nil
    PROVE  SharedInv'
<1> USE DEF SharedInv
<1>1. CacheInv'
  <2>1. ASSUME NEW u \in Threads PROVE Stored(object'[u], heap, versions, version)
    <3>1. object'[u] \in {object[u], cache, C!NoObject}
      BY DEF Others
    <3>2. Stored(object[u], heap, versions, version) /\ Stored(cache, heap, versions, version)
      BY DEF CacheInv
    <3>3. Stored(C!NoObject, heap, versions, version)
      BY DEF Stored
    <3> QED
      BY Zenon, <3>1, <3>2, <3>3
  <2> QED
    BY <2>1 DEF CacheInv
<1>2. ASSUME NEW u \in Threads, copy'[u].map # Nil PROVE copy'[u].map = copy[u].map /\ OwnMap(u)
  BY <1>2 DEF Others, OwnInv
<1>3. ASSUME NEW w \in Threads
      PROVE  object'[w].map \in {object[w].map, cache.map, Nil} /\ copy'[w].map \in {copy[w].map, Nil}
  BY NoObjectFacts DEF Others
<1>4. OwnInv'
  <2>1. ASSUME NEW u \in Threads, copy'[u].map # Nil, NEW w \in Threads
        PROVE  copy[u].map # object'[w].map /\ (w # u => copy[u].map # copy'[w].map)
    <3>1. copy[u].map # Nil /\ OwnMap(u)
      BY SMTT(30), <1>2, <2>1
    <3> QED
      BY Zenon, <1>3, <3>1 DEF OwnMap
  <2>2. ASSUME NEW u \in Threads, copy'[u].map # Nil PROVE copy'[u].map = copy[u].map /\ copy[u].map # cache.map
    BY SMTT(30), <1>2, <2>2 DEF OwnMap
  <2> QED
    BY <2>1, <2>2 DEF OwnInv, OwnMap
<1>5. ReadInv'
  <2>1. ASSUME NEW u \in Threads \ {t}
        PROVE  /\ pc'[u] = pc[u] /\ object'[u] = object[u] /\ todo'[u] = todo[u] /\ seen'[u] = seen[u]
               /\ pc[u] # "idle" => object[u] # C!NoObject
               /\ pc[u] = "read" => seen[u] \cup todo[u] = versions[object[u].version]
    BY Zenon DEF Others, ReadInv
  <2> QED
    BY <2>1 DEF ReadInv
<1>6. C!NoNilMapWrite'
  BY Zenon DEF C!NoNilMapWrite, Others
<1> QED
  BY Zenon, <1>1, <1>4, <1>5, <1>6

LEMMA ListerGetInv ==
    ASSUME C!SetsAssumption, C!BoundsAssumption, SharedInv, NEW t \in Threads, NEW op \in Ops, C!ListerGet(t, op)
    PROVE  SharedInv'
<1> USE DEF SharedInv
<1>1. /\ object' = [object EXCEPT ![t] = cache] /\ todo' = [todo EXCEPT ![t] = C!KeysOf(cache.map)]
      /\ seen' = [seen EXCEPT ![t] = {}] /\ pc' = [pc EXCEPT ![t] = op]
      /\ UNCHANGED <<versions, version, heap, cache, copy>> /\ cache # C!NoObject
  BY DEF C!ListerGet, C!Goto
<1>2. op \in {"read", "bind", "reconcile"}
  BY C!SetsAssumption DEF C!SetsAssumption
<1>3. C!KeysOf(cache.map) \in SUBSET Keys /\ C!KeysOf(cache.map) = versions[cache.version]
  BY Zenon, <1>1 DEF C!KeysOf, C!TypeOK, C!Objects, CacheInv, Stored
<1>4. C!TypeOK'
  BY Zenon, <1>1, <1>2, <1>3 DEF C!TypeOK
<1>5. Others(t) /\ object'[t] = cache /\ pc'[t] = op /\ seen'[t] \cup todo'[t] = C!KeysOf(cache.map)
  BY <1>1 DEF C!TypeOK, Others
<1>6. pc'[t] # "add" /\ copy'[t].map = copy[t].map
  BY <1>1, <1>2, <1>5
<1> QED
  BY Zenon, <1>1, <1>3, <1>4, <1>5, <1>6, ThreadInv

LEMMA ReadKeyInv ==
    ASSUME C!BoundsAssumption, SharedInv, NEW t \in Threads, NEW k \in Keys, C!ReadKey(t, k)
    PROVE  SharedInv'
<1> USE DEF SharedInv
<1>1. /\ pc[t] = "read" /\ k \in todo[t]
      /\ todo' = [todo EXCEPT ![t] = todo[t] \ {k}]
      /\ UNCHANGED <<versions, version, heap, cache, pc, object, copy>>
  BY Zenon DEF C!ReadKey
<1>2. object[t] # C!NoObject /\ seen[t] \cup todo[t] = versions[object[t].version]
  BY <1>1 DEF ReadInv
<1>3. C!KeysOf(object[t].map) = versions[object[t].version]
  BY <1>2 DEF CacheInv, Stored, C!KeysOf
<1>4. seen' = [seen EXCEPT ![t] = seen[t] \cup {k}]
  <2>1. k \in C!KeysOf(object[t].map)
    BY Zenon, <1>1, <1>2, <1>3
  <2>2. seen' = [seen EXCEPT ![t] = IF k \in C!KeysOf(object[t].map) THEN seen[t] \cup {k} ELSE seen[t]]
    BY ONLY C!ReadKey(t, k) DEF C!ReadKey
  <2> QED
    BY ONLY <2>1, <2>2
<1>5. C!TypeOK'
  BY <1>1, <1>4 DEF C!TypeOK
<1>6. Others(t) /\ seen'[t] \cup todo'[t] = seen[t] \cup todo[t]
  BY <1>1, <1>4 DEF Others, C!TypeOK
<1> QED
  BY Zenon, <1>1, <1>2, <1>5, <1>6, ThreadInv

LEMMA ReturnInv ==
    ASSUME C!BoundsAssumption, SharedInv, NEW t \in Threads, C!ReadDone(t) \/ C!DeleteDone(t)
    PROVE  SharedInv'
<1> USE DEF SharedInv
<1>1. CASE C!ReadDone(t)
  <2>1. /\ object' = [object EXCEPT ![t] = C!NoObject] /\ pc' = [pc EXCEPT ![t] = "idle"]
        /\ UNCHANGED <<versions, version, heap, cache, copy, todo, seen>>
    BY Zenon, <1>1 DEF C!ReadDone, C!Goto
  <2>2. C!TypeOK' /\ Others(t) /\ pc'[t] = "idle" /\ object'[t] = C!NoObject
    BY Zenon, <2>1, NoObjectFacts DEF C!TypeOK, Others
  <2> QED
    BY Zenon, <2>1, <2>2, ThreadInv
<1>2. CASE C!DeleteDone(t)
  <2>1. /\ pc[t] = "delete" /\ pc' = [pc EXCEPT ![t] = "updatestatus"]
        /\ UNCHANGED <<versions, version, heap, cache, object, copy, todo, seen>>
    BY <1>2 DEF C!DeleteDone, C!Goto
  <2>2. C!TypeOK' /\ Others(t) /\ pc'[t] = "updatestatus"
    BY <2>1 DEF C!TypeOK, Others
  <2>3. object'[t] # C!NoObject
    BY Zenon, <2>1 DEF ReadInv
  <2> QED
    BY Zenon, <2>1, <2>2, <2>3, ThreadInv
<1> QED
  BY <1>1, <1>2

\* A thread that works on its copy goes on to the step label, with a map it has
\* just made or one of its own changed.
Label == {"makemap", "delete", "add", "updatestatus"}

LEMMA HeapInv ==
    ASSUME C!SetsAssumption, SharedInv, NEW t \in Threads, NEW r \in Refs, NEW keys \in SUBSET Keys, NEW c \in C!Objects,
           NEW label \in Label,
           r \notin C!Reachable \/ r = copy[t].map, c.map = r, pc[t] # "idle",
           heap' = [heap EXCEPT ![r] = keys], copy' = [copy EXCEPT ![t] = c],
           pc' = [pc EXCEPT ![t] = label],
           UNCHANGED <<versions, version, cache, object, todo, seen>>
    PROVE  SharedInv'
<1> USE DEF SharedInv
<1>1. r # Nil
  BY C!SetsAssumption DEF C!SetsAssumption
<1>2. r # cache.map /\ \A u \in Threads : r # object[u].map /\ (u # t => r # copy[u].map)
  BY Zenon, <1>1, FreeFacts DEF OwnInv, OwnMap
<1>3. /\ heap' \in [Refs -> SUBSET Keys]
      /\ \A o \in C!Objects : o.map # r /\ Stored(o, heap, versions, version)
                             => Stored(o, heap', versions, version)
  BY Zenon, HeapSet
<1>4. copy'[t] = c /\ pc'[t] = label /\ Others(t)
  BY DEF C!TypeOK, Others
<1>5. C!TypeOK'
  BY <1>3 DEF C!TypeOK, Label
<1>6. ASSUME NEW o \in {cache} \cup {object[u] : u \in Threads} PROVE Stored(o, heap', versions, version)
  <2>1. o \in C!Objects /\ o.map # r /\ Stored(o, heap, versions, version)
    BY <1>2 DEF C!TypeOK, CacheInv
  <2> QED
    BY ZenonT(30), <1>3, <2>1
<1>7. CacheInv'
  BY Zenon, <1>6 DEF CacheInv
<1>8. OwnInv'
  <2>1. OwnMap(t)'
    BY <1>1, <1>2, <1>4 DEF OwnMap, Others
  <2>2. ASSUME NEW u \in Threads \ {t} PROVE OwnMap(u)'
    <3>1. copy'[u] = copy[u] /\ r # copy[u].map /\ OwnMap(u)
      BY Zenon, <1>2, <1>4 DEF Others, OwnInv
    <3> QED
      BY <1>4, <3>1 DEF OwnMap, Others
  <2> QED
    BY <2>1, <2>2 DEF OwnInv
<1>9. ReadInv' /\ C!NoNilMapWrite'
  BY <1>1, <1>4 DEF ReadInv, C!NoNilMapWrite, Others, Label
<1> QED
  BY <1>5, <1>7, <1>8, <1>9

LEMMA DeepCopyInv ==
    ASSUME C!SetsAssumption, C!BoundsAssumption, SharedInv, NEW t \in Threads, C!DeepCopy(t)
    PROVE  SharedInv'
<1> DEFINE label == IF pc[t] = "bind" THEN "makemap" ELSE "delete"
<1>1. /\ pc[t] # "idle" /\ label \in {"makemap", "delete"} /\ pc' = [pc EXCEPT ![t] = label]
      /\ UNCHANGED <<versions, version, cache, object, todo, seen>> /\ C!DeepCopyInto(t)
  BY DEF C!DeepCopy, C!Goto
<1> HIDE DEF label
<1>2. object[t] \in C!Objects /\ object[t] # C!NoObject
  BY <1>1 DEF SharedInv, C!TypeOK, ReadInv
<1>3. CASE object[t].map = Nil
  <2>1. copy' = [copy EXCEPT ![t] = object[t]] /\ UNCHANGED heap
    BY <1>1, <1>3 DEF C!DeepCopyInto
  <2>2. C!TypeOK' /\ Others(t) /\ copy'[t].map = Nil /\ pc'[t] = label
    BY Zenon, <1>1, <1>2, <1>3, <2>1 DEF SharedInv, C!TypeOK, Others
  <2> QED
    BY Zenon, <1>1, <1>2, <2>1, <2>2, ThreadInv
<1>4. CASE object[t].map # Nil
  <2>1. PICK r \in Refs \ C!Reachable : /\ heap' = [heap EXCEPT ![r] = heap[object[t].map]]
                                       /\ copy' = [copy EXCEPT ![t] = [object[t] EXCEPT !.map = r]]
    BY <1>1, <1>4 DEF C!DeepCopyInto
  <2> DEFINE c == [object[t] EXCEPT !.map = r]
  <2>2. c \in C!Objects /\ c.map = r
    BY <1>2 DEF C!Objects
  <2>3. heap[object[t].map] \in SUBSET Keys
    BY <1>2, <1>4 DEF SharedInv, C!TypeOK, C!Objects
  <2>4. copy' = [copy EXCEPT ![t] = c]
    BY <2>1
  <2> HIDE DEF c
  <2> QED
    BY Zenon, <1>1, <2>1, <2>2, <2>3, <2>4, HeapInv DEF Label
<1> QED
  BY <1>3, <1>4

LEMMA MakeMapInv ==
    ASSUME C!SetsAssumption, C!BoundsAssumption, SharedInv, NEW t \in Threads, C!MakeMap(t)
    PROVE  SharedInv'
<1>1. /\ pc[t] = "makemap" /\ pc' = [pc EXCEPT ![t] = "add"]
      /\ UNCHANGED <<versions, version, cache, object, todo, seen>>
  BY DEF C!MakeMap, C!Goto
<1>2. copy[t] \in C!Objects /\ copy \in [Threads -> C!Objects] /\ object[t] # C!NoObject
  BY <1>1 DEF SharedInv, C!TypeOK, ReadInv
<1>3. CASE copy[t].map = Nil
  <2>1. PICK r \in Refs \ C!Reachable : heap' = [heap EXCEPT ![r] = {}] /\ copy' = [copy EXCEPT ![t].map = r]
    BY <1>3 DEF C!MakeMap
  <2> DEFINE c == [copy[t] EXCEPT !.map = r]
  <2>2. c \in C!Objects /\ c.map = r
    BY <1>2 DEF C!Objects
  <2>3. copy' = [copy EXCEPT ![t] = c]
    BY <1>2, <2>1
  <2> HIDE DEF c
  <2> QED
    BY Zenon, <1>1, <2>1, <2>2, <2>3, HeapInv DEF Label
<1>4. CASE copy[t].map # Nil
  <2>1. UNCHANGED <<heap, copy>>
    BY <1>4 DEF C!MakeMap
  <2>2. C!TypeOK' /\ Others(t) /\ pc'[t] = "add"
    BY <1>1, <2>1 DEF SharedInv, C!TypeOK, Others
  <2> QED
    BY Zenon, <1>1, <1>2, <1>4, <2>1, <2>2, ThreadInv
<1> QED
  BY <1>3, <1>4

LEMMA WriteInv ==
    ASSUME C!SetsAssumption, SharedInv, NEW t \in Threads, NEW k \in Keys, C!AddKey(t) \/ C!DeleteKey(t, k)
    PROVE  SharedInv'
<1> DEFINE r == copy[t].map
<1>1. r \in Refs /\ copy[t] \in C!Objects
  BY DEF SharedInv, C!TypeOK, C!Objects, C!NoNilMapWrite, C!AddKey, C!DeleteKey, C!KeysOf
<1>2. PICK keys \in SUBSET Keys, label \in Label :
         /\ pc[t] # "idle" /\ pc' = [pc EXCEPT ![t] = label]
         /\ heap' = [heap EXCEPT ![r] = keys]
         /\ UNCHANGED <<versions, version, cache, object, copy, todo, seen>>
  <2>1. CASE C!AddKey(t)
    <3>1. heap[r] \cup {BindKey} \in SUBSET Keys
      BY <1>1, C!SetsAssumption DEF C!SetsAssumption, SharedInv, C!TypeOK
    <3>2. heap' = [heap EXCEPT ![r] = heap[r] \cup {BindKey}]
      BY Zenon, <1>1, <2>1 DEF C!AddKey, SharedInv, C!TypeOK
    <3> QED
      BY Zenon, <2>1, <3>1, <3>2 DEF C!AddKey, C!Goto, Label
  <2>2. CASE C!DeleteKey(t, k)
    <3>1. heap[r] \ {k} \in SUBSET Keys
      BY <1>1 DEF SharedInv, C!TypeOK
    <3>2. heap' = [heap EXCEPT ![r] = heap[r] \ {k}]
      BY Zenon, <1>1, <2>2 DEF C!DeleteKey, SharedInv, C!TypeOK
    <3>3. pc' = [pc EXCEPT ![t] = "delete"]
      BY <2>2 DEF C!DeleteKey, SharedInv, C!TypeOK
    <3> QED
      BY Zenon, <2>2, <3>1, <3>2, <3>3 DEF C!DeleteKey, Label
  <2> QED
    BY <2>1, <2>2
<1>3. copy' = [copy EXCEPT ![t] = copy[t]]
  BY <1>2 DEF SharedInv, C!TypeOK
<1> QED
  BY Zenon, <1>1, <1>2, <1>3, HeapInv

LEMMA UpdateStatusInv ==
    ASSUME C!BoundsAssumption, SharedInv, NEW t \in Threads, C!UpdateStatus(t)
    PROVE  SharedInv'
<1> USE DEF SharedInv
<1>1. /\ object' = [object EXCEPT ![t] = C!NoObject] /\ copy' = [copy EXCEPT ![t] = C!NoObject]
      /\ pc' = [pc EXCEPT ![t] = "idle"] /\ UNCHANGED <<heap, cache, todo, seen>>
  BY DEF C!UpdateStatus, C!Goto
<1>2. Others(t) /\ object'[t] = C!NoObject /\ copy'[t] = C!NoObject /\ pc'[t] = "idle"
  BY <1>1 DEF C!TypeOK, Others
<1>3. CASE copy[t].version # version
  <2>1. UNCHANGED <<versions, version>>
    BY Zenon, <1>3 DEF C!UpdateStatus
  <2>2. C!TypeOK'
    BY Zenon, <1>1, <2>1, NoObjectFacts DEF C!TypeOK
  <2> QED
    BY Zenon, <1>1, <1>2, <2>1, <2>2, NoObjectFacts, ThreadInv
<1>4. CASE copy[t].version = version
  <2> DEFINE keys == C!KeysOf(copy[t].map)
  <2>1. keys \in SUBSET Keys
    BY DEF C!KeysOf, C!TypeOK, C!Objects
  <2>2. C!Store(keys)
    BY <1>4 DEF C!UpdateStatus
  <2> HIDE DEF keys
  <2>3. /\ version' \in 0 .. MaxVersion /\ versions' \in [1 .. MaxVersion -> SUBSET Keys]
        /\ version' > version /\ \A v \in 1 .. version : versions'[v] = versions[v]
    BY <2>1, <2>2, StoreFacts
  <2>4. version \in Nat /\ version' \in Nat /\ version <= version'
    BY <2>3 DEF C!TypeOK
  <2>5. C!TypeOK'
    BY <1>1, <2>3, NoObjectFacts DEF C!TypeOK
  <2>6. ASSUME NEW o \in C!Objects, Stored(o, heap, versions, version)
        PROVE  Stored(o, heap', versions', version')
    BY Zenon, <1>1, <2>3, <2>4, <2>6, StoredStays
  <2>7. CacheInv'
    <3>1. Stored(cache, heap', versions', version')
      BY <2>6 DEF CacheInv, C!TypeOK
    <3>2. ASSUME NEW u \in Threads \ {t} PROVE Stored(object'[u], heap', versions', version')
      <4>1. object'[u] = object[u] /\ object[u] \in C!Objects /\ Stored(object[u], heap, versions, version)
        BY Zenon, <1>2 DEF Others, CacheInv, C!TypeOK
      <4> QED
        BY Zenon, <2>6, <4>1
    <3>3. Stored(object'[t], heap', versions', version')
      BY Zenon, <1>2 DEF Stored
    <3> QED
      BY <1>1, <3>1, <3>2, <3>3 DEF CacheInv
  <2>8. OwnInv'
    <3>1. copy'[t].map = Nil /\ object'[t].map = Nil
      BY Zenon, <1>2, NoObjectFacts
    <3>2. ASSUME NEW u \in Threads \ {t} PROVE OwnMap(u)'
      <4>1. copy'[u] = copy[u] /\ OwnMap(u)
        BY Zenon, <1>2 DEF Others, OwnInv
      <4>2. ASSUME NEW w \in Threads \ {t} PROVE object'[w] = object[w] /\ copy'[w] = copy[w]
        BY <1>2 DEF Others
      <4> QED
        BY <1>1, <3>1, <4>1, <4>2 DEF OwnMap
    <3> QED
      BY Zenon, <3>1, <3>2 DEF OwnInv, OwnMap
  <2>9. ASSUME NEW u \in Threads \ {t}, object[u] # C!NoObject
        PROVE  versions'[object[u].version] = versions[object[u].version]
    BY Zenon, <2>3, <2>9 DEF CacheInv, Stored
  <2>10. ReadInv' /\ C!NoNilMapWrite'
    BY SMTT(30), <1>1, <1>2, <2>9 DEF ReadInv, C!NoNilMapWrite, Others
  <2> QED
    BY <2>5, <2>7, <2>8, <2>10
<1> QED
  BY <1>3, <1>4

LEMMA SharedNext ==
    ASSUME C!SetsAssumption, C!BoundsAssumption
    PROVE  SharedInv /\ [C!Next]_(C!vars) => SharedInv'
<1> SUFFICES ASSUME SharedInv, [C!Next]_(C!vars) PROVE SharedInv'
  OBVIOUS
<1>1. CASE C!Create
  BY <1>1, StoreInv DEF C!Create
<1>2. ASSUME NEW keys \in SUBSET Keys, C!OtherUpdateStatus(keys) PROVE SharedInv'
  BY <1>2, StoreInv DEF C!OtherUpdateStatus
<1>3. ASSUME NEW t \in Threads, C!Thread(t) PROVE SharedInv'
  BY Zenon, <1>3, ListerGetInv, ReadKeyInv, ReturnInv, DeepCopyInv, MakeMapInv, WriteInv, UpdateStatusInv,
     C!SetsAssumption DEF C!SetsAssumption, C!Thread
<1>4. CASE UNCHANGED C!vars
  <2> USE <1>4 DEF C!vars, SharedInv
  <2>1. C!TypeOK' /\ C!NoNilMapWrite'
    BY Zenon DEF C!TypeOK, C!NoNilMapWrite
  <2>2. CacheInv' /\ OwnInv' /\ ReadInv'
    BY Zenon DEF CacheInv, OwnInv, OwnMap, ReadInv, Stored
  <2> QED
    BY <2>1, <2>2
<1> QED
  BY <1>1, <1>2, <1>3, <1>4, CacheSetInv DEF C!Next

\* The inductive invariant: cached objects and the objects threads hold are what
\* the server stored, and the map of a copy belongs to its thread alone.
THEOREM SharedCacheInvariant ==
    ASSUME C!SetsAssumption, C!BoundsAssumption
    PROVE  C!Spec => []SharedInv
<1> QED
  BY SharedInit, SharedNext, PTL DEF C!Spec

\* bind and the agent's reconciler write only maps that no one else can reach,
\* for any number of goroutines, since DeepCopyInto makes a map of its own.
THEOREM WritesOwnMap ==
    ASSUME C!SetsAssumption, C!BoundsAssumption
    PROVE  C!Spec => []C!NoConcurrentMapWrite
<1>1. SharedInv => C!NoConcurrentMapWrite
  BY Zenon DEF SharedInv, OwnInv, OwnMap, C!NoConcurrentMapWrite
<1> QED
  BY <1>1, SharedCacheInvariant, PTL

\* bind never writes into a nil map.
THEOREM WritesMap ==
    ASSUME C!SetsAssumption, C!BoundsAssumption
    PROVE  C!Spec => []C!NoNilMapWrite
<1>1. SharedInv => C!NoNilMapWrite
  BY DEF SharedInv
<1> QED
  BY <1>1, SharedCacheInvariant, PTL

\* The cache shows what was stored: no refused or unsent change is seen in it.
THEOREM CacheStored ==
    ASSUME C!SetsAssumption, C!BoundsAssumption
    PROVE  C!Spec => []C!CacheIsStored
<1>1. SharedInv => C!CacheIsStored
  BY Zenon DEF SharedInv, CacheInv, Stored, C!CacheIsStored, C!KeysOf
<1> QED
  BY <1>1, SharedCacheInvariant, PTL

\* getNodeFreeSize adds up one stored version, whatever the informer and the
\* other goroutines do while it ranges over the map.
THEOREM ReadsOne ==
    ASSUME C!SetsAssumption, C!BoundsAssumption
    PROVE  C!Spec => []C!ReadsOneVersion
<1>1. SharedInv => C!ReadsOneVersion
  BY Zenon DEF SharedInv, ReadInv, C!ReadsOneVersion
<1> QED
  BY <1>1, SharedCacheInvariant, PTL
=============================================================================
