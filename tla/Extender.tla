------------------------------ MODULE Extender ------------------------------
(***************************************************************************)
(* The HTTP side of the scheduler extender: the routes, and the handlers   *)
(* of predicates, priorities and preemption, each request in a goroutine   *)
(* of its own.  A handler looks its sizes up in the informers' caches node *)
(* by node, so that the caches move on while it runs.  What bind does is   *)
(* in LocalVolume; here it succeeds or fails.                              *)
(*                                                                         *)
(* A handler that panics is recovered by net/http, which closes its        *)
(* connection; the process and the other requests go on.                   *)
(***************************************************************************)
EXTENDS Integers, FiniteSets

CONSTANTS
    Requests,       \* HTTP requests that may be on their way at the same time
    Nodes,          \* nodes kube-scheduler sends along
    RequestSizes,   \* what getPodLocalVolumeRequestSize may find, in GiB
    FreeSizes,      \* what getNodeFreeSize may find, in GiB
    Word            \* 2^64: sizes are uint64, scores int64

\* A free size is less than 2^63: LocalVolume shows that it does not wrap.
ASSUME SizesAssumption ==
    /\ Word \in Nat /\ 0 \in RequestSizes \cap FreeSizes
    /\ RequestSizes \cup FreeSizes \subseteq {n \in 0 .. Word - 1 : 2 * n < Word}

VARIABLES
    size,       \* the pod's request, from the cached claims
    free,       \* the free size of each node, from the cached LocalVolumes
    conn        \* the requests and what their handlers have come to

vars == <<size, free, conn>>

Routes == {"predicates", "priorities", "bind", "preemption", "version"}

\* A body that can be decoded may lack the pod and the nodes ("empty").
Bodies == {"good", "empty", "garbled"}

\* status 0: nothing written yet.  error: the answer says so itself.
NoAnswer == [status |-> 0, error |-> FALSE, nodes |-> {}, scores |-> <<>>, victims |-> {}]

NoRequest == [pc |-> "idle", route |-> "version", body |-> "good", todo |-> {}, seen |-> <<>>,
              request |-> 0, answer |-> NoAnswer]

Init ==
    /\ size \in RequestSizes
    /\ free \in [Nodes -> FreeSizes]
    /\ conn = [r \in Requests |-> NoRequest]

Set(r, c) == conn' = [conn EXCEPT ![r] = c]

\* f with another value for n.
With(f, n, v) == [m \in DOMAIN f \cup {n} |-> IF m = n THEN v ELSE f[m]]
-----------------------------------------------------------------------------
(* Scores *)

\* int64(x) of a uint64.
Int64(x) == IF 2 * x >= Word THEN x - Word ELSE x

\* The remainder of Go has the sign of the dividend.
Rem(x, y) == IF x < 0 THEN -((-x) % y) ELSE x % y

\* Mutant: the size itself is the score.
ScoreUnbounded(localvolumeSize) == IF localvolumeSize = 0 THEN 10 ELSE localvolumeSize

GetScoreByNodeLocalVolumeSize(localvolumeSize) ==
    IF Rem(localvolumeSize, 10) = 0 THEN 10 ELSE Rem(localvolumeSize, 10)

RandInt64Range(min, max) == IF min >= max \/ min = 0 \/ max = 0 THEN {max} ELSE min .. max - 1

\* Mutant: the sizes are compared the wrong way round.
ScoresSwapped(request, freeSize) ==
    IF request = 0 THEN RandInt64Range(1, IF freeSize = 0 THEN 10 ELSE 5)
    ELSE IF request > freeSize THEN {GetScoreByNodeLocalVolumeSize(Int64(freeSize))}
    ELSE {0}

\* The scores prioritize may give a node.
Scores(request, freeSize) ==
    IF request = 0 THEN RandInt64Range(1, IF freeSize = 0 THEN 10 ELSE 5)
    ELSE IF freeSize > request THEN {GetScoreByNodeLocalVolumeSize(Int64(freeSize))}
    ELSE {0}

Predicate(request, freeSize) == request = 0 \/ freeSize >= request
-----------------------------------------------------------------------------
(* Handlers *)

\* kube-scheduler sends a request.
Receive(r, route, body) ==
    /\ conn[r].pc = "idle"
    /\ Set(r, [NoRequest EXCEPT !.pc = "decode", !.route = route, !.body = body])
    /\ UNCHANGED <<size, free>>

Answer(c, a) == [c EXCEPT !.pc = "ended", !.answer = a]

Ok == [NoAnswer EXCEPT !.status = 200]

\* The handler panics before it has written anything.
Panic(c) == [c EXCEPT !.pc = "ended"]

\* PredicateRoute: a body that cannot be decoded is answered with the error; one
\* without nodes makes the handler panic.
PredicateRoute(c) ==
    CASE c.body = "garbled" -> Answer(c, [Ok EXCEPT !.error = TRUE])
      [] c.body = "empty"   -> Panic(c)
      [] c.body = "good"    -> [c EXCEPT !.pc = "request", !.todo = Nodes]

\* PrioritizeRoute panics on a body it cannot decode; the request size is looked
\* up once.
PrioritizeRoute(c) ==
    IF c.body = "good" THEN [c EXCEPT !.pc = "free", !.todo = Nodes, !.request = size] ELSE Panic(c)

\* Mutant: the error is not reported.
BindRouteSilent(c, fails) == Answer(c, Ok)

\* BindRoute: BindHandler reports its errors, a pod that is not found among them.
BindRoute(c, fails) ==
    Answer(c, [Ok EXCEPT !.error = fails \/ c.body # "good"])

\* preemption names no node and no victims, whatever it is given.
Preemption == {}

\* PreemptionRoute: the status of an error is written first, and stays.
PreemptionRoute(c) ==
    CASE c.body = "garbled" -> Answer(c, [NoAnswer EXCEPT !.status = 400])
      [] c.body = "empty"   -> Panic(c)
      [] c.body = "good"    -> Answer(c, [Ok EXCEPT !.victims = Preemption])

VersionRoute(c) == Answer(c, Ok)

Decode(r) ==
    LET c == conn[r] IN
    /\ c.pc = "decode"
    /\ \/ c.route = "predicates" /\ Set(r, PredicateRoute(c))
       \/ c.route = "priorities" /\ Set(r, PrioritizeRoute(c))
       \/ c.route = "bind" /\ \E fails \in BOOLEAN : Set(r, BindRoute(c, fails))
       \/ c.route = "preemption" /\ Set(r, PreemptionRoute(c))
       \/ c.route = "version" /\ Set(r, VersionRoute(c))
    /\ UNCHANGED <<size, free>>

\* predicate looks the request size up again for every node.
GetRequestSize(r) ==
    /\ conn[r].pc = "request"
    /\ Set(r, [conn[r] EXCEPT !.pc = "free", !.request = size])
    /\ UNCHANGED <<size, free>>

\* The free size of the next node, and predicate or prioritize on it.  A node that
\* does not fit is in neither list of the answer.
GetNodeFreeSize(r, n) ==
    LET c == conn[r]
        d == [c EXCEPT !.todo = @ \ {n}, !.seen = With(@, n, [request |-> c.request, free |-> free[n]])]
    IN
    /\ c.pc = "free" /\ n \in c.todo
    /\ \/ /\ c.route = "predicates"
          /\ Set(r, [d EXCEPT !.pc = IF d.todo = {} THEN "write" ELSE "request",
                              !.answer.nodes = IF Predicate(c.request, free[n]) THEN @ \cup {n} ELSE @])
       \/ /\ c.route = "priorities"
          /\ \E s \in Scores(c.request, free[n]) :
                Set(r, [d EXCEPT !.pc = IF d.todo = {} THEN "write" ELSE "free",
                                 !.answer.scores = With(@, n, s)])
    /\ UNCHANGED <<size, free>>

\* Mutant: the answer is not written.
WriteNever(r) ==
    /\ conn[r].pc = "write"
    /\ UNCHANGED vars

Write(r) ==
    /\ conn[r].pc = "write"
    /\ Set(r, [conn[r] EXCEPT !.pc = "ended", !.answer.status = 200])
    /\ UNCHANGED <<size, free>>

\* kube-scheduler has what it will get: an answer, or a closed connection.
Done(r) ==
    /\ conn[r].pc = "ended"
    /\ Set(r, NoRequest)
    /\ UNCHANGED <<size, free>>

\* The informers' caches change.
CacheClaim(s) ==
    /\ s # size /\ size' = s
    /\ UNCHANGED <<free, conn>>

CacheLocalVolume(n, s) ==
    /\ s # free[n] /\ free' = [free EXCEPT ![n] = s]
    /\ UNCHANGED <<size, conn>>
-----------------------------------------------------------------------------
Handler(r) ==
    \/ Decode(r) \/ GetRequestSize(r)
    \/ \E n \in Nodes : GetNodeFreeSize(r, n)
    \/ Write(r)

Next ==
    \/ \E r \in Requests, route \in Routes, body \in Bodies : Receive(r, route, body)
    \/ \E r \in Requests : Handler(r)
    \/ \E r \in Requests : Done(r)
    \/ \E s \in RequestSizes : CacheClaim(s)
    \/ \E n \in Nodes, s \in FreeSizes : CacheLocalVolume(n, s)

Spec == Init /\ [][Next]_vars

\* A goroutine goes on; it takes no lock another could hold for ever.
Fairness == \A r \in Requests : WF_vars(Handler(r))

FairSpec == Spec /\ Fairness
-----------------------------------------------------------------------------
\* Every score of a priorities answer is one that kube-scheduler may weigh and
\* add up: between 0 and MaxExtenderPriority.
ScoreInRange ==
    \A r \in Requests : \A n \in DOMAIN conn[r].answer.scores : conn[r].answer.scores[n] \in 0 .. 10

\* priorities and predicates agree: a node that is preferred to others for a pod
\* with local volumes is one that predicates lets pass on the same sizes,
\* whatever the caches become between the two requests.
PreferredFits ==
    \A r \in Requests : \A n \in DOMAIN conn[r].answer.scores :
        conn[r].answer.scores[n] > 0 => Predicate(conn[r].seen[n].request, conn[r].seen[n].free)

\* A request that the extender cannot make sense of is never answered as if it
\* had been carried out: kube-scheduler sees an error, a status of its own or a
\* closed connection, never "no node fits" or "bound".
NoFalseSuccess ==
    \A r \in Requests :
        /\ conn[r].pc = "ended" /\ conn[r].body # "good" /\ conn[r].route # "version"
        /\ conn[r].answer.status = 200
        => conn[r].answer.error

\* Every request ends, whatever its body and whatever the caches hold.
RequestsEnd == \A r \in Requests : conn[r].pc = "decode" ~> conn[r].pc = "ended"
=============================================================================
