------------------------------ MODULE PathPlan ------------------------------
(***************************************************************************)
(* find_path of INTPath's controller: it cuts the links of a network into  *)
(* the paths the INT probes take (optimal_find_path_unbalance.py; its      *)
(* _balance twin differs only in which of the shortest paths my_path       *)
(* takes).  While some subgraph has only nodes of even degree, its Euler   *)
(* circuit becomes the first path or is spliced into a path that touches   *)
(* it; otherwise each subgraph gives up one path between two odd nodes: an *)
(* Euler trail if it has just two, else a shortest path from a random odd  *)
(* node to the odd node farthest from it.                                  *)
(*                                                                         *)
(* A link is the set of its two ends.  The order of the neighbour lists,   *)
(* of the subgraphs and of the nodes in them comes from the matrix of the  *)
(* caller: every choice the code makes by it is left open here.            *)
(***************************************************************************)
EXTENDS Integers, Sequences, FiniteSets, SequencesExt

CONSTANTS
  N,         \* number of switches (the size of the matrix)
  Networks   \* the networks looked at: sets of links

ASSUME NAssumption == N \in Nat \ {0, 1}

Nodes == 1 .. N
AllLinks == {{u, v} : u, v \in Nodes} \ {{u} : u \in Nodes}

VARIABLES
  net,      \* testG: the links of the network
  links,    \* node_neighbors: the links that are on no path yet
  degree,   \* degree: taken at the head of the loop only
  queue,    \* Queue: the paths, each a sequence of nodes
  todo,     \* the subgraphs the for loop still has to cut
  phase,    \* where find_path stands
  joined,   \* t_path: the path a circuit is spliced into, or << >>
  left,     \* g of euler(): its own copy of the links of one subgraph
  stack,    \* calls of hierholzer: node, and index of its for loop
  trail     \* path of euler(), still backwards

plan_vars == <<net, links, degree, queue, todo, phase, joined, left, stack, trail>>
eulerVars == <<joined, left, stack, trail>>
-----------------------------------------------------------------------------
Neighbours(ls, u) == {v \in Nodes : {u, v} \in ls /\ u # v}
Degree(ls, u) == Cardinality(Neighbours(ls, u))
Ends(ls) == UNION ls

(* The nodes at most k links from u. *)
Within(ls, u) ==
  LET within[k \in 0 .. N] ==
        IF k = 0 THEN {u}
        ELSE within[k - 1] \cup UNION {Neighbours(ls, v) : v \in within[k - 1]}
  IN  within

Distance(ls, u, v) == CHOOSE k \in 0 .. N :
  v \in Within(ls, u)[k] /\ (k = 0 \/ v \notin Within(ls, u)[k - 1])

Component(ls, u) == Within(ls, u)[N]
Subgraphs(ls) == {Component(ls, u) : u \in Ends(ls)}
Connected(ls) == Cardinality(Subgraphs(ls)) = 1

(* The matrices the generators and the controller give are of networks     *)
(* whose links hang together; a switch without links is never looked at.   *)
ASSUME NetworksAssumption ==
  \A ls \in Networks : ls \subseteq AllLinks /\ Connected(ls)

OddIn(g) == {u \in g : degree[u] % 2 # 0}
LinksIn(ls, g) == {l \in ls : l \subseteq g}

(* A path, as the sequence of the links it goes along. *)
Hops(p) == [i \in 1 .. Len(p) - 1 |-> {p[i], p[i + 1]}]
LinksOf(p) == {Hops(p)[i] : i \in 1 .. Len(p) - 1}

(* F3 takes the links of a path out of the lists, one remove after the     *)
(* other: a link that is not there, or no more, raises ValueError.         *)
Removable(ls, p) == LinksOf(p) \subseteq ls /\ IsInjective(Hops(p))

(* Mutant: an insertion one place too early. *)
MutBefore_AddPath(p1, p2) ==
  LET at == CHOOSE i \in DOMAIN p1 :
              p1[i] = p2[1] /\ \A j \in 1 .. i - 1 : p1[j] # p2[1]
  IN  SubSeq(p1, 1, at - 1) \o Tail(p2) \o SubSeq(p1, at, Len(p1))

(* add_path: the rest of p2 goes behind the first place of its start in p1. *)
AddPath(p1, p2) ==
  LET at == CHOOSE i \in DOMAIN p1 :
              p1[i] = p2[1] /\ \A j \in 1 .. i - 1 : p1[j] # p2[1]
  IN  SubSeq(p1, 1, at) \o Tail(p2) \o SubSeq(p1, at + 1, Len(p1))

(* Mutant: the farthest node, whether odd or not. *)
MutAnyEnd_MyPaths(g) ==
  UNION {LET far == {v \in g : \A w \in g :
                       Distance(links, s, w) <= Distance(links, s, v)}
         IN  UNION {{p \in [1 .. Distance(links, s, v) + 1 -> g] :
                       /\ p[1] = v /\ p[Len(p)] = s
                       /\ LinksOf(p) \subseteq links} : v \in far} :
         s \in OddIn(g)}

(* my_path: what dijkstra's predecessors give from a farthest odd node back *)
(* to the source; which of several shortest paths depends on the lists.     *)
MyPaths(g) ==
  UNION {LET far == {v \in OddIn(g) : \A w \in OddIn(g) :
                       Distance(links, s, w) <= Distance(links, s, v)}
         IN  UNION {{p \in [1 .. Distance(links, s, v) + 1 -> g] :
                       /\ p[1] = v /\ p[Len(p)] = s
                       /\ LinksOf(p) \subseteq links} : v \in far} :
         s \in OddIn(g)}
-----------------------------------------------------------------------------
PlanInit ==
  /\ net \in Networks
  /\ links = net
  /\ degree = [u \in Nodes |-> 0]
  /\ queue = << >> /\ todo = {}
  /\ phase = "while"
  /\ joined = << >> /\ left = {} /\ stack = << >> /\ trail = << >>

(* Mutant: a copy of the network, with the links that are on paths. *)
MutAll_CallEuler(g, start) ==
  /\ left' = LinksIn(net, g)
  /\ stack' = <<[node |-> start, next |-> 0]>>
  /\ trail' = << >>
  /\ phase' = "euler"

(* euler(): hierholzer starts on a copy of the subgraph. *)
CallEuler(g, start) ==
  /\ left' = LinksIn(links, g)
  /\ stack' = <<[node |-> start, next |-> 0]>>
  /\ trail' = << >>
  /\ phase' = "euler"

(* The head of the while loop. *)
DegreesNow == [u \in Nodes |-> Degree(links, u)]
EvenSubgraphs ==
  {g \in Subgraphs(links) : \A u \in g : Degree(links, u) % 2 = 0}

FirstCircuit ==
  /\ phase = "while" /\ queue = << >>
  /\ degree' = DegreesNow
  /\ \E g \in EvenSubgraphs : \E u \in g : CallEuler(g, u)
  /\ UNCHANGED <<net, links, queue, todo, joined>>

(* path_iden takes the first path that has the first node of the subgraph  *)
(* that is on any path.  Without one it returns None, and unpacking raises.*)
JoinCircuit ==
  /\ phase = "while" /\ queue # << >>
  /\ degree' = DegreesNow
  /\ \E g \in EvenSubgraphs :
       LET touching(u) == {i \in DOMAIN queue : u \in ToSet(queue[i])}
           shared == {u \in g : touching(u) # {}}
       IN  IF shared = {}
           THEN phase' = "raised" /\ UNCHANGED <<queue, eulerVars>>
           ELSE \E u \in shared :
                  LET i == Min(touching(u))
                  IN  /\ queue' = RemoveAt(queue, i)
                      /\ joined' = queue[i]
                      /\ CallEuler(g, u)
  /\ UNCHANGED <<net, links, todo>>

(* No subgraph has a circuit: the for loop goes over all of them. *)
StartCuts ==
  /\ phase = "while" /\ links # {} /\ EvenSubgraphs = {}
  /\ degree' = DegreesNow
  /\ todo' = Subgraphs(links)
  /\ phase' = "for"
  /\ UNCHANGED <<net, links, queue, eulerVars>>

CutTrail(g) ==
  /\ Cardinality(OddIn(g)) = 2
  /\ \E u \in OddIn(g) : CallEuler(g, u)
  /\ UNCHANGED <<links, queue, joined>>

CutShortest(g) ==
  /\ Cardinality(OddIn(g)) > 2
  /\ \E p \in MyPaths(g) :
       /\ queue' = Append(queue, p)
       /\ IF Removable(links, p)
          THEN links' = links \ LinksOf(p) /\ UNCHANGED phase
          ELSE phase' = "raised" /\ UNCHANGED links
  /\ UNCHANGED eulerVars

Cut ==
  /\ phase = "for"
  /\ \E g \in todo :
       /\ todo' = todo \ {g}
       /\ CutTrail(g) \/ CutShortest(g)
  /\ UNCHANGED <<net, degree>>

EndCuts ==
  /\ phase = "for" /\ todo = {}
  /\ phase' = "while"
  /\ UNCHANGED <<net, links, degree, queue, todo, eulerVars>>

Finish ==
  /\ phase = "while" /\ links = {}
  /\ phase' = "done"
  /\ UNCHANGED <<net, links, degree, queue, todo, eulerVars>>
-----------------------------------------------------------------------------
(* hierholzer: the for loop of a call runs over the list it removes from,  *)
(* so its second turn takes the second of what is left.                    *)
Top == stack[Len(stack)]

Follow ==
  /\ phase = "euler" /\ stack # << >>
  /\ Top.next < Degree(left, Top.node)
  /\ \E v \in Neighbours(left, Top.node) :
       /\ left' = left \ {{Top.node, v}}
       /\ stack' = Append([stack EXCEPT ![Len(stack)].next = @ + 1],
                          [node |-> v, next |-> 0])
  /\ UNCHANGED <<net, links, degree, queue, todo, phase, joined, trail>>

(* A call ends when the list of its node is empty, and then notes the node;*)
(* or when its for loop ends before, and then it does not.                 *)
Return ==
  /\ phase = "euler" /\ stack # << >>
  /\ Top.next >= Degree(left, Top.node)
  /\ stack' = Front(stack)
  /\ trail' = IF Degree(left, Top.node) = 0 THEN Append(trail, Top.node) ELSE trail
  /\ UNCHANGED <<net, links, degree, queue, todo, phase, joined, left>>

(* Back in find_path: the trail is turned round, its links are removed and *)
(* it becomes a path, or a part of one.                                    *)
EulerReturns ==
  /\ phase = "euler" /\ stack = << >>
  /\ LET result == Reverse(trail)
     IN  IF Removable(links, result)
         THEN /\ links' = links \ LinksOf(result)
              /\ queue' = Append(queue, IF joined = << >> THEN result
                                        ELSE AddPath(joined, result))
              /\ phase' = IF todo = {} THEN "while" ELSE "for"
         ELSE phase' = "raised" /\ UNCHANGED <<links, queue>>
  /\ joined' = << >> /\ left' = {} /\ trail' = << >>
  /\ UNCHANGED <<net, degree, todo, stack>>

Done == phase = "done" /\ UNCHANGED plan_vars

PlanNext ==
  \/ FirstCircuit \/ JoinCircuit
  \/ StartCuts \/ Cut \/ EndCuts \/ Finish
  \/ Follow \/ Return \/ EulerReturns
  \/ Done

PlanSpec == PlanInit /\ [][PlanNext]_plan_vars
FairPlanSpec == PlanSpec /\ WF_plan_vars(PlanNext)
-----------------------------------------------------------------------------
(* The paths found so far, the one under repair included. *)
Plans == IF joined = << >> THEN queue ELSE Append(queue, joined)

PlanTypeOK ==
  /\ net \subseteq AllLinks /\ links \subseteq net /\ left \subseteq links
  /\ degree \in [Nodes -> 0 .. N - 1]
  /\ \A p \in ToSet(Plans) : p \in Seq(Nodes) /\ Len(p) > 1
  /\ todo \subseteq SUBSET Nodes
  /\ phase \in {"while", "for", "euler", "done", "raised"}
  /\ stack \in Seq([node : Nodes, next : 0 .. 2])
  /\ trail \in Seq(Nodes)

(* The INT paths are non-overlapped (INTPATH_README.md): every link is     *)
(* either still in the lists or on just one path, and gone along once.     *)
EachLinkOnOnePath ==
  phase # "raised" =>
    /\ UNION {LinksOf(p) : p \in ToSet(Plans)} = net \ links
    /\ \A i \in DOMAIN Plans : IsInjective(Hops(Plans[i]))
    /\ \A i, j \in DOMAIN Plans :
         i # j => LinksOf(Plans[i]) \cap LinksOf(Plans[j]) = {}

(* The Euler trail takes every link of its subgraph, although hierholzer   *)
(* removes from the lists it runs over, may leave a call with links left   *)
(* and notes a node only when its list is empty: what it notes is a walk   *)
(* along every link of the subgraph, once each.                            *)
EulerTakesAll ==
  phase = "euler" /\ stack = << >> =>
    LET g == Component(links, trail[1])
    IN  /\ left = {}
        /\ IsInjective(Hops(trail))
        /\ LinksOf(trail) = LinksIn(links, g)

(* Both: no link is probed twice, and none is left out by a trail. *)
LinksTakenOnce == EachLinkOnOnePath /\ EulerTakesAll

(* "INTPath optimally generates non-overlapped INT paths with a minimum    *)
(* path number" (INTPATH_README.md): half as many as there are odd nodes,  *)
(* or one.  And the loop ends: no exception, and no pass of it for ever    *)
(* takes no link off.                                                      *)
FewestPaths ==
  LET odd == {u \in Nodes : Degree(net, u) % 2 = 1}
  IN  Len(queue) = IF odd = {} THEN 1 ELSE Cardinality(odd) \div 2
PlansOptimally == <>(phase = "done" /\ FewestPaths)
=============================================================================
