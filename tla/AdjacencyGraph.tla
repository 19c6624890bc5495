---------------------------- MODULE AdjacencyGraph --------------------------
(***************************************************************************)
(* scala/graph/src/graph.scala: graphs put together from traits. A graph is *)
(* a SimpleGraph or a ColoredGraph, and a ListGraph or a BiDirListGraph.   *)
(* A node of a SimpleGraph is an object of its own; one of a ColoredGraph is *)
(* its colour, as case classes are equal if their parameters are.          *)
(***************************************************************************)
EXTENDS Integers, Sequences, FiniteSets

CONSTANTS
  NodeImpls,    \* the nodes, or the colours
  MaxConnects   \* bound: how often connect is called

VARIABLES
  colored, mutual,   \* the traits: ColoredGraph, BiDirListGraph
  nodes,             \* the adjacency lists
  connects,
  remade,            \* the nodes that makeNode was called for again
  halfway            \* the connections that failed between their two directions

graphVars == <<colored, mutual, nodes, connects, remade, halfway>>

GraphInit ==
  /\ colored \in BOOLEAN /\ mutual \in BOOLEAN
  /\ nodes = <<>>
  /\ connects = 0
  /\ remade = {} /\ halfway = {}

(* makeNode and addNode: a fresh object, or any colour. *)
makeNode(n) ==
  /\ colored \/ n \notin DOMAIN nodes
  /\ nodes' = [m \in DOMAIN nodes \cup {n} |-> IF m = n THEN <<>> ELSE nodes[m]]
  /\ remade' = IF n \in DOMAIN nodes THEN remade \cup {n} ELSE remade
  /\ UNCHANGED <<colored, mutual, connects, halfway>>

(* ListGraph's connectImpl, on lists that have a. *)
AddEdge(lists, a, b) == [lists EXCEPT ![a] = Append(@, b)]

SameEdgeTwice(lists, a, b) == AddEdge(AddEdge(lists, a, b), a, b)    \* mutant: b, a is not swapped
AddEdges(lists, a, b) == AddEdge(AddEdge(lists, a, b), b, a)

SameColor(a, b) == colored /\ a = b

(* connect: it may throw before it has done anything, between the directions
   of an edge, or not at all. Nodes that nobody made can be named as well.  *)
Refused(a, b) ==
  /\ SameColor(a, b) \/ a \notin DOMAIN nodes
  /\ UNCHANGED <<nodes, halfway>>

OneWay(a, b) ==
  /\ ~mutual
  /\ nodes' = AddEdge(nodes, a, b)
  /\ UNCHANGED halfway

BothWays(a, b) ==
  /\ mutual /\ b \in DOMAIN nodes
  /\ nodes' = AddEdges(nodes, a, b)
  /\ UNCHANGED halfway

Halfway(a, b) ==
  /\ mutual /\ b \notin DOMAIN nodes
  /\ nodes' = AddEdge(nodes, a, b)
  /\ halfway' = halfway \cup {{a, b}}

connect(a, b) ==
  /\ connects < MaxConnects
  /\ connects' = connects + 1
  /\ \/ Refused(a, b)
     \/ /\ ~SameColor(a, b) /\ a \in DOMAIN nodes
        /\ OneWay(a, b) \/ BothWays(a, b) \/ Halfway(a, b)
  /\ UNCHANGED <<colored, mutual, remade>>

GraphNext == \E a \in NodeImpls : makeNode(a) \/ \E b \in NodeImpls : connect(a, b)

GraphSpec == GraphInit /\ [][GraphNext]_graphVars

-----------------------------------------------------------------------------

Edges(a, b) == Cardinality({i \in DOMAIN nodes[a] : nodes[a][i] = b})

(* A BiDirListGraph has every edge as often in one direction as in the other,
   except where a node that was not there made a connection fail halfway, or
   a colour was made again, which forgets the edges of one side only.        *)
EdgesAreMutual ==
  mutual =>
    \A a, b \in DOMAIN nodes :
      {a, b} \notin halfway /\ {a, b} \cap remade = {} => Edges(a, b) = Edges(b, a)

=============================================================================
