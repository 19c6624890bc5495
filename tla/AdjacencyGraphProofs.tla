------------------------- MODULE AdjacencyGraphProofs -----------------------
(***************************************************************************)
(* EdgesAreMutual for any set of nodes and any number of calls. It needs   *)
(* that a list names no node that is not there, except by a connection     *)
(* that failed halfway: a node that is made later starts without edges.    *)
(***************************************************************************)
EXTENDS AdjacencyGraph, FiniteSetTheorems, TLAPS

GraphTypeOK ==
  /\ colored \in BOOLEAN /\ mutual \in BOOLEAN
  /\ DOMAIN nodes \subseteq NodeImpls
  /\ nodes \in [DOMAIN nodes -> Seq(NodeImpls)]

(* No edge leads to a node that is not there, but those made halfway. *)
NothingDangles ==
  mutual =>
    \A a \in DOMAIN nodes, b \in NodeImpls \ DOMAIN nodes :
      {a, b} \notin halfway => Edges(a, b) = 0

GraphInv == GraphTypeOK /\ NothingDangles /\ EdgesAreMutual

(* How often y is in the list s: Edges(a, b) is Count(nodes[a], b). *)
Count(s, y) == Cardinality({i \in DOMAIN s : s[i] = y})

LEMMA CountAppend ==
  ASSUME NEW s \in Seq(NodeImpls), NEW x \in NodeImpls, NEW y \in NodeImpls
  PROVE  /\ Count(s, y) \in Nat
         /\ Count(Append(s, x), y) = IF x = y THEN Count(s, y) + 1 ELSE Count(s, y)
<1> DEFINE n == Len(s)
           I == {i \in 1 .. n : s[i] = y}
           J == {i \in DOMAIN Append(s, x) : Append(s, x)[i] = y}
<1>1. n \in Nat /\ DOMAIN s = 1 .. n /\ DOMAIN Append(s, x) = 1 .. n + 1
  OBVIOUS
<1>2. IsFiniteSet(I)
  <2>1. IsFiniteSet(1 .. n) /\ I \subseteq 1 .. n
    BY <1>1, FS_Interval
  <2> HIDE DEF I, n
  <2> QED BY <2>1, FS_Subset
<1>3. J = IF x = y THEN I \cup {n + 1} ELSE I
  BY <1>1
<1>4. n + 1 \notin I
  BY <1>1
<1>5. Cardinality(I) \in Nat /\ Cardinality(I \cup {n + 1}) = Cardinality(I) + 1
  BY <1>2, <1>4, FS_CardinalityType, FS_AddElement
<1> QED BY <1>1, <1>3, <1>5 DEF Count

LEMMA CountEmpty ==
  ASSUME NEW y
  PROVE  Count(<<>>, y) = 0
<1>1. {i \in DOMAIN <<>> : <<>>[i] = y} = {}
  OBVIOUS
<1> QED BY <1>1, FS_EmptySet DEF Count

LEMMA GraphStarts == GraphInit => GraphInv
BY DEF GraphInit, GraphInv, GraphTypeOK, NothingDangles, EdgesAreMutual

(* A node that is made has no edges; one that is made again is remembered. *)
LEMMA MakeNodeKeeps ==
  ASSUME GraphInv, NEW n \in NodeImpls, makeNode(n)
  PROVE  GraphInv'
<1> USE DEF GraphInv
<1>1. /\ DOMAIN nodes' = DOMAIN nodes \cup {n}
      /\ nodes'[n] = <<>>
      /\ \A m \in DOMAIN nodes \ {n} : nodes'[m] = nodes[m]
      /\ UNCHANGED <<colored, mutual, halfway>>
      /\ remade \subseteq remade'
      /\ n \in DOMAIN nodes => n \in remade'
  BY DEF makeNode
<1>2. GraphTypeOK'
  <2>1. nodes' = [m \in DOMAIN nodes \cup {n} |-> nodes'[m]]
    BY <1>1 DEF makeNode
  <2>2. ASSUME NEW m \in DOMAIN nodes \cup {n} PROVE nodes'[m] \in Seq(NodeImpls)
    <3>1. <<>> \in Seq(NodeImpls)
      OBVIOUS
    <3>2. m # n => m \in DOMAIN nodes /\ nodes[m] \in Seq(NodeImpls)
      BY DEF GraphTypeOK
    <3> QED BY <1>1, <3>1, <3>2
  <2> QED BY <1>1, <2>1, <2>2 DEF GraphTypeOK
<1>3. /\ \A b : Edges(n, b)' = 0
      /\ \A a \in DOMAIN nodes \ {n}, b \in NodeImpls : Edges(a, b)' = Edges(a, b)
  BY <1>1, CountEmpty DEF Edges, Count
<1>4. NothingDangles'
  BY <1>1, <1>3 DEF NothingDangles
<1>5. EdgesAreMutual'
  <2> SUFFICES ASSUME mutual, NEW a \in DOMAIN nodes', NEW b \in DOMAIN nodes',
                      {a, b} \notin halfway, {a, b} \cap remade' = {}
               PROVE  Edges(a, b)' = Edges(b, a)'
    BY <1>1 DEF EdgesAreMutual
  <2>1. CASE a # n /\ b # n
    BY <1>1, <1>3, <2>1 DEF EdgesAreMutual, GraphTypeOK
  <2>2. CASE n \in {a, b}
    <3>1. n \notin DOMAIN nodes
      BY <1>1, <2>2
    <3>2. ASSUME NEW m \in DOMAIN nodes, {m, n} \notin halfway
          PROVE  Edges(m, n)' = 0
      BY <1>1, <1>3, <3>1, <3>2 DEF NothingDangles
    <3>3. {b, a} = {a, b}
      OBVIOUS
    <3> QED BY <1>1, <1>3, <2>2, <3>1, <3>2, <3>3
  <2> QED BY <2>1, <2>2
<1> QED BY <1>2, <1>4, <1>5

(* The lists after have one edge from a to b more than those before. *)
Adds(V, before, after, a, b) ==
  /\ after \in [V -> Seq(NodeImpls)]
  /\ \A c \in V, d \in NodeImpls :
       /\ Count(before[c], d) \in Nat
       /\ Count(after[c], d) = IF c = a /\ d = b THEN Count(before[c], d) + 1
                                                 ELSE Count(before[c], d)

LEMMA AddEdgeAdds ==
  ASSUME NEW V, NEW lists \in [V -> Seq(NodeImpls)], NEW a \in V, NEW b \in NodeImpls
  PROVE  Adds(V, lists, AddEdge(lists, a, b), a, b)
<1>1. Append(lists[a], b) \in Seq(NodeImpls)
  OBVIOUS
<1>2. AddEdge(lists, a, b) \in [V -> Seq(NodeImpls)]
  BY <1>1 DEF AddEdge
<1>3. ASSUME NEW c \in V, NEW d \in NodeImpls
      PROVE  /\ Count(lists[c], d) \in Nat
             /\ Count(AddEdge(lists, a, b)[c], d) =
                  IF c = a /\ d = b THEN Count(lists[c], d) + 1 ELSE Count(lists[c], d)
  <2>1. AddEdge(lists, a, b)[c] = IF c = a THEN Append(lists[a], b) ELSE lists[c]
    BY DEF AddEdge
  <2>2. lists[c] \in Seq(NodeImpls)
    OBVIOUS
  <2> QED BY <2>1, <2>2, CountAppend
<1> QED BY <1>2, <1>3 DEF Adds

(* connect, whether it throws or not. *)
LEMMA ConnectKeeps ==
  ASSUME GraphInv, NEW a \in NodeImpls, NEW b \in NodeImpls, connect(a, b)
  PROVE  GraphInv'
<1> DEFINE V == DOMAIN nodes
<1> USE DEF GraphInv
<1>1. /\ UNCHANGED <<colored, mutual, remade>>
      /\ V \subseteq NodeImpls /\ nodes \in [V -> Seq(NodeImpls)]
  BY DEF connect, GraphTypeOK
<1>2. \A c, d : Edges(c, d) = Count(nodes[c], d) /\ Edges(c, d)' = Count(nodes'[c], d)
  BY DEF Edges, Count
<1>3. CASE Refused(a, b)
  BY <1>1, <1>3 DEF Refused, GraphTypeOK, NothingDangles, EdgesAreMutual, Edges
<1>4. CASE a \in V /\ OneWay(a, b)
  <2>1. nodes' \in [V -> Seq(NodeImpls)]
    BY <1>1, <1>4, AddEdgeAdds DEF OneWay, Adds
  <2>2. DOMAIN nodes' = V
    BY <2>1
  <2> QED
    BY <1>1, <1>4, <2>1, <2>2 DEF OneWay, GraphTypeOK, NothingDangles, EdgesAreMutual
<1>5. CASE a \in V /\ BothWays(a, b)
  <2> DEFINE half == AddEdge(nodes, a, b)
  <2>1. b \in V /\ nodes' = AddEdge(half, b, a) /\ UNCHANGED halfway
    BY <1>5 DEF BothWays, AddEdges
  <2>2. Adds(V, nodes, half, a, b)
    BY <1>1, <1>5, AddEdgeAdds
  <2> HIDE DEF half
  <2>3. half \in [V -> Seq(NodeImpls)]
    BY <2>2 DEF Adds
  <2>4. Adds(V, half, nodes', b, a)
    BY <1>1, <2>1, <2>3, AddEdgeAdds
  <2>5. nodes' \in [V -> Seq(NodeImpls)] /\ DOMAIN nodes' = V
    BY <2>4 DEF Adds
  <2>6. ASSUME NEW c \in V, NEW d \in NodeImpls
        PROVE  /\ Edges(c, d) \in Nat
               /\ {c, d} # {a, b} => Edges(c, d)' = Edges(c, d)
               /\ a # b /\ c = a /\ d = b => Edges(c, d)' = Edges(c, d) + 1
               /\ a # b /\ c = b /\ d = a => Edges(c, d)' = Edges(c, d) + 1
    <3>1. /\ Count(nodes[c], d) \in Nat
          /\ Count(half[c], d) =
               IF c = a /\ d = b THEN Count(nodes[c], d) + 1 ELSE Count(nodes[c], d)
          /\ Count(nodes'[c], d) =
               IF c = b /\ d = a THEN Count(half[c], d) + 1 ELSE Count(half[c], d)
      BY <2>2, <2>4 DEF Adds
    <3> QED BY <1>2, <3>1
  <2>7. NothingDangles'
    <3> SUFFICES ASSUME mutual, NEW c \in V, NEW d \in NodeImpls \ V, {c, d} \notin halfway
                 PROVE  Edges(c, d)' = 0
      BY <1>1, <2>1, <2>5 DEF NothingDangles
    <3>1. Edges(c, d) = 0 /\ {c, d} # {a, b}
      BY <1>5, <2>1 DEF NothingDangles
    <3> QED BY <2>6, <3>1
  <2>8. EdgesAreMutual'
    <3> SUFFICES ASSUME mutual, NEW c \in V, NEW d \in V, c # d,
                        {c, d} \notin halfway, {c, d} \cap remade = {}
                 PROVE  Edges(c, d)' = Edges(d, c)'
      BY <1>1, <2>1, <2>5 DEF EdgesAreMutual
    <3>1. Edges(c, d) = Edges(d, c)
      BY DEF EdgesAreMutual
    <3>2. c \in NodeImpls /\ d \in NodeImpls /\ {d, c} = {c, d}
      BY <1>1
    <3> QED BY <2>6, <3>1, <3>2
  <2> QED BY <1>1, <2>5, <2>7, <2>8 DEF GraphTypeOK
<1>6. CASE a \in V /\ Halfway(a, b)
  <2>1. /\ b \notin V /\ nodes' = AddEdge(nodes, a, b)
        /\ halfway' = halfway \cup {{a, b}}
    BY <1>6 DEF Halfway
  <2>2. Adds(V, nodes, nodes', a, b)
    BY <1>1, <1>6, <2>1, AddEdgeAdds
  <2>3. nodes' \in [V -> Seq(NodeImpls)] /\ DOMAIN nodes' = V
    BY <2>2 DEF Adds
  <2>4. ASSUME NEW c \in V, NEW d \in NodeImpls, ~(c = a /\ d = b)
        PROVE  Edges(c, d)' = Edges(c, d)
    <3>1. Count(nodes'[c], d) = Count(nodes[c], d)
      BY <2>2, <2>4 DEF Adds
    <3> QED BY <1>2, <3>1
  <2>5. NothingDangles'
    BY <1>1, <2>1, <2>3, <2>4 DEF NothingDangles
  <2>6. EdgesAreMutual'
    <3> SUFFICES ASSUME mutual, NEW c \in V, NEW d \in V,
                        {c, d} \notin halfway, {c, d} \cap remade = {}
                 PROVE  Edges(c, d)' = Edges(d, c)'
      BY <1>1, <2>1, <2>3 DEF EdgesAreMutual
    <3>1. Edges(c, d) = Edges(d, c)
      BY DEF EdgesAreMutual
    <3> QED BY <1>1, <2>1, <2>4, <3>1
  <2> QED BY <1>1, <2>3, <2>5, <2>6 DEF GraphTypeOK
<1> QED BY <1>3, <1>4, <1>5, <1>6 DEF connect

-----------------------------------------------------------------------------

(* The invariant holds in every graph that the calls can make. *)
THEOREM GraphInvariantHolds == GraphSpec => []GraphInv
<1>1. GraphInv /\ [GraphNext]_graphVars => GraphInv'
  <2> SUFFICES ASSUME GraphInv, [GraphNext]_graphVars PROVE GraphInv'
    OBVIOUS
  <2>1. CASE UNCHANGED graphVars
    BY <2>1 DEF graphVars, GraphInv, GraphTypeOK, NothingDangles, EdgesAreMutual, Edges
  <2> QED BY <2>1, MakeNodeKeeps, ConnectKeeps DEF GraphNext
<1> QED BY <1>1, GraphStarts, PTL DEF GraphSpec

(* A BiDirListGraph has each edge as often in one direction as in the other,
   for any nodes and calls, but for the two exceptions the property names.    *)
THEOREM EdgesStayMutual == GraphSpec => []EdgesAreMutual
<1>1. GraphInv => EdgesAreMutual
  BY DEF GraphInv
<1> QED BY <1>1, GraphInvariantHolds, PTL

=============================================================================
