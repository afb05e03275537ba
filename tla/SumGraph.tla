----------------------------- MODULE SumGraph -----------------------------
(***************************************************************************)
(* The sum of a list of constraints along the edges of a graph             *)
(* (sum_graph): there is an edge between two that share a variable, and    *)
(* the cheapest is contracted first.                                       *)
(***************************************************************************)
EXTENDS Parity

VARIABLES
    nodes,          \* the constraints, NULL once deleted
    edges,          \* records of two nodes, the lower first, and their cost
    neighbors,      \* for each node
    sum,            \* NULL until the end
    sumPhase        \* "idle", "contracting", "done" or "crashed"

sumVars == <<nodes, edges, neighbors, sum, sumPhase>>

Edge(list, m, n) == [node1 |-> Min({m, n}), node2 |-> Max({m, n}), cost |-> xcost(list[m], list[n])]

SumIdle == nodes = <<>> /\ edges = {} /\ neighbors = <<>> /\ sum = NULL /\ sumPhase = "idle"

\* The constructor.
sum_graph(list) ==
    LET near(n) == {m \in DOMAIN list \ {n} : xoverlap(list[m], list[n])}
    IN  /\ nodes' = list
        /\ edges' = UNION {{Edge(list, m, n) : m \in near(n)} : n \in DOMAIN list}
        /\ neighbors' = [n \in DOMAIN list |-> near(n)]
        /\ sumPhase' = "contracting"
        /\ UNCHANGED sum

\* Fault: the neighbours of the second node are forgotten.
Around_first(e) == neighbors[e.node1] \ {e.node2}

Around(e) == (neighbors[e.node1] \cup neighbors[e.node2]) \ {e.node1, e.node2}

\* contract_edge: the first node, which has the sum xc now, gets the edges that are
\* left of both.
contract_edge(e, xc) ==
    LET around == Around(e)
        contracted == [nodes EXCEPT ![e.node1] = xc, ![e.node2] = NULL]
        close == {n \in around : xoverlap(xc, nodes[n])}
        removed == {d \in edges : {d.node1, d.node2} \cap {e.node1, e.node2} # {}
                                  /\ {d.node1, d.node2} \cap around # {}}
    IN  IF \E n \in around : nodes[n] = NULL
        THEN sumPhase' = "crashed" /\ UNCHANGED <<nodes, edges, neighbors, sum>>
        ELSE /\ nodes' = contracted
             /\ edges' = ((edges \ {e}) \ removed) \cup {Edge(contracted, e.node1, n) : n \in close}
             /\ neighbors' = [n \in DOMAIN nodes |->
                    IF n = e.node1 THEN close
                    ELSE IF n = e.node2 THEN {}
                    ELSE IF n \in around
                    THEN (neighbors[n] \ {e.node1, e.node2}) \cup (IF n \in close THEN {e.node1} ELSE {})
                    ELSE neighbors[n]]
             /\ UNCHANGED <<sum, sumPhase>>

\* One turn of get_sum.  A constraint that was deleted cannot be added to, and a sum
\* without variables is deleted, with both nodes, but not with their edges.
Contract(e) ==
    /\ sumPhase = "contracting"
    /\ \A d \in edges : e.cost <= d.cost
    /\ IF NULL \in {nodes[e.node1], nodes[e.node2]}
       THEN sumPhase' = "crashed" /\ UNCHANGED <<nodes, edges, neighbors, sum>>
       ELSE LET xc == xor_plus(nodes[e.node1], nodes[e.node2])
            IN  IF is_degenerate(xc)
                THEN /\ nodes' = [nodes EXCEPT ![e.node1] = NULL, ![e.node2] = NULL]
                     /\ edges' = edges \ {e}
                     /\ UNCHANGED <<neighbors, sum, sumPhase>>
                ELSE contract_edge(e, xc)

AddNode(total, c) == IF c = NULL THEN total ELSE xor_plus(total, c)

\* The rest of get_sum: what is left has no variable in common.
AddRest ==
    /\ sumPhase = "contracting" /\ edges = {}
    /\ sum' = FoldLeft(AddNode, Tautology, nodes)
    /\ nodes' = [n \in DOMAIN nodes |-> NULL]
    /\ sumPhase' = "done"
    /\ UNCHANGED <<edges, neighbors>>

\* xor_sum_list: short lists are summed at once.
xor_sum_list(list) ==
    IF Len(list) <= 4
    THEN /\ sum' = xor_sum_list_linear(list)
         /\ sumPhase' = "done"
         /\ UNCHANGED <<nodes, edges, neighbors>>
    ELSE sum_graph(list)
=============================================================================
