---------------------------- MODULE MCDagExecution ----------------------------
(***************************************************************************)
(* DagExecution on two families of graphs.  Small: every graph of three    *)
(* nodes with up to MaxEdges edges, in every creation order, repeated      *)
(* edges included.  Merges: a chain of full edges a, b, c with every two   *)
(* further edges between it and a fourth node, or within it.               *)
(***************************************************************************)
EXTENDS DagExecution

CONSTANTS a, b, c, d, MaxEdges

EdgesOver(S) == {e \in [source : S, target : S, context : Context] : e.source # e.target}

Small ==
  {[nodes |-> <<a, b, c>>, edges |-> e, delay |-> (a :> 1) @@ (b :> 0) @@ (c :> 2)] :
     e \in UNION {[1 .. k -> EdgesOver({a, b, c})] : k \in 0 .. MaxEdges}}

Full(m, n) == [source |-> m, target |-> n, context |-> "full"]

Merges ==
  {[nodes |-> <<d, b, a, c>>, edges |-> <<e, Full(a, b), f, Full(b, c)>>,
    delay |-> [n \in {a, b, c, d} |-> 0]] : e, f \in EdgesOver({a, b, c, d})}

\* Both families, in one run.
SmallAndMerges == Small \cup Merges
=============================================================================
