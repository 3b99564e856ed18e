--------------------------- MODULE NodeCollection ---------------------------
(***************************************************************************)
(* What the nodes monitor needs of the nodes collection: a document per    *)
(* node that, once written, is always a state the node has actually been  *)
(* in.  Documents are written atomically, several in one step (a bulk),   *)
(* and never removed.  hist[i] is every state node i has had.              *)
(***************************************************************************)
CONSTANTS Items, Node, NONE

VARIABLES node, db, hist

Init ==
    /\ node \in [Items -> Node]
    /\ hist = [i \in Items |-> {node[i]}]
    /\ db \in [Items -> Node \cup {NONE}]
    /\ \A i \in Items : db[i] \in {NONE, node[i]}

\* The node takes a new state.
Change(i, v) ==
    /\ node' = [node EXCEPT ![i] = v]
    /\ hist' = [hist EXCEPT ![i] = @ \cup {v}]
    /\ UNCHANGED db

\* Some documents are replaced, each by a state its node has had.
Store(d) ==
    /\ \A i \in Items : d[i] = db[i] \/ d[i] \in hist[i]
    /\ db' = d
    /\ UNCHANGED <<node, hist>>

Next ==
    \/ \E i \in Items, v \in Node : Change(i, v)
    \/ \E d \in [Items -> Node \cup {NONE}] : Store(d)

Spec == Init /\ [][Next]_<<node, db, hist>>

=============================================================================
