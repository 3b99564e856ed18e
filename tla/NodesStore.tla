----------------------------- MODULE NodesStore -----------------------------
(***************************************************************************)
(* NodesStore.bulk_update of src/server/node_services/nodes_store.js.      *)
(*                                                                         *)
(* The nodes monitor keeps, for every node, an item holding the in-memory  *)
(* node and node_from_store, the copy it believes the nodes collection     *)
(* holds.  bulk_update builds an unordered bulk: an item without           *)
(* node_from_store is inserted, an item whose diff against it is not empty *)
(* is updated, and an item with an empty diff adds no operation.  It       *)
(* snapshots every item's node (nodes_to_store), executes the bulk, and    *)
(* sets node_from_store to the snapshot of every item it reports updated.  *)
(* The bulk is sent one promise tick after bulk_update returns             *)
(* (P.resolve().then), and an insert carries item.node itself, not the     *)
(* snapshot: the driver serializes the live object when it sends.          *)
(* A write error names its operation by e.index, the position of the       *)
(* operation in the bulk, and the code maps it to items[e.index].          *)
(*                                                                         *)
(* Not in the sources, modelled from their use: the nodes monitor, which   *)
(* changes node fields at any time and calls bulk_update once at a time,   *)
(* with any list of its items; MongoDB's execution of the bulk; and        *)
(* mongo_utils.make_object_diff (the fields whose values differ).          *)
(* A node is a function from a small set of fields to values; its _id is   *)
(* the item.                                                               *)
(***************************************************************************)
EXTENDS Naturals, Sequences, FiniteSets, Functions

CONSTANTS
    Items,        \* the monitor's items (one per node, its _id)
    Fields,       \* the node fields the monitor changes
    Vals,         \* the values a field may take
    ItemOrder,    \* the order of the monitor's full list of items
    NONE,         \* no node_from_store / no document in the collection
    ChangesBeforeSend, \* the monitor may change a node in the tick before the bulk is sent
    MAX_CHANGES,  \* bound on field changes made by the monitor
    MAX_FAULTS    \* bound on executions with a write error or a failure

VARIABLES
    node,     \* item.node
    nfs,      \* item.node_from_store
    db,       \* the nodes collection, by _id
    phase,    \* "idle", "built" (bulk_update returned), "sent" (bulk.execute called)
    batch,    \* the items list of the executing bulk_update
    bops,     \* its bulk operations, in order
    snap,     \* nodes_to_store: the nodes cloned when the bulk was built
    changes,  \* field changes so far
    faults,   \* faulty executions so far
    hist      \* history: every state each node has had (no counterpart in the code)

vars == <<node, nfs, db, phase, batch, bops, snap, changes, faults, hist>>

Node == [Fields -> Vals]

\* The lists the monitor may pass: sequences of distinct items.
Lists == {l \in UNION {[1..n -> Items] : n \in 1..Cardinality(Items)} : IsInjective(l)}

\* mongo_utils.make_object_diff(item.node, item.node_from_store).
make_object_diff(i) == {f \in Fields : node[i][f] # nfs[i][f]}

\* The item adds an operation to the bulk (the `continue` skips it).
NeedsOp(i) == nfs[i] = NONE \/ make_object_diff(i) # {}

\* bulk.insert(item.node), or bulk.find({_id}).updateOne(diff); doc holds the
\* values the operation writes (the diff's values are taken now).
BulkOp(i) ==
    IF nfs[i] = NONE THEN [item |-> i, kind |-> "insert", set |-> Fields, doc |-> node[i]]
                     ELSE [item |-> i, kind |-> "update", set |-> make_object_diff(i), doc |-> node[i]]

Init ==
    /\ node \in [Items -> Node]
    /\ \E stored \in SUBSET Items :
          /\ nfs = [i \in Items |-> IF i \in stored THEN node[i] ELSE NONE]
          /\ db = nfs
    /\ phase = "idle"
    /\ batch = <<>>
    /\ bops = <<>>
    /\ snap = node
    /\ changes = 0
    /\ faults = 0
    /\ hist = [i \in Items |-> {node[i]}]

\* The monitor changes a field of a node, also while a bulk executes.
Change(i, f, v) ==
    /\ changes < MAX_CHANGES
    /\ phase = "built" => ChangesBeforeSend
    /\ node[i][f] # v
    /\ node' = [node EXCEPT ![i][f] = v]
    /\ changes' = changes + 1
    /\ hist' = [hist EXCEPT ![i] = @ \cup {node'[i]}]
    /\ UNCHANGED <<nfs, db, phase, batch, bops, snap, faults>>

(***************************************************************************)
(* bulk_update(items), up to bulk.execute: with no operation it returns    *)
(* {updated: null, failed: null} and changes nothing.                      *)
(***************************************************************************)
bulk_update(l) ==
    /\ phase = "idle"
    /\ LET todo == SelectSeq(l, NeedsOp)
       IN IF todo = <<>>
            THEN UNCHANGED vars
            ELSE /\ phase' = "built"
                 /\ batch' = l
                 /\ bops' = [k \in 1..Len(todo) |-> BulkOp(todo[k])]
                 /\ snap' = node
                 /\ UNCHANGED <<node, nfs, db, changes, faults, hist>>

\* The document after a successful operation o.
Written(o) ==
    IF o.kind = "insert" THEN o.doc
    ELSE [f \in Fields |-> IF f \in o.set THEN o.doc[f] ELSE db[o.item][f]]

\* The .then after P.resolve() calls bulk.execute: the inserted documents
\* are serialized from item.node as it is now.
send ==
    /\ phase = "built"
    /\ phase' = "sent"
    /\ bops' = [k \in DOMAIN bops |->
                  IF bops[k].kind = "insert" THEN [bops[k] EXCEPT !.doc = node[bops[k].item]]
                  ELSE bops[k]]
    /\ UNCHANGED <<node, nfs, db, batch, snap, changes, faults, hist>>

\* Positions of inserts of an _id the collection holds: duplicate key.
DupKey == {p \in 1..Len(bops) : bops[p].kind = "insert" /\ db[bops[p].item] # NONE}

\* An updateOne that matches no document changes nothing and is no error.
Apply(ps) ==
    [i \in Items |->
        IF \E p \in ps : bops[p].item = i /\ (bops[p].kind = "insert" \/ db[i] # NONE)
          THEN Written(bops[CHOOSE p \in ps : bops[p].item = i])
          ELSE db[i]]

\* node_from_store set to item.node itself instead of its clone.
StoredCopyLive(i) == node[i]

\* nodes_to_store.get(item): the clone taken when the bulk was built.
StoredCopy(i) == snap[i]

(***************************************************************************)
(* bulk.execute and its callback.  The unordered bulk applies every        *)
(* operation without a write error.  "wce": a write concern error, all     *)
(* applied, all items reported failed.  "err": a failure with no write     *)
(* errors, any of the operations applied, all items reported failed.       *)
(* With write errors, failed = items[e.index] and updated is the rest of   *)
(* the list.  node_from_store of every updated item becomes its snapshot.  *)
(***************************************************************************)
execute(outcome, injected, applied) ==
    /\ phase = "sent"
    /\ LET errs == DupKey \cup injected
           failed == {batch[p] : p \in errs}
           updated == IF outcome = "ok" THEN Range(batch) \ failed ELSE {}
       IN /\ outcome = "err" => errs = {}
          /\ db' = Apply(IF outcome = "err" THEN applied ELSE DOMAIN bops \ errs)
          /\ nfs' = [i \in Items |-> IF i \in updated THEN StoredCopy(i) ELSE nfs[i]]
          /\ faults' = IF outcome # "ok" \/ injected # {} THEN faults + 1 ELSE faults
    /\ phase' = "idle"
    /\ batch' = <<>>
    /\ bops' = <<>>
    /\ UNCHANGED <<node, snap, changes, hist>>

\* What the database may do.  Injected write errors stand for the unique
\* (system, pool, name) and peer_id indexes of NODES_COLLECTION; faults stay
\* below the bound.
Execute ==
    \E outcome \in IF faults < MAX_FAULTS THEN {"ok", "wce", "err"} ELSE {"ok"},
       injected \in IF faults < MAX_FAULTS THEN SUBSET DOMAIN bops ELSE {{}},
       applied \in SUBSET DOMAIN bops :
        /\ outcome # "err" => applied = {}
        /\ execute(outcome, injected, applied)

Next ==
    \/ \E i \in Items, f \in Fields, v \in Vals : Change(i, f, v)
    \/ \E l \in Lists : bulk_update(l)
    \/ send
    \/ Execute

Spec == Init /\ [][Next]_vars

(***************************************************************************)
(* Fairness: the monitor keeps calling bulk_update with all its items,    *)
(* the promise tick runs, and a sent bulk completes.                       *)
(***************************************************************************)
FairSpec == Spec /\ WF_vars(bulk_update(ItemOrder)) /\ WF_vars(send) /\ WF_vars(Execute)

(***************************************************************************)
(* Properties.                                                             *)
(***************************************************************************)

(***************************************************************************)
(* An item with a node_from_store has a document in the collection:        *)
(* bulk_update marks an item stored only when its write was applied.       *)
(* Otherwise later diffs are against a document that does not exist and    *)
(* the node is never written.                                              *)
(***************************************************************************)
StoredCopyIsStored == \A i \in Items : nfs[i] # NONE => db[i] # NONE

(***************************************************************************)
(* Once the monitor stops changing nodes and the database stops failing,   *)
(* the collection comes to hold every node as the monitor has it, across   *)
(* changes made while a bulk was executing.                                *)
(***************************************************************************)
NodesConverge == <>[](\A i \in Items : db[i] = node[i])

(***************************************************************************)
(* The collection only ever holds a document its node has actually been:  *)
(* bulk_update's diffs, applied over what the collection holds, never mix  *)
(* fields of different node states into one the node never had.            *)
(***************************************************************************)
Collection == INSTANCE NodeCollection WITH Node <- Node

ImplementsNodeCollection == Collection!Spec

=============================================================================
