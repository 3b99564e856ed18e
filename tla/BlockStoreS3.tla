---------------------------- MODULE BlockStoreS3 ----------------------------
(***************************************************************************)
(* src/agent/block_store_s3.js: an agent's block store kept in an S3       *)
(* bucket.  Each block is one object; the agent also keeps a usage counter *)
(* {size, count} in memory (_usage) and copies it, after every write, into *)
(* the metadata of an object at usage_path.                                *)
(*                                                                         *)
(* Concurrency.  The agent runs any number of _write_block calls at once;  *)
(* each is a chain of S3 requests (headObject, putObject of the block,     *)
(* putObject of the usage object) and the calls interleave between them.   *)
(* Every S3 request may be answered ok, with a 400/301 region error, or    *)
(* fail; the client switches once to signature v4 in eu-central-1          *)
(* (_try_change_region) and retries.  The agent process may restart: the   *)
(* memory is lost, and requests already sent may still land.               *)
(***************************************************************************)
EXTENDS Integers

CONSTANTS
    Blocks,         \* block ids
    Writers,        \* concurrent _write_block calls
    DataSizes,      \* data.length of a written block
    MdSizes,        \* encoded_md.length of a written block
    BucketRegions,  \* regions the bucket may be in: "us-east-1", "eu-central-1", others
    Flaky,          \* whether S3 requests may fail outright
    NONE,
    MAX_WRITES,     \* bound on _write_block calls in a behaviour
    MAX_RESTARTS    \* bound on agent restarts in a behaviour

VARIABLES
    region,    \* the region the target bucket is in (fixed)
    objects,   \* the bucket: key -> object or NONE
    usage,     \* this._usage
    sig,       \* s3cloud.config: "default" or "v4eu" (v4, eu-central-1)
    ready,     \* "init" until init() has run, then "up"
    pc,        \* per write call: "idle", "head", "put", "usage_put"
    wr,        \* per write call: its block, sizes and what it captured
    orphans,   \* puts sent by a process that has since restarted
    writes,    \* _write_block calls so far
    restarts   \* restarts so far

vars == <<region, objects, usage, sig, ready, pc, wr, orphans, writes, restarts>>

(***************************************************************************)
(* Keys.  _block_key(id) puts a block under blocks_path; the usage object  *)
(* lives at usage_path itself.                                             *)
(***************************************************************************)
BlockKey(id) == <<"blocks_tree", id>>
UsagePath == <<"usage">>
Keys == {BlockKey(b) : b \in Blocks} \cup {UsagePath, BlockKey(UsagePath)}

Usage(s, c) == [size |-> s, count |-> c]
BlockObject(d, m) == [data |-> d, md |-> m]
UsageObject(u) == [usage |-> u]

\* What S3 answers a request sent with the client's current configuration.
S3Outcomes(cfg) ==
    LET routed == CASE region = "us-east-1"          -> "ok"
                    [] region = "eu-central-1"       -> IF cfg = "v4eu" THEN "ok" ELSE "redirect"
                    [] OTHER                         -> "redirect"
    IN  {routed} \cup (IF Flaky THEN {"fail"} ELSE {})

\* _try_change_region: only a 400/301 answer to a client not yet on v4
\* switches it, and the request is retried.
\* The region retry without the check that the client is not yet on v4.
TryChangeRegionAlways(out) == out = "redirect"

TryChangeRegion(out) == out = "redirect" /\ sig # "v4eu"

Init ==
    /\ region \in BucketRegions
    /\ objects = [k \in Keys |-> NONE]
    /\ usage = Usage(0, 0)
    /\ sig = "default"
    /\ ready = "init"
    /\ pc = [w \in Writers |-> "idle"]
    /\ wr = [w \in Writers |-> NONE]
    /\ orphans = {}
    /\ writes = 0
    /\ restarts = 0

(***************************************************************************)
(* init(): headObject of _block_key(usage_path); if it carries usage       *)
(* metadata, _usage is restored from it.  Any error is swallowed.          *)
(***************************************************************************)
init(out) ==
    /\ ready = "init"
    /\ LET o == objects[BlockKey(UsagePath)] IN
        usage' = IF out = "ok" /\ o # NONE /\ "usage" \in DOMAIN o THEN o.usage ELSE usage
    /\ ready' = "up"
    /\ UNCHANGED <<objects, sig, pc, wr, orphans, writes, restarts>>

(***************************************************************************)
(* _write_block(block_md, data), step 1: headObject of the block's key.    *)
(* An existing object's size (body plus metadata) is to be subtracted; an  *)
(* error of any kind is taken as "no object".                              *)
(***************************************************************************)
write_block(w, b, d, m) ==
    /\ ready = "up" /\ pc[w] = "idle" /\ writes < MAX_WRITES
    /\ pc' = [pc EXCEPT ![w] = "head"]
    /\ wr' = [wr EXCEPT ![w] = [block |-> b, data |-> d, md |-> m,
                                 ovSize |-> 0, ovCount |-> 0, val |-> NONE]]
    /\ writes' = writes + 1
    /\ UNCHANGED <<objects, usage, sig, ready, orphans, restarts>>

head_response(w, out) ==
    /\ pc[w] = "head"
    /\ LET o == objects[BlockKey(wr[w].block)]
           found == out = "ok" /\ o # NONE
       IN  wr' = [wr EXCEPT ![w].ovSize = IF found THEN o.data + o.md ELSE 0,
                            ![w].ovCount = IF found THEN 1 ELSE 0]
    /\ pc' = [pc EXCEPT ![w] = "put"]
    /\ UNCHANGED <<objects, usage, sig, ready, orphans, writes, restarts>>

(***************************************************************************)
(* Step 2: _put_object of the block.  When it resolves, the usage delta    *)
(* is added to _usage (_update_usage, synchronously) and the new _usage    *)
(* is sent in a put of the usage object.                                   *)
(***************************************************************************)
AddUsage(u, x) ==
    Usage(u.size + x.data + x.md - x.ovSize, u.count + 1 - x.ovCount)

put_block(w, out) ==
    /\ pc[w] = "put"
    /\ LET x == wr[w] IN
        CASE out = "ok" ->
                /\ objects' = [objects EXCEPT ![BlockKey(x.block)] = BlockObject(x.data, x.md)]
                /\ usage' = AddUsage(usage, x)
                /\ pc' = [pc EXCEPT ![w] = "usage_put"]
                /\ wr' = [wr EXCEPT ![w].val = AddUsage(usage, x)]
                /\ UNCHANGED sig
          [] TryChangeRegion(out) ->
                /\ sig' = "v4eu"
                /\ UNCHANGED <<objects, usage, pc, wr>>
          [] OTHER ->
                /\ pc' = [pc EXCEPT ![w] = "idle"]
                /\ UNCHANGED <<objects, usage, sig, wr>>
    /\ UNCHANGED <<ready, orphans, writes, restarts>>

\* Step 3: _put_object of the usage object, with the value captured in step 2.
put_usage(w, out) ==
    /\ pc[w] = "usage_put"
    /\ CASE out = "ok" ->
                /\ objects' = [objects EXCEPT ![UsagePath] = UsageObject(wr[w].val)]
                /\ pc' = [pc EXCEPT ![w] = "idle"]
                /\ UNCHANGED sig
          [] TryChangeRegion(out) ->
                /\ sig' = "v4eu"
                /\ UNCHANGED <<objects, pc>>
          [] OTHER ->
                /\ pc' = [pc EXCEPT ![w] = "idle"]
                /\ UNCHANGED <<objects, sig>>
    /\ UNCHANGED <<usage, ready, wr, orphans, writes, restarts>>

(***************************************************************************)
(* _read_block changes nothing but the client configuration, when its     *)
(* first getObject is answered 400/301.                                    *)
(***************************************************************************)
read_block(out) ==
    /\ ready = "up"
    /\ TryChangeRegion(out)
    /\ sig' = "v4eu"
    /\ UNCHANGED <<objects, usage, ready, pc, wr, orphans, writes, restarts>>

(***************************************************************************)
(* _delete_blocks(block_ids): one deleteObjects, retried once after a      *)
(* region change.  The usage counter is not touched.                       *)
(***************************************************************************)
Removed(ids) == [k \in Keys |-> IF \E b \in ids : k = BlockKey(b) THEN NONE ELSE objects[k]]

delete_blocks(ids, out, retryOut) ==
    /\ ready = "up"
    /\ CASE out = "ok" ->
                objects' = Removed(ids) /\ UNCHANGED sig
          [] TryChangeRegion(out) ->
                /\ sig' = "v4eu"
                /\ objects' = IF retryOut = "ok" THEN Removed(ids) ELSE objects
          [] OTHER -> UNCHANGED <<objects, sig>>
    /\ UNCHANGED <<usage, ready, pc, wr, orphans, writes, restarts>>

(***************************************************************************)
(* The agent process restarts: the constructor's fresh _usage and client,  *)
(* no write call running, init() to come.  Puts already sent may land.     *)
(***************************************************************************)
InFlight ==
    {[key |-> BlockKey(wr[w].block), obj |-> BlockObject(wr[w].data, wr[w].md)] :
        w \in {v \in Writers : pc[v] = "put"}}
    \cup {[key |-> UsagePath, obj |-> UsageObject(wr[w].val)] :
        w \in {v \in Writers : pc[v] = "usage_put"}}

Restart ==
    /\ restarts < MAX_RESTARTS
    /\ usage' = Usage(0, 0)
    /\ sig' = "default"
    /\ ready' = "init"
    /\ pc' = [w \in Writers |-> "idle"]
    /\ wr' = [w \in Writers |-> NONE]
    /\ orphans' = orphans \cup InFlight
    /\ restarts' = restarts + 1
    /\ UNCHANGED <<objects, writes>>

\* A put sent before the restart reaches S3, or never does.
OrphanSettles(o) ==
    /\ \/ objects' = [objects EXCEPT ![o.key] = o.obj]
       \/ UNCHANGED objects
    /\ orphans' = orphans \ {o}
    /\ UNCHANGED <<usage, sig, ready, pc, wr, writes, restarts>>

Answers == S3Outcomes(sig)

Next ==
    /\ UNCHANGED region
    /\ \/ \E out \in Answers : init(out) \/ read_block(out)
       \/ \E w \in Writers :
            \/ \E b \in Blocks, d \in DataSizes, m \in MdSizes : write_block(w, b, d, m)
            \/ \E out \in Answers : head_response(w, out) \/ put_block(w, out) \/ put_usage(w, out)
       \/ \E ids \in SUBSET Blocks \ {{}}, out \in Answers, retryOut \in S3Outcomes("v4eu") :
            delete_blocks(ids, out, retryOut)
       \/ Restart
       \/ \E o \in orphans : OrphanSettles(o)

Spec == Init /\ [][Next]_vars

\* S3 answers every request, and the agent's promise chain then goes on.
Respond(w) == UNCHANGED region /\ \E out \in Answers : head_response(w, out) \/ put_block(w, out) \/ put_usage(w, out)
FairSpec == Spec /\ \A w \in Writers : WF_vars(Respond(w))

(***************************************************************************)
(* Properties.                                                             *)
(***************************************************************************)

(***************************************************************************)
(* init() runs after every restart to restore the usage the agent last     *)
(* persisted; its log line says the usage is read from usage_path.  So an  *)
(* init whose request succeeds while a usage object exists must leave      *)
(* _usage equal to that object's usage.                                    *)
(***************************************************************************)
InitRestoresPersistedUsage ==
    [][ready = "init" /\ ready' = "up" /\ region = "us-east-1" /\ objects[UsagePath] # NONE
        => usage' = objects[UsagePath].usage]_vars

(***************************************************************************)
(* Every _write_block call returns: the region retry is taken at most once *)
(* per client, so a bucket that keeps answering 400/301 ends the call with *)
(* an error instead of a retry loop.                                       *)
(***************************************************************************)
WritesComplete == \A w \in Writers : pc[w] # "idle" ~> pc[w] = "idle"

=============================================================================
