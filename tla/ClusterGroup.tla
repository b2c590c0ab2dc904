---------------------------- MODULE ClusterGroup ----------------------------
(***************************************************************************)
(* A cluster group and its cache of nodes (cluster.go). A group is built   *)
(* from filters and then asked for its nodes, by several goroutines while  *)
(* nodes join and leave. The ids come from one request, the details of     *)
(* those not in the cache from another; every access to the sync.Map of    *)
(* the cache is a step of its own.                                         *)
(***************************************************************************)
EXTENDS Projection

CONSTANTS
    Procs,           \* goroutines that use the group
    FilterChoices,   \* the filters groups are built from
    Seeds,           \* the nodes that ForClusterNodes may be given, a set of sets
    MaxFilters,      \* how many filters a group has
    Asked,           \* the lists of filters of the groups that are used
    MaxChanges       \* joins and leaves

ASSUME ClusterAssumption ==
    /\ FilterChoices \subseteq Filters /\ Seeds \subseteq SUBSET Nodes
    /\ Asked \subseteq Seq(Filters)
    /\ MaxFilters \in Nat /\ MaxChanges \in Nat

VARIABLES
    requested,  \* the filters the user asked for, in order
    projection, \* what became of them
    built,      \* GetClusterGroup has returned the group
    topology, version, gone, \* the cluster: its nodes, the number of the topology, nodes that have left
    nodes, topVer, \* the group's cache: ids it has details of, the version it was pruned with
    pc, ask,    \* per goroutine: where it is, the node it asks for or {} for all
    snapshot,   \* per goroutine: the topology its ids were taken from
    ids, ver,   \* per goroutine: nodeIds and topVer of the answer
    loaded,     \* per goroutine: g.topVer.Load()
    visit,      \* per goroutine: nodes a loop still has to delete, load or store
    found,      \* per goroutine: nodes it has details of
    result,     \* per goroutine: what it returned
    seen        \* the topologies of the answers with ids since nobody was calling

group == <<requested, projection, built>>
cluster == <<topology, version, gone>>
cache == <<nodes, topVer>>
answer == <<snapshot, ids, ver>>
vars == <<group, cluster, cache, pc, ask, answer, loaded, visit, found, result, seen>>

Init ==
    /\ requested = <<>> /\ projection = <<>> /\ built = FALSE
    /\ topology \in (SUBSET Nodes) \ {{}} /\ version = 0 /\ gone = {}
    /\ nodes = {} /\ topVer = 0
    /\ pc = [p \in Procs |-> "idle"] /\ seen = {}
    /\ ask = [p \in Procs |-> {}] /\ snapshot = ask /\ ids = ask /\ visit = ask /\ found = ask /\ result = ask
    /\ ver = [p \in Procs |-> 0] /\ loaded = [p \in Procs |-> 0]

-----------------------------------------------------------------------------
(* GetClusterGroup: the options one after the other. *)

AddFilter(f) ==
    /\ ~built /\ Len(requested) < MaxFilters
    /\ requested' = Append(requested, f)
    /\ projection' = appendFilter(projection, f)
    /\ UNCHANGED <<built, cluster, cache, pc, ask, answer, loaded, visit, found, result, seen>>

(* ForClusterNodes: a filter by ids that also fills the cache. *)
AddClusterNodes(ns) ==
    /\ ~built /\ Len(requested) < MaxFilters
    /\ LET f == IF ns = {} THEN Nothing ELSE [kind |-> "ids", ids |-> ns]
       IN requested' = Append(requested, f) /\ projection' = appendFilter(projection, f)
    /\ nodes' = nodes \cup ns
    /\ UNCHANGED <<built, cluster, topVer, pc, ask, answer, loaded, visit, found, result, seen>>

GetClusterGroup ==
    /\ ~built /\ requested \in Asked
    /\ built' = TRUE
    /\ UNCHANGED <<requested, projection, cluster, cache, pc, ask, answer, loaded, visit, found, result, seen>>

-----------------------------------------------------------------------------
(* The cluster. A node that has left comes back with another id, and a node joins with the highest order. *)

TopologyChanges ==
    /\ version < MaxChanges /\ version' = version + 1
    /\ \/ \E n \in topology : topology # {n} /\ topology' = topology \ {n} /\ gone' = gone \cup {n}
       \/ \E n \in Nodes \ (topology \cup gone) :
             /\ \A m \in topology \cup gone : Info[m].order < Info[n].order
             /\ topology' = topology \cup {n} /\ UNCHANGED gone
    /\ UNCHANGED <<group, cache, pc, ask, answer, loaded, visit, found, result, seen>>

-----------------------------------------------------------------------------
(* Nodes and Node. *)

Goto(p, at) == pc' = [pc EXCEPT ![p] = at]

(* Nobody is calling. *)
AtRest == \A p \in Procs : pc[p] \in {"idle", "returned"}

(* A call begins with what an earlier one of the goroutine has left forgotten. *)
Enter(p, asked, at) ==
    /\ built /\ pc[p] \in {"idle", "returned"}
    /\ Goto(p, at) /\ ask' = [ask EXCEPT ![p] = asked]
    /\ snapshot' = [snapshot EXCEPT ![p] = IF at = "returned" THEN topology ELSE {}]
    /\ result' = [result EXCEPT ![p] = {}]
    /\ seen' = IF AtRest THEN {} ELSE seen
    /\ UNCHANGED <<group, cluster, cache, ids, ver, loaded, visit, found>>

BeginNodes(p) == Enter(p, {}, "askIds")

BeginNode(p, n) == Enter(p, {n}, IF isExcludedByFilters(projection, n) THEN "returned" ELSE "askIds")

(* The node answers opClusterGroupGetNodeIds; the answer may be long on its way. *)
NodeAnswersIds(p) ==
    /\ pc[p] = "askIds" /\ Goto(p, "gotIds")
    /\ snapshot' = [snapshot EXCEPT ![p] = topology]
    /\ ver' = [ver EXCEPT ![p] = version]
    /\ \E a \in ServerAnswers(projection, topology) : ids' = [ids EXCEPT ![p] = a]
    /\ seen' = seen \cup {topology}
    /\ UNCHANGED <<group, cluster, cache, ask, loaded, visit, found, result>>

LoadTopVer(p) ==
    /\ pc[p] = "gotIds" /\ Goto(p, "swap")
    /\ loaded' = [loaded EXCEPT ![p] = topVer]
    /\ UNCHANGED <<group, cluster, cache, ask, answer, visit, found, result, seen>>

(* The ids a call wants details of. *)
Wanted(p) == IF ask[p] = {} THEN ids[p] ELSE ask[p] \cap ids[p]

CompareAndSwap(p) ==
    /\ pc[p] = "swap"
    /\ \/ /\ topVer = loaded[p] /\ topVer' = ver[p]
          /\ Goto(p, "range") /\ UNCHANGED visit
       \/ /\ topVer # loaded[p] /\ UNCHANGED topVer
          /\ Goto(p, "load") /\ visit' = [visit EXCEPT ![p] = Wanted(p)]
    /\ UNCHANGED <<group, cluster, nodes, ask, answer, loaded, found, result, seen>>

(* Mutant: a node that came back is not pruned, nor is any other. *)
PrunesNothing(p) == {}

(* The keys that Range finds and the loop will delete. *)
ToPrune(p) == nodes \ ids[p]

BeginRange(p) ==
    /\ pc[p] = "range" /\ Goto(p, "prune")
    /\ visit' = [visit EXCEPT ![p] = ToPrune(p)]
    /\ UNCHANGED <<group, cluster, cache, ask, answer, loaded, found, result, seen>>

Prune(p) ==
    /\ pc[p] = "prune"
    /\ \/ \E n \in visit[p] : nodes' = nodes \ {n} /\ visit' = [visit EXCEPT ![p] = @ \ {n}] /\ UNCHANGED pc
       \/ /\ visit[p] = {} /\ UNCHANGED nodes
          /\ Goto(p, "load") /\ visit' = [visit EXCEPT ![p] = Wanted(p)]
    /\ UNCHANGED <<group, cluster, topVer, ask, answer, loaded, found, result, seen>>

(* getOrRequestNodes: what is cached, id by id, then one request for the rest. *)
LoadCached(p) ==
    /\ pc[p] = "load"
    /\ \/ \E n \in visit[p] : /\ found' = [found EXCEPT ![p] = @ \cup ({n} \cap nodes)]
                              /\ visit' = [visit EXCEPT ![p] = @ \ {n}] /\ UNCHANGED pc
       \/ /\ visit[p] = {} /\ UNCHANGED <<found, visit>>
          /\ Goto(p, IF found[p] = Wanted(p) THEN "apply" ELSE "askNodes")
    /\ UNCHANGED <<group, cluster, cache, ask, answer, loaded, result, seen>>

(* The node answers opClusterGroupGetNodes with those that are still there. *)
NodeAnswersNodes(p) ==
    /\ pc[p] = "askNodes" /\ Goto(p, "store")
    /\ LET there == (Wanted(p) \ found[p]) \cap topology
       IN visit' = [visit EXCEPT ![p] = there] /\ found' = [found EXCEPT ![p] = @ \cup there]
    /\ UNCHANGED <<group, cluster, cache, ask, answer, loaded, result, seen>>

Store(p) ==
    /\ pc[p] = "store"
    /\ \/ \E n \in visit[p] : nodes' = nodes \cup {n} /\ visit' = [visit EXCEPT ![p] = @ \ {n}] /\ UNCHANGED pc
       \/ visit[p] = {} /\ Goto(p, "apply") /\ UNCHANGED <<nodes, visit>>
    /\ UNCHANGED <<group, cluster, topVer, ask, answer, loaded, found, result, seen>>

(* What a call holds is garbage when it has returned. *)
Leave(p, at) ==
    /\ Goto(p, at)
    /\ ids' = [ids EXCEPT ![p] = {}] /\ ver' = [ver EXCEPT ![p] = 0] /\ loaded' = [loaded EXCEPT ![p] = 0]
    /\ visit' = [visit EXCEPT ![p] = {}] /\ found' = [found EXCEPT ![p] = {}]
    /\ UNCHANGED <<group, cluster, cache, ask>>

(* Mutant: everything in the cache is taken for a node of the group. *)
CacheAnswers(p) == nodes

(* The nodes the projection is applied to. *)
Candidates(p) == found[p]

(* g.projection.apply; another group is asked for its nodes only now. *)
ApplyProjection(p) ==
    /\ pc[p] = "apply" /\ Leave(p, "returned")
    /\ \E r \in Apply(projection, Candidates(p), topology) : result' = [result EXCEPT ![p] = r]
    /\ UNCHANGED <<snapshot, seen>>

RequestFails(p) ==
    /\ \/ pc[p] \in {"askIds", "askNodes"}
       \/ pc[p] = "apply" /\ \E i \in DOMAIN projection : projection[i].kind = "except"
    /\ Leave(p, "idle")
    /\ snapshot' = [snapshot EXCEPT ![p] = {}]
    /\ UNCHANGED <<result, seen>>

Call(p) ==
    \/ BeginNodes(p) \/ \E n \in Nodes : BeginNode(p, n)
    \/ NodeAnswersIds(p) \/ LoadTopVer(p) \/ CompareAndSwap(p) \/ BeginRange(p) \/ Prune(p)
    \/ LoadCached(p) \/ NodeAnswersNodes(p) \/ Store(p) \/ ApplyProjection(p) \/ RequestFails(p)

Next ==
    \/ \E f \in FilterChoices : AddFilter(f)
    \/ \E ns \in Seeds : AddClusterNodes(ns)
    \/ GetClusterGroup \/ TopologyChanges
    \/ \E p \in Procs : Call(p)

Spec == Init /\ [][Next]_vars

-----------------------------------------------------------------------------
(* Correctness.                                                            *)

Positions == {i \in DOMAIN requested : requested[i].kind \in {"oldest", "youngest", "random"}}

(* The filters are applied in the order in which they were passed to       *)
(* GetClusterGroup: however appendFilter merges them, and whatever part of *)
(* them the server reads and applies, the projection of the server's       *)
(* answer is what the filters make of the whole topology.                  *)
ProjectionFaithful ==
    ~built => \A t \in SUBSET Nodes : \A a \in ServerAnswers(projection, t) :
                 Apply(projection, a, t) = Apply(requested, t, t)

(* Nodes and Node return what the filters make of one topology, that of    *)
(* the answer with the ids; nodes that have left since may be missing, and *)
(* nothing comes out of the cache that was not there. The other group of   *)
(* ExceptGroupNodes may be that of a later moment. Node does not look at   *)
(* filters by position.                                                    *)
ResultIsOfSnapshot ==
    \A p \in Procs : pc[p] = "returned" /\ (ask[p] = {} \/ Positions = {}) =>
        \E a, o \in SUBSET snapshot[p] :
            /\ snapshot[p] \cap topology \subseteq a \cap o
            /\ \E r \in Apply(requested, a, o) : result[p] = IF ask[p] = {} THEN r ELSE r \cap ask[p]

(* The dead are forgotten, the cache does not grow with every node that    *)
(* ever was: when the calls that overlapped are over, and the ids of all   *)
(* of them came from one topology, the cache holds only nodes of that one, *)
(* whoever of them won the compare-and-swap, pruned, stored or failed.     *)
(* Calls that were answered from two topologies may leave it with nodes    *)
(* of the older one, until a later call.                                   *)
CacheFollows == AtRest => \A t \in seen : seen = {t} => nodes \subseteq t
=============================================================================
