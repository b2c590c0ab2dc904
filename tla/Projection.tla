----------------------------- MODULE Projection -----------------------------
(***************************************************************************)
(* The projection of a cluster group (cluster.go): a list of node filters, *)
(* merged where the code merges them, split into what the server filters   *)
(* and what the client filters. A filter is a record; a list of nodes is a *)
(* set, since only ForRandom, ForOldest and ForYoungest look at more than  *)
(* one node and none looks at the order of the list. Info gives what is    *)
(* known of a node and never changes while the node lives.                 *)
(***************************************************************************)
EXTENDS Integers, FiniteSets, Sequences, SequencesExt

CONSTANTS
    Nodes,    \* nodes that ever are in the cluster
    Info      \* [isClient, order, attrs] of each, attrs a set of pairs <<name, value>>

(* A node's attributes are a map. *)
ASSUME ProjectionAssumption ==
    /\ IsFiniteSet(Nodes)
    /\ \A n \in Nodes : /\ Info[n].order \in Int /\ IsFiniteSet(Info[n].attrs)
                        /\ \A a, b \in Info[n].attrs : a[1] = b[1] => a[2] = b[2]

Attrs == UNION {Info[n].attrs : n \in Nodes}
NodeTypes == [kind: {"type"}, isForClients: BOOLEAN]
NodeAttributes == [kind: {"attrs"}, attrs: (SUBSET Attrs) \ {{}}]
NodeIds == [kind: {"ids"}, ids: (SUBSET Nodes) \ {{}}]
Predicates == [kind: {"pred"}, keep: SUBSET Nodes]
(* basicClientSideFilter: by position in the list, or by the nodes of another group, here a group of one filter. *)
Positional == [kind: {"oldest", "youngest", "random"}]
ExceptGroups == [kind: {"except"}, group: NodeTypes \cup NodeAttributes \cup NodeIds]
Nothing == [kind |-> "none"]

ServerSide == NodeTypes \cup NodeAttributes
Filters == ServerSide \cup NodeIds \cup Predicates \cup Positional \cup ExceptGroups \cup {Nothing}

(* emptyProjection: one filter that lets nothing through. *)
EmptyProjection == <<Nothing>>

isReorderingAllowed(f) == f.kind \in {"type", "attrs", "ids", "pred"}

(* Which nodes of a set a filter keeps by looking at each of them alone. *)
Keeps(f, n) ==
    CASE f.kind = "type" -> Info[n].isClient = f.isForClients
      [] f.kind = "attrs" -> f.attrs \subseteq Info[n].attrs
      [] f.kind = "ids" -> n \in f.ids
      [] f.kind = "pred" -> n \in f.keep
      [] OTHER -> FALSE

(* The node a positional filter keeps: any, or one of extreme order; a list of one stays as it is. *)
Picks(f, nodes, n) ==
    CASE f.kind = "random" -> TRUE
      [] f.kind = "oldest" -> \A m \in nodes : Info[n].order <= Info[m].order
      [] f.kind = "youngest" -> \A m \in nodes : Info[n].order >= Info[m].order

(* What may come out of one filter; others is the topology another group sees when it is asked. *)
Outcomes(f, nodes, others) ==
    CASE f.kind \in {"type", "attrs", "ids", "pred", "none"} -> {{n \in nodes : Keeps(f, n)}}
      [] f.kind = "except" -> {{n \in nodes : n \notin others \/ ~Keeps(f.group, n)}}
      [] f.kind \in {"oldest", "youngest", "random"} ->
            IF nodes = {} THEN {{}} ELSE {{n} : n \in {m \in nodes : Picks(f, nodes, m)}}

(* projection.apply: filter after filter. *)
Apply(filters, nodes, others) ==
    LET after[i \in 0 .. Len(filters)] ==
            IF i = 0 THEN {nodes} ELSE UNION {Outcomes(filters[i], s, others) : s \in after[i - 1]}
    IN  after[Len(filters)]

(* merge of the filters of one kind: the filter that does what both do; Nothing when no node can pass. *)
Mergeable(prev, f) == prev.kind = f.kind /\ f.kind \in {"type", "attrs", "ids"}

Contradict(prev, f) ==
    CASE f.kind = "type" -> prev.isForClients # f.isForClients
      [] f.kind = "attrs" -> \E a \in prev.attrs, b \in f.attrs : a[1] = b[1] /\ a[2] # b[2]
      [] f.kind = "ids" -> prev.ids \cap f.ids = {}

Merge(prev, f) ==
    CASE f.kind = "type" -> prev
      [] f.kind = "attrs" -> [prev EXCEPT !.attrs = @ \cup f.attrs]
      [] f.kind = "ids" -> [prev EXCEPT !.ids = @ \cap f.ids]

(* Mutant: a filter is merged into an earlier one across filters that must keep their place. *)
MergesAnywhere(filters, f) == {i \in DOMAIN filters : Mergeable(filters[i], f)}

(* Where appendFilter may merge a filter: behind the last filter that must keep its place. *)
MergePoints(filters, f) ==
    {i \in DOMAIN filters : /\ isReorderingAllowed(f)
                            /\ \A j \in i..Len(filters) : isReorderingAllowed(filters[j])
                            /\ Mergeable(filters[i], f)}

appendFilter(filters, f) ==
    IF filters = EmptyProjection \/ f = Nothing THEN EmptyProjection
    ELSE LET points == MergePoints(filters, f)
             at == CHOOSE i \in points : \A j \in points : j <= i
         IN CASE points = {} -> Append(filters, f)
              [] points # {} /\ Contradict(filters[at], f) -> EmptyProjection
              [] OTHER -> [filters EXCEPT ![at] = Merge(@, f)]

(* writeServerSideFilters: where the server's filters are, before the first that must keep its place. *)
ServerFilters(filters) ==
    {i \in DOMAIN filters : filters[i] \in ServerSide /\ \A j \in 1 .. i : isReorderingAllowed(filters[j])}

(* What a filter writes: one entry, or one for every attribute, in the order of a Go map. *)
Entries(f) == IF f.kind = "attrs" THEN {[i \in DOMAIN l |-> [f EXCEPT !.attrs = {l[i]}]] : l \in SetToSeqs(f.attrs)}
              ELSE {<<f>>}

Written(filters, i) == IF i \in ServerFilters(filters) THEN Entries(filters[i]) ELSE {<<>>}
Longer(lists, more) == {l \o e : l \in lists, e \in more}

(* The lists of entries the server may read: the count before them is that of the filters, not of the entries. *)
FiltersRead(filters) ==
    LET written[i \in 0 .. Len(filters)] ==
            IF i = 0 THEN {<<>>} ELSE Longer(written[i - 1], Written(filters, i))
    IN  {SubSeq(l, 1, Cardinality(ServerFilters(filters))) : l \in written[Len(filters)]}

(* The nodes of a topology the server may answer with. *)
ServerAnswers(filters, topology) ==
    {{n \in topology : \A i \in DOMAIN l : Keeps(l[i], n)} : l \in FiltersRead(filters)}

(* isExcludedByFilters: a group of exactly one filter, by ids, knows whom it cannot contain. *)
isExcludedByFilters(filters, n) ==
    Len(filters) = 1 /\ filters[1].kind = "ids" /\ n \notin filters[1].ids
=============================================================================
