--------------------------- MODULE MCClusterGroup ---------------------------
(* Two servers and a client; filters of every kind, pairs of which merge, contradict or exclude one another. *)
EXTENDS ClusterGroup, TLC

CONSTANTS n1, n2, n3

MCInfo == n1 :> [isClient |-> FALSE, order |-> 1, attrs |-> {<<"rack", 1>>, <<"zone", 1>>}]
       @@ n2 :> [isClient |-> FALSE, order |-> 2, attrs |-> {<<"rack", 1>>, <<"zone", 2>>}]
       @@ n3 :> [isClient |-> TRUE, order |-> 3, attrs |-> {<<"zone", 1>>}]

Servers == [kind |-> "type", isForClients |-> FALSE]

MCFilters ==
    {Servers, [kind |-> "type", isForClients |-> TRUE],
     [kind |-> "attrs", attrs |-> {<<"rack", 1>>}], [kind |-> "attrs", attrs |-> {<<"zone", 1>>}],
     [kind |-> "attrs", attrs |-> {<<"zone", 2>>}],
     [kind |-> "ids", ids |-> {n2, n3}],
     [kind |-> "pred", keep |-> {n1, n2}], [kind |-> "youngest"], [kind |-> "random"],
     [kind |-> "except", group |-> Servers], Nothing}

MCSeeds == {{}, {n1}}

(* No filter, or one: by the server, by the ids of seeds, by position, and by another group. *)
MCAsked == {<<>>} \cup {<<f>> : f \in {Servers, [kind |-> "ids", ids |-> {n1}], [kind |-> "youngest"],
                                     [kind |-> "except", group |-> Servers]}}

Symmetry == Permutations(Procs)
=============================================================================
