-------------------------- MODULE MCReliableChannel --------------------------
(* ReliableChannel on small instances. *)
EXTENDS ReliableChannel

CONSTANTS o1, o2, a1, a2, a3

(* Two nodes in any order, and a supplier that may find none. *)
TwoOrNone == {<<>>, <<a1, a2>>, <<a2, a1>>}

(* WithAddresses of three nodes and WithShuffleAddresses(false). *)
ThreeFixed == {<<a1, a2, a3>>}

SecondMayReject == {{}, {a2}}
=============================================================================
