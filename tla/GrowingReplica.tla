--------------------------- MODULE GrowingReplica ---------------------------
(***************************************************************************)
(* What a cache of type metadata promises, whatever it asks and when: the  *)
(* source only ever grows, the replica holds nothing the source does not   *)
(* hold, and it loses nothing except by being emptied as a whole.          *)
(***************************************************************************)

VARIABLES source,    \* everything known, a set
          replica    \* the part of it that is known here

SourceGrows == source \subseteq source' /\ UNCHANGED replica

Learn == replica \subseteq replica' /\ replica' \subseteq source /\ UNCHANGED source

Forget == replica' = {} /\ UNCHANGED source

Init == replica \subseteq source

Next == SourceGrows \/ Learn \/ Forget

Spec == Init /\ [][Next]_<<source, replica>>
=============================================================================
