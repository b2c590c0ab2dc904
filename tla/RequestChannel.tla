--------------------------- MODULE RequestChannel ---------------------------
(***************************************************************************)
(* What a channel to an Ignite node promises to the callers of its send:   *)
(* every request gets one fate, a reply is one the server really gave, a   *)
(* request that was refused never reaches the server, and an answer is     *)
(* given up only for a reason (a deadline, a closed channel, an answer     *)
(* that cannot be decoded).  TcpChannel implements this specification.     *)
(***************************************************************************)

CONSTANTS Reqs,       \* the requests
          Deadlined   \* those sent with a deadline

VARIABLES fate,       \* what the caller of each request knows
          executed,   \* the requests the server has executed
          open        \* the channel accepts requests

vars == <<fate, executed, open>>

Fates == {"new", "sent", "replied", "refused", "timedOut", "lost"}

Init == /\ fate = [r \in Reqs |-> "new"]
        /\ executed = {}
        /\ open = TRUE

Become(r, from, to) == /\ fate[r] = from
                       /\ fate' = [fate EXCEPT ![r] = to]

Submit(r) == /\ open
             /\ Become(r, "new", "sent")
             /\ UNCHANGED <<executed, open>>

Refuse(r) == /\ Become(r, "new", "refused")
             /\ UNCHANGED <<executed, open>>

(* The server may execute a request after its caller has given up on it. *)
Execute(r) == /\ fate[r] \in {"sent", "timedOut", "lost"}
              /\ r \notin executed
              /\ executed' = executed \cup {r}
              /\ UNCHANGED <<fate, open>>

Reply(r) == /\ r \in executed
            /\ Become(r, "sent", "replied")
            /\ UNCHANGED <<executed, open>>

TimeOut(r) == /\ r \in Deadlined
              /\ Become(r, "sent", "timedOut")
              /\ UNCHANGED <<executed, open>>

Lose(r) == /\ ~open \/ r \in executed
           /\ Become(r, "sent", "lost")
           /\ UNCHANGED <<executed, open>>

Close == /\ open
         /\ open' = FALSE
         /\ UNCHANGED <<fate, executed>>

Next == \/ Close
        \/ \E r \in Reqs : \/ Submit(r) \/ Refuse(r) \/ Execute(r)
                           \/ Reply(r) \/ TimeOut(r) \/ Lose(r)

Spec == Init /\ [][Next]_vars
=============================================================================
