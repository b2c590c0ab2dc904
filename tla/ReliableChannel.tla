--------------------------- MODULE ReliableChannel ---------------------------
(***************************************************************************)
(* The channel every operation of a Client goes through (reliableChannel,  *)
(* reliable_channel.go): it sends an operation over its current tcpChannel, *)
(* connects to another node when that one is closed, and tries again what  *)
(* failed with a ClientConnectionError.                                    *)
(*                                                                         *)
(* A tcpChannel is abstracted to what RequestChannel promises of it: its   *)
(* requests are answered, time out, are lost with the channel, or are      *)
(* refused because it is closed.                                           *)
(***************************************************************************)
EXTENDS Naturals, Sequences, FiniteSets

CONSTANTS Ops,          \* the operations, one goroutine each
          Deadlined,    \* those whose context has a deadline
          Addrs,        \* the nodes' addresses
          AddressLists, \* what addressesSupplier, and the shuffle, may return
          Rejections,   \* which nodes may refuse the handshake
          RetryLimits,  \* what cfg.retryLimit may be, 0 when it is not set
          MaxFailures,  \* bound on the number of node failures
          AttemptsCap,  \* bound on attemptsCnt, beyond every limit
          CanClose      \* the user may close the client

ASSUME ReliableAssumption ==
    /\ Deadlined \subseteq Ops /\ "free" \notin Ops /\ Rejections \subseteq SUBSET Addrs
    /\ AddressLists \subseteq Seq(Addrs) /\ AddressLists # {}
    /\ RetryLimits \subseteq Nat
    /\ MaxFailures \in Nat /\ AttemptsCap \in Nat
    /\ \A l \in AddressLists : Len(l) < AttemptsCap
    /\ CanClose \in BOOLEAN

VARIABLES
    closed,        \* r.closed
    mux,           \* who holds r.mux: an operation, "user" or "free"
    conns,         \* every tcpChannel currCh has been: its address and state
    currCh,        \* r.currCh, an index of conns
    attemptsLimit, \* r.attemptsLimit
    pc,            \* where each operation is
    ch,            \* the tcpChannel of its attempt
    attemptsCnt, limit, connectFailed,  \* the locals of send
    served,        \* the node has executed its current attempt
    replied,       \* an attempt of it got a reply
    answer,        \* what its responseReader was called with
    addresses, i, lastErr,  \* the locals of initConnection, under r.mux
    up, failures,  \* the nodes that run, how many have failed
    rejecting,     \* the nodes that refuse the handshake
    retryLimit,    \* cfg.retryLimit
    upc            \* the user's close

opVars    == <<pc, ch, attemptsCnt, limit, connectFailed, served, replied, answer>>
connVars  == <<conns, currCh, attemptsLimit>>
initVars  == <<mux, addresses, i, lastErr>>
settings  == <<rejecting, retryLimit>>
nodeVars  == <<up, failures, settings>>
vars == <<closed, opVars, connVars, initVars, nodeVars, upc>>

(* A channel whose socket is broken is not closed until its loops notice. *)
ConnStates == {"live", "broken", "lost", "userClosed"}

IsOpen(c) == conns[c].state \in {"live", "broken"}

Answers == {"none", "reply", "connError", "clientError", "timeout",
            "closedError", "handshakeError", "supplierError"}

TypeOK ==
    /\ closed \in BOOLEAN
    /\ mux \in Ops \cup {"user", "free"}
    /\ conns \in Seq([addr : Addrs, state : ConnStates])
    /\ currCh \in 1..Len(conns)
    /\ attemptsLimit \in 1..AttemptsCap
    /\ pc \in [Ops -> {"idle", "current", "load", "lock", "connect", "attempt",
                       "send", "wait", "done"}]
    /\ ch \in [Ops -> 0..Len(conns)]
    /\ attemptsCnt \in [Ops -> 0..AttemptsCap]
    /\ limit \in [Ops -> 0..AttemptsCap]
    /\ {connectFailed, served, replied} \subseteq [Ops -> BOOLEAN]
    /\ answer \in [Ops -> Answers]
    /\ addresses \in AddressLists \cup {<<>>}
    /\ i \in 0..AttemptsCap /\ lastErr \in {"none", "connError"}
    /\ up \subseteq Addrs /\ failures \in 0..MaxFailures /\ rejecting \in Rejections /\ retryLimit \in RetryLimits
    /\ upc \in {"idle", "lock", "returned"}

(* cfg.retryLimit counts only below the number of addresses. *)
LimitFor(l) == IF retryLimit > 0 /\ retryLimit < Len(l) THEN retryLimit ELSE Len(l)

(* createReliableChannel has made the first connection. *)
Init ==
    /\ closed = FALSE /\ mux = "free"
    /\ rejecting \in Rejections /\ retryLimit \in RetryLimits
    /\ \E l \in AddressLists, a \in Addrs \ rejecting :
          /\ \E n \in 1..Len(l) : l[n] = a
          /\ conns = <<[addr |-> a, state |-> "live"]>>
          /\ attemptsLimit = LimitFor(l)
    /\ currCh = 1
    /\ pc = [r \in Ops |-> "idle"] /\ ch = [r \in Ops |-> 0]
    /\ attemptsCnt = [r \in Ops |-> 0] /\ limit = [r \in Ops |-> 0]
    /\ connectFailed = [r \in Ops |-> FALSE]
    /\ served = [r \in Ops |-> FALSE] /\ replied = [r \in Ops |-> FALSE]
    /\ answer = [r \in Ops |-> "none"]
    /\ addresses = <<>> /\ i = 0 /\ lastErr = "none"
    /\ up = Addrs /\ failures = 0 /\ upc = "idle"

-----------------------------------------------------------------------------
Goto(r, from, to) == pc[r] = from /\ pc' = [pc EXCEPT ![r] = to]

(* The caller's responseReader is called. *)
Report(r, a) == answer' = [answer EXCEPT ![r] = a]

locals == <<attemptsCnt, limit, connectFailed, served, replied>>

opUnchanged == UNCHANGED <<closed, connVars, initVars, nodeVars, upc>>

Start(r) == /\ \/ ~closed /\ Goto(r, "idle", "current") /\ UNCHANGED answer
               \/ closed /\ Goto(r, "idle", "done") /\ Report(r, "connError")
            /\ UNCHANGED <<ch, locals>>
            /\ opUnchanged

(* currentChannel looks at r.closed once, before its loop. *)
CheckClosed(r) == /\ \/ ~closed /\ Goto(r, "current", "load") /\ UNCHANGED answer
                     \/ closed /\ Goto(r, "current", "done") /\ Report(r, "closedError")
                  /\ UNCHANGED <<ch, locals>>
                  /\ opUnchanged

LoadCurrent(r) == /\ IF IsOpen(currCh)
                     THEN Goto(r, "load", "attempt") /\ ch' = [ch EXCEPT ![r] = currCh]
                     ELSE Goto(r, "load", "lock") /\ ch' = ch
                  /\ UNCHANGED <<answer, locals>>
                  /\ opUnchanged

-----------------------------------------------------------------------------
(* initConnection.                                                         *)

initUnchanged == UNCHANGED <<closed, ch, locals, nodeVars, upc>>

(* Mutant: somebody else's new connection is not looked at under the lock. *)
LockAndConnect(r) == /\ mux = "free"
                     /\ \E l \in AddressLists \ {<<>>} :
                           /\ addresses' = l /\ i' = 1 /\ lastErr' = "none"
                           /\ mux' = r /\ Goto(r, "lock", "connect")
                     /\ UNCHANGED <<connVars, answer>>
                     /\ initUnchanged

(* Lock, and look again whether somebody else has connected; if not, ask   *)
(* the supplier.                                                           *)
Lock(r) ==
    /\ mux = "free"
    /\ \/ /\ IsOpen(currCh)
          /\ Goto(r, "lock", "load")
          /\ UNCHANGED <<initVars, answer>>
       \/ /\ ~IsOpen(currCh)
          /\ <<>> \in AddressLists
          /\ Goto(r, "lock", "done") /\ Report(r, "supplierError")
          /\ UNCHANGED initVars
       \/ /\ ~IsOpen(currCh)
          /\ \E l \in AddressLists \ {<<>>} :
                addresses' = l /\ i' = 1 /\ lastErr' = "none"
          /\ mux' = r /\ Goto(r, "lock", "connect")
          /\ UNCHANGED answer
    /\ UNCHANGED connVars
    /\ initUnchanged

Address == addresses[i]
IsLast  == i = Len(addresses)
IsOld   == conns[currCh].addr = Address

(* Mutant: the lock is not released. *)
KeepLock == UNCHANGED mux /\ addresses' = <<>> /\ i' = 0 /\ lastErr' = "none"

Unlock == mux' = "free" /\ addresses' = <<>> /\ i' = 0 /\ lastErr' = "none"

(* initConnection and currentChannel return err, and so does the operation, *)
(* without another attempt.                                                *)
GiveUp(r, err) == /\ Goto(r, "connect", "done") /\ Report(r, err)
                  /\ Unlock
                  /\ UNCHANGED connVars
                  /\ initUnchanged

NextAddress(err) == i' = i + 1 /\ lastErr' = err /\ UNCHANGED <<mux, addresses>>

(* The address that was lost is passed over, even when it is the only one. *)
SkipOld(r) == /\ mux = r /\ pc[r] = "connect" /\ IsOld
              /\ IF IsLast
                 THEN GiveUp(r, "connError")
                 ELSE /\ NextAddress(lastErr)
                      /\ UNCHANGED <<pc, answer, connVars>>
                      /\ initUnchanged

Connect(r) == /\ mux = r /\ pc[r] = "connect" /\ ~IsOld
              /\ Address \in up \ rejecting
              /\ Goto(r, "connect", "load")
              /\ conns' = Append(conns, [addr |-> Address, state |-> "live"])
              /\ currCh' = Len(conns) + 1
              /\ attemptsLimit' = LimitFor(addresses)
              /\ Unlock
              /\ UNCHANGED answer
              /\ initUnchanged

(* Dialling fails, or does not end before the deadline: the next address. *)
ConnectFails(r) == /\ mux = r /\ pc[r] = "connect" /\ ~IsOld
                   /\ Address \notin up \/ r \in Deadlined
                   /\ IF IsLast
                      THEN GiveUp(r, "connError")
                      ELSE /\ NextAddress("connError")
                           /\ UNCHANGED <<pc, answer, connVars>>
                           /\ initUnchanged

(* The deadline ends the handshake: that is no ClientConnectionError and   *)
(* ends the loop, but is wrapped into one.                                 *)
HandshakeTimesOut(r) == /\ mux = r /\ pc[r] = "connect" /\ ~IsOld
                        /\ Address \in up /\ r \in Deadlined
                        /\ GiveUp(r, "connError")

HandshakeFails(r) == /\ mux = r /\ pc[r] = "connect" /\ ~IsOld
                     /\ Address \in up \cap rejecting
                     /\ GiveUp(r, "handshakeError")

InitConnection(r) == \/ Lock(r) \/ SkipOld(r) \/ Connect(r) \/ ConnectFails(r)
                     \/ HandshakeTimesOut(r) \/ HandshakeFails(r)

-----------------------------------------------------------------------------
(* send.                                                                   *)

BeginAttempt(r) ==
    /\ Goto(r, "attempt", "send")
    /\ limit' = [limit EXCEPT ![r] = attemptsLimit]
    /\ attemptsCnt' = [attemptsCnt EXCEPT ![r] = IF @ = AttemptsCap THEN @ ELSE @ + 1]
    /\ UNCHANGED <<ch, connectFailed, served, replied, answer>>
    /\ opUnchanged

(* Mutant: every answer is handed on, the first failure too.               *)
AlwaysHandsOn(r, failed) == TRUE

(* The callback of an attempt: its answer is the caller's.                 *)
HandsOn(r, failed) == ~failed \/ attemptsCnt[r] = limit[r]

(* Mutant: the operation is tried again whatever the answer was.           *)
LeavesAtLimit(r, failed) == attemptsCnt[r] = limit[r]

(* Mutant: one attempt too many.                                           *)
LeavesLate(r, failed) == ~failed \/ attemptsCnt[r] > limit[r]

(* The loop, behind the attempt: there is no other one.                    *)
LeavesLoop(r, failed) == ~failed \/ attemptsCnt[r] = limit[r]

(* The attempt is answered with a: connectFailed is never reset, and the   *)
(* loop goes on while it is set and the limit is not met exactly.  The     *)
(* callback runs within the send of the attempt, in the same goroutine,    *)
(* and both look at locals: it is one step with the loop's test.           *)
Callback(r, from, a) ==
    LET failed == connectFailed[r] \/ a = "connError"
    IN /\ connectFailed' = [connectFailed EXCEPT ![r] = failed]
       /\ IF HandsOn(r, failed) THEN Report(r, a) ELSE UNCHANGED answer
       /\ Goto(r, from, IF LeavesLoop(r, failed) THEN "done" ELSE "current")
       /\ ch' = [ch EXCEPT ![r] = 0]
       /\ served' = [served EXCEPT ![r] = FALSE]
       /\ UNCHANGED <<attemptsCnt, limit>>
       /\ opUnchanged

SendAttempt(r) == \/ /\ Goto(r, "send", "wait")
                     /\ IsOpen(ch[r])
                     /\ UNCHANGED <<ch, locals, answer>>
                     /\ opUnchanged
                  \/ /\ pc[r] = "send" /\ ~IsOpen(ch[r])
                     /\ Callback(r, "send", "connError") /\ UNCHANGED replied

(* The node's reply may still be on this side of a broken socket. *)
GetReply(r) == /\ pc[r] = "wait" /\ served[r] /\ IsOpen(ch[r])
               /\ Callback(r, "wait", "reply")
               /\ replied' = [replied EXCEPT ![r] = TRUE]

(* A channel closed by its user gives either class of error. *)
LoseReply(r) == /\ pc[r] = "wait" /\ ~IsOpen(ch[r])
                /\ \/ Callback(r, "wait", "connError")
                   \/ /\ conns[ch[r]].state = "userClosed"
                      /\ Callback(r, "wait", "clientError")
                /\ UNCHANGED replied

TimeOut(r) == /\ r \in Deadlined /\ pc[r] = "wait" /\ IsOpen(ch[r])
              /\ Callback(r, "wait", "timeout")
              /\ UNCHANGED replied

Send(r) == \/ CheckClosed(r) \/ LoadCurrent(r) \/ InitConnection(r)
           \/ BeginAttempt(r) \/ SendAttempt(r) \/ GetReply(r) \/ LoseReply(r)
           \/ TimeOut(r)

-----------------------------------------------------------------------------
(* The nodes, and the loops of the channels, which notice a broken socket. *)

Execute(r) == /\ pc[r] = "wait" /\ conns[ch[r]].state = "live" /\ ~served[r]
              /\ served' = [served EXCEPT ![r] = TRUE]
              /\ UNCHANGED <<pc, ch, attemptsCnt, limit, connectFailed, replied, answer>>
              /\ opUnchanged

NodeFails(a) == /\ a \in up /\ failures < MaxFailures
                /\ up' = up \ {a} /\ failures' = failures + 1
                /\ UNCHANGED settings
                /\ conns' = [c \in DOMAIN conns |->
                               IF conns[c].addr = a /\ conns[c].state = "live"
                               THEN [conns[c] EXCEPT !.state = "broken"] ELSE conns[c]]
                /\ UNCHANGED <<closed, opVars, currCh, attemptsLimit, initVars, upc>>

NodeStarts(a) == /\ a \in Addrs \ up
                 /\ up' = up \cup {a}
                 /\ UNCHANGED <<closed, opVars, connVars, initVars, failures, settings, upc>>

NoticeBroken(c) == /\ conns[c].state = "broken"
                   /\ conns' = [conns EXCEPT ![c].state = "lost"]
                   /\ UNCHANGED <<closed, opVars, currCh, attemptsLimit, initVars,
                                  nodeVars, upc>>

-----------------------------------------------------------------------------
(* close.  The lock is held from Lock on, the close of the channel is done *)
(* when it is released.                                                    *)

userUnchanged == UNCHANGED <<opVars, currCh, attemptsLimit, initVars, nodeVars>>

Close == /\ CanClose /\ upc = "idle"
         /\ closed' = TRUE /\ upc' = "lock"
         /\ UNCHANGED conns
         /\ userUnchanged

CloseCurrent == /\ upc = "lock" /\ mux = "free"
                /\ upc' = "returned"
                /\ conns' = IF IsOpen(currCh)
                            THEN [conns EXCEPT ![currCh].state = "userClosed"]
                            ELSE conns
                /\ UNCHANGED closed
                /\ userUnchanged

Next == \/ \E r \in Ops : Start(r) \/ Send(r) \/ Execute(r)
        \/ \E a \in Addrs : NodeFails(a) \/ NodeStarts(a)
        \/ \E c \in DOMAIN conns : NoticeBroken(c)
        \/ Close \/ CloseCurrent

Spec == Init /\ [][Next]_vars

(* Goroutines run, the loops notice a broken socket, and a node that runs  *)
(* executes and answers what it gets.                                      *)
FairSpec == /\ Spec
            /\ \A r \in Ops : WF_vars(Send(r)) /\ WF_vars(Execute(r))
            /\ WF_vars(CloseCurrent)
            /\ WF_vars(\E c \in DOMAIN conns : NoticeBroken(c))

-----------------------------------------------------------------------------
(* Correctness.                                                            *)

(* An operation makes no more attempts than the limit it has read for the  *)
(* last of them, however often the connection is lost and the limit read   *)
(* anew (send).  The test of the loop is one for equality: suppliers whose *)
(* lists differ in length break this and OperationsEnd.                    *)
RetriesBounded == \A r \in Ops : attemptsCnt[r] <= limit[r]

(* At most one connection is open at any time, however many operations     *)
(* find the current one closed at once (initConnection looks again under   *)
(* the lock).                                                              *)
OneConnection == Cardinality({c \in DOMAIN conns : IsOpen(c)}) <= 1

(* The failure of one node reaches no operation without a deadline as a    *)
(* connection error: the retry goes to another node (send, initConnection), *)
(* unless cfg.retryLimit, which no option sets yet, allows for none.       *)
FailureHidden ==
    failures <= 1 /\ ~closed /\ retryLimit # 1 =>
        \A r \in Ops \ Deadlined : answer[r] \notin {"connError", "clientError"}

(* An operation is not sent again once the node has answered an attempt.   *)
NoReplay == \A r \in Ops : replied[r] => pc[r] = "done"

(* An operation ends (send stops at attemptsLimit), when the supplier's    *)
(* lists are of one length. *)
OperationsEnd == \A r \in Ops : pc[r] = "current" ~> pc[r] = "done"
=============================================================================
