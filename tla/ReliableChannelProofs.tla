------------------------ MODULE ReliableChannelProofs ------------------------
(***************************************************************************)
(* The safety of the reliableChannel, for any number of operations, nodes, *)
(* address lists, node failures and retries.                               *)
(***************************************************************************)
EXTENDS ReliableChannel, FiniteSetTheorems, SequenceTheorems, TLAPS

Places == {"idle", "current", "load", "lock", "connect", "attempt", "send", "wait", "done"}

-----------------------------------------------------------------------------
(* Where operations are.                                                   *)

Placed == pc \in [Ops -> Places]

LEMMA InitPlaced == Init => Placed
  BY DEF Init, Placed, Places

(* Every step moves one operation to another place, or none.               *)
LEMMA PlacedStep == Placed /\ [Next]_vars => Placed'
<1> SUFFICES ASSUME Placed, [Next]_vars PROVE Placed'
  OBVIOUS
<1>1. ASSUME NEW r \in Ops, NEW from, NEW to \in Places, Goto(r, from, to) PROVE Placed'
  BY <1>1 DEF Placed, Goto
<1>2. ASSUME NEW r \in Ops, NEW from, NEW a, Callback(r, from, a) PROVE Placed'
  BY <1>1, <1>2 DEF Callback, Places
<1>3. ASSUME NEW r \in Ops, NEW err, GiveUp(r, err) PROVE Placed'
  BY <1>1, <1>3 DEF GiveUp, Places
<1>4. ASSUME NEW r \in Ops, Start(r) \/ CheckClosed(r) \/ LoadCurrent(r) \/ BeginAttempt(r) PROVE Placed'
  BY <1>1, <1>4 DEF Start, CheckClosed, LoadCurrent, BeginAttempt, Places
<1>5. ASSUME NEW r \in Ops, InitConnection(r) PROVE Placed'
  <2>1. CASE Lock(r) \/ Connect(r)
    BY <1>1, <2>1 DEF Lock, Connect, Places
  <2>2. CASE SkipOld(r) \/ ConnectFails(r)
    BY <1>3, <2>2 DEF SkipOld, ConnectFails, Placed
  <2>3. CASE HandshakeTimesOut(r) \/ HandshakeFails(r)
    BY <1>3, <2>3 DEF HandshakeTimesOut, HandshakeFails
  <2> QED BY <1>5, <2>1, <2>2, <2>3 DEF InitConnection
<1>6. ASSUME NEW r \in Ops, SendAttempt(r) \/ GetReply(r) \/ LoseReply(r) \/ TimeOut(r) PROVE Placed'
  BY <1>1, <1>2, <1>6 DEF SendAttempt, GetReply, LoseReply, TimeOut, Places
<1>7. ASSUME \/ \E r \in Ops : Execute(r)
             \/ \E a \in Addrs : NodeFails(a) \/ NodeStarts(a)
             \/ \E c \in DOMAIN conns : NoticeBroken(c)
             \/ Close \/ CloseCurrent \/ UNCHANGED vars
      PROVE  Placed'
  BY <1>7 DEF Execute, NodeFails, NodeStarts, NoticeBroken, Close, CloseCurrent, userUnchanged,
              opVars, vars, Placed
<1> QED BY <1>4, <1>5, <1>6, <1>7 DEF Next, Send

-----------------------------------------------------------------------------
(* One connection.                                                         *)

(* Only the current connection is open, and it is not while somebody       *)
(* connects under the lock.                                                *)
Single ==
    /\ conns \in Seq([addr : Addrs, state : ConnStates]) /\ up \subseteq Addrs
    /\ currCh \in 1..Len(conns)
    /\ \A c \in 1..Len(conns) : IsOpen(c) => c = currCh
    /\ mux \in Ops => ~IsOpen(currCh)

(* A step that touches no connection, and takes no lock.                   *)
LEMMA SameConnections ==
    ASSUME Single, UNCHANGED <<conns, currCh, up>>, UNCHANGED mux \/ Unlock
    PROVE  Single'
<1>1. \A c \in 1..Len(conns) : IsOpen(c)' <=> IsOpen(c)
  BY DEF IsOpen
<1>2. mux' \in Ops => mux \in Ops
  BY ReliableAssumption DEF Unlock
<1>3. IsOpen(currCh)' <=> IsOpen(currCh)
  BY <1>1 DEF Single
<1> QED BY <1>1, <1>2, <1>3 DEF Single

(* The lock is taken to connect only behind a second look at the current   *)
(* connection.                                                             *)
LEMMA LockSingle == ASSUME Single, NEW r \in Ops, Lock(r) PROVE Single'
<1>1. UNCHANGED <<conns, currCh, up>> /\ (UNCHANGED mux \/ ~IsOpen(currCh))
  BY DEF Lock, connVars, initVars, initUnchanged, nodeVars
<1>2. CASE UNCHANGED mux
  BY <1>1, <1>2, SameConnections
<1>3. CASE ~IsOpen(currCh)
  <2>1. \A c \in 1..Len(conns) : IsOpen(c)' <=> IsOpen(c)
    BY <1>1 DEF IsOpen
  <2>2. ~IsOpen(currCh)'
    BY <1>1, <1>3 DEF IsOpen
  <2> QED BY <1>1, <2>1, <2>2 DEF Single
<1> QED BY <1>1, <1>2, <1>3

(* Who connects has seen the current connection closed, under the lock he  *)
(* still holds: no other has opened one since.                             *)
LEMMA ConnectSingle == ASSUME Single, NEW r \in Ops, Connect(r) PROVE Single'
<1> DEFINE new == [addr |-> Address, state |-> "live"]
<1>1. /\ mux \in Ops /\ Address \in Addrs /\ up' = up
      /\ conns' = Append(conns, new) /\ currCh' = Len(conns) + 1 /\ mux' = "free"
  BY DEF Connect, Single, Unlock, initUnchanged, nodeVars
<1>2. \A c \in 1..Len(conns) : ~IsOpen(c)
  BY <1>1 DEF Single
<1>3. new \in [addr : Addrs, state : ConnStates]
  BY <1>1 DEF ConnStates
<1>4. /\ conns' \in Seq([addr : Addrs, state : ConnStates]) /\ Len(conns') = Len(conns) + 1
      /\ \A c \in 1..Len(conns) : conns'[c] = conns[c]
  BY <1>1, <1>3 DEF Single
<1>5. \A c \in 1..Len(conns') : IsOpen(c)' => c = currCh'
  <2> SUFFICES ASSUME NEW c \in 1..Len(conns'), c # Len(conns) + 1 PROVE ~IsOpen(c)'
    BY <1>1
  <2>1. c \in 1..Len(conns)
    BY <1>4 DEF Single
  <2> QED BY <1>2, <1>4, <2>1 DEF IsOpen
<1>6. mux' \notin Ops
  BY <1>1, ReliableAssumption
<1>7. currCh' \in 1..Len(conns')
  BY <1>1, <1>4 DEF Single
<1> QED BY <1>1, <1>4, <1>5, <1>6, <1>7 DEF Single

(* The other steps of an operation.                                        *)
LEMMA GiveUpSingle == ASSUME Single, NEW r \in Ops, NEW a, GiveUp(r, a) PROVE Single'
<1>1. UNCHANGED <<conns, currCh, up>> /\ Unlock
  BY DEF GiveUp, connVars, initUnchanged, nodeVars
<1> QED BY <1>1, SameConnections

(* Nor does the answer of an attempt.                                      *)
LEMMA CallbackSingle ==
    ASSUME Single, NEW r \in Ops, NEW from, NEW a, Callback(r, from, a)
    PROVE  Single'
<1>1. UNCHANGED <<conns, currCh, up, mux>>
  BY DEF Callback, opUnchanged, connVars, initVars, nodeVars
<1> QED BY <1>1, SameConnections

(* The steps of an operation.                                              *)
LEMMA OperationSingle == ASSUME Single, NEW r \in Ops, Start(r) \/ Send(r) \/ Execute(r) PROVE Single'
<1>1. CASE Start(r) \/ CheckClosed(r) \/ LoadCurrent(r) \/ BeginAttempt(r) \/ Execute(r)
  <2>1. UNCHANGED <<conns, currCh, up, mux>>
    BY <1>1 DEF Start, CheckClosed, LoadCurrent, BeginAttempt, Execute, opUnchanged, connVars, initVars, nodeVars
  <2> QED BY <2>1, SameConnections
<1>2. CASE SkipOld(r) \/ ConnectFails(r)
  <2>1. CASE \E a : GiveUp(r, a)
    BY <2>1, GiveUpSingle
  <2>2. CASE UNCHANGED <<conns, currCh, up, mux>>
    BY <2>2, SameConnections
  <2> QED BY <1>2, <2>1, <2>2 DEF SkipOld, ConnectFails, NextAddress, connVars, initUnchanged, nodeVars
<1>3. CASE HandshakeTimesOut(r) \/ HandshakeFails(r)
  BY <1>3, GiveUpSingle DEF HandshakeTimesOut, HandshakeFails
<1>4. CASE SendAttempt(r)
  <2>1. CASE UNCHANGED <<conns, currCh, up, mux>>
    BY <2>1, SameConnections
  <2> QED BY <1>4, <2>1, CallbackSingle DEF SendAttempt, opUnchanged, connVars, initVars, nodeVars
<1>5. CASE GetReply(r) \/ LoseReply(r) \/ TimeOut(r)
  BY <1>5, CallbackSingle DEF GetReply, LoseReply, TimeOut
<1> QED BY <1>1, <1>2, <1>3, <1>4, <1>5, LockSingle, ConnectSingle DEF Send, InitConnection

(* The environment opens no connection.                                    *)
LEMMA NoneOpens ==
    ASSUME Single, UNCHANGED <<currCh, mux>>, up' \subseteq Addrs,
           conns' \in Seq([addr : Addrs, state : ConnStates]), Len(conns') = Len(conns),
           \A c \in 1..Len(conns) : IsOpen(c)' => IsOpen(c)
    PROVE  Single'
  BY DEF Single

(* A node that fails breaks connections, one that starts makes none.       *)
LEMMA NodeSingle ==
    ASSUME Single, NEW a \in Addrs, NodeFails(a) \/ NodeStarts(a)
    PROVE  Single'
<1>1. CASE NodeFails(a)
  <2> DEFINE Broken(c) == IF conns[c].addr = a /\ conns[c].state = "live"
                          THEN [conns[c] EXCEPT !.state = "broken"] ELSE conns[c]
  <2>1. conns' = [c \in 1..Len(conns) |-> Broken(c)] /\ UNCHANGED <<currCh, mux>> /\ up' \subseteq Addrs
    BY <1>1 DEF NodeFails, initVars, Single
  <2>2. ASSUME NEW c \in 1..Len(conns) PROVE Broken(c) \in [addr : Addrs, state : ConnStates]
    <3>1. conns[c] \in [addr : Addrs, state : ConnStates] /\ "broken" \in ConnStates
      BY ElementOfSeq DEF Single, ConnStates
    <3>2. [conns[c] EXCEPT !.state = "broken"] \in [addr : Addrs, state : ConnStates]
      BY <3>1
    <3> QED BY <3>1, <3>2
  <2>3. conns' \in Seq([addr : Addrs, state : ConnStates]) /\ Len(conns') = Len(conns)
    BY <2>1, <2>2 DEF Single
  <2>4. \A c \in 1..Len(conns) : IsOpen(c)' => IsOpen(c)
    BY <2>1 DEF IsOpen, Single
  <2> QED BY <2>1, <2>3, <2>4, NoneOpens
<1>2. CASE NodeStarts(a)
  <2>1. UNCHANGED <<conns, currCh, mux>> /\ up' \subseteq Addrs
    BY <1>2 DEF NodeStarts, connVars, initVars, Single
  <2>2. \A c \in 1..Len(conns) : IsOpen(c)' => IsOpen(c)
    BY <2>1 DEF IsOpen
  <2> QED BY <2>1, <2>2, NoneOpens DEF Single
<1> QED BY <1>1, <1>2

(* The loops notice a broken socket.                                       *)
LEMMA NoticeSingle == ASSUME Single, NEW c \in DOMAIN conns, NoticeBroken(c) PROVE Single'
<1>1. conns' = [conns EXCEPT ![c].state = "lost"] /\ UNCHANGED <<currCh, mux, up>> /\ c \in 1..Len(conns)
  BY DEF NoticeBroken, initVars, nodeVars, Single
<1>2. /\ conns' \in Seq([addr : Addrs, state : ConnStates]) /\ Len(conns') = Len(conns)
      /\ \A d \in 1..Len(conns) : conns'[d].state = IF d = c THEN "lost" ELSE conns[d].state
  <2> DEFINE new == [conns[c] EXCEPT !.state = "lost"]
  <2>1. new \in [addr : Addrs, state : ConnStates] /\ new.state = "lost"
    <3>1. conns[c] \in [addr : Addrs, state : ConnStates]
      BY <1>1, ElementOfSeq DEF Single
    <3> QED BY <3>1 DEF ConnStates
  <2>2. conns' = [conns EXCEPT ![c] = new]
    BY <1>1
  <2> QED BY <1>1, <2>1, <2>2 DEF Single
<1>3. \A d \in 1..Len(conns) : IsOpen(d)' => IsOpen(d)
  BY <1>2 DEF IsOpen
<1> QED BY <1>1, <1>2, <1>3, NoneOpens DEF Single

(* The user closes the current connection, under the lock.                 *)
LEMMA CloseSingle == ASSUME Single, Close \/ CloseCurrent \/ UNCHANGED vars PROVE Single'
<1>1. UNCHANGED <<currCh, mux, up>>
  BY DEF Close, CloseCurrent, userUnchanged, initVars, nodeVars, connVars, vars
<1>2. CASE UNCHANGED conns
  BY <1>1, <1>2, SameConnections
<1>3. CASE conns' = [conns EXCEPT ![currCh].state = "userClosed"]
  <2>1. /\ conns' \in Seq([addr : Addrs, state : ConnStates]) /\ Len(conns') = Len(conns)
        /\ \A d \in 1..Len(conns) : conns'[d].state = IF d = currCh THEN "userClosed" ELSE conns[d].state
    <3> DEFINE new == [conns[currCh] EXCEPT !.state = "userClosed"]
    <3>1. new \in [addr : Addrs, state : ConnStates] /\ new.state = "userClosed"
      <4>1. conns[currCh] \in [addr : Addrs, state : ConnStates]
        BY ElementOfSeq DEF Single
      <4> QED BY <4>1 DEF ConnStates
    <3>2. conns' = [conns EXCEPT ![currCh] = new]
      BY <1>3
    <3> QED BY <3>1, <3>2 DEF Single
  <2>2. \A d \in 1..Len(conns) : IsOpen(d)' => IsOpen(d)
    BY <2>1 DEF IsOpen
  <2> QED BY <1>1, <2>1, <2>2, NoneOpens DEF Single
<1> QED BY <1>2, <1>3 DEF Close, CloseCurrent, connVars, vars

(* createReliableChannel has made one connection.                          *)
LEMMA InitSingle == Init => Single
<1> SUFFICES ASSUME Init PROVE Single
  OBVIOUS
<1>1. PICK a \in Addrs : conns = <<[addr |-> a, state |-> "live"]>>
  BY DEF Init
<1>2. conns \in Seq([addr : Addrs, state : ConnStates]) /\ Len(conns) = 1
  BY <1>1 DEF ConnStates
<1> QED BY <1>2, ReliableAssumption DEF Init, Single

(* Every step keeps one connection at most.                                *)
LEMMA SingleStep == Single /\ [Next]_vars => Single'
  BY OperationSingle, NodeSingle, NoticeSingle, CloseSingle DEF Next

(* At most one connection is open, however many operations find the        *)
(* current one closed at once (initConnection).                            *)
THEOREM SingleConnection == Spec => []OneConnection
<1>1. Single => OneConnection
  <2> SUFFICES ASSUME Single PROVE OneConnection
    OBVIOUS
  <2>1. {c \in DOMAIN conns : IsOpen(c)} \subseteq {currCh}
    BY DEF Single
  <2>2. IsFiniteSet({currCh}) /\ Cardinality({currCh}) = 1
    BY FS_Singleton
  <2>3. Cardinality({c \in DOMAIN conns : IsOpen(c)}) <= Cardinality({currCh})
    BY <2>1, <2>2, FS_Subset
  <2> QED BY <2>2, <2>3 DEF OneConnection
<1> QED BY <1>1, InitSingle, SingleStep, PTL DEF Spec

-----------------------------------------------------------------------------
(* Types.                                                                  *)

OpTypes == /\ ch \in [Ops -> 0..Len(conns)]
           /\ attemptsCnt \in [Ops -> 0..AttemptsCap] /\ limit \in [Ops -> 0..AttemptsCap]
           /\ connectFailed \in [Ops -> BOOLEAN] /\ served \in [Ops -> BOOLEAN] /\ replied \in [Ops -> BOOLEAN]
           /\ answer \in [Ops -> Answers]

(* Whoever holds the lock is at an address of a list that is not empty.    *)
InitTypes == /\ mux \in Ops \cup {"user", "free"}
             /\ addresses \in AddressLists \cup {<<>>}
             /\ i \in 0..AttemptsCap /\ lastErr \in {"none", "connError"}
             /\ mux \in Ops => addresses # <<>> /\ i \in 1..Len(addresses)

OtherTypes == /\ attemptsLimit \in 1..AttemptsCap /\ closed \in BOOLEAN
              /\ up \subseteq Addrs /\ failures \in 0..MaxFailures
              /\ rejecting \in Rejections /\ retryLimit \in RetryLimits
              /\ upc \in {"idle", "lock", "returned"}

Typed == Placed /\ Single /\ OpTypes /\ InitTypes /\ OtherTypes

(* Every list the supplier returns is shorter than the cap of the counter. *)
LEMMA ListLength ==
    ASSUME NEW l \in AddressLists
    PROVE  l \in Seq(Addrs) /\ Len(l) \in Nat /\ Len(l) < AttemptsCap /\ AttemptsCap \in Nat
  BY ReliableAssumption

(* The limit lies between one and the length of the list.                  *)
LEMMA LimitTyped ==
    ASSUME NEW l \in AddressLists \ {<<>>}, retryLimit \in Nat
    PROVE  LimitFor(l) \in 1..AttemptsCap
<1>1. Len(l) \in Nat /\ Len(l) # 0 /\ Len(l) < AttemptsCap /\ AttemptsCap \in Nat
  BY ReliableAssumption
<1> QED BY <1>1 DEF LimitFor

(* Types, action by action.                                                *)
LEMMA StartTyped ==
    ASSUME Typed, NEW r \in Ops, Start(r)
    PROVE  OpTypes' /\ InitTypes' /\ OtherTypes'
<1>1. OpTypes'
  BY DEF Typed, OpTypes, Answers, Start, Report, opUnchanged, connVars, locals
<1>2. InitTypes'
  BY DEF Typed, InitTypes, Start, opUnchanged, initVars
<1>3. OtherTypes'
  BY DEF Typed, OtherTypes, Start, opUnchanged, connVars, nodeVars, settings
<1> QED BY <1>1, <1>2, <1>3

(* currentChannel looks at closed.                                         *)
LEMMA CheckClosedTyped ==
    ASSUME Typed, NEW r \in Ops, CheckClosed(r)
    PROVE  OpTypes' /\ InitTypes' /\ OtherTypes'
<1>1. OpTypes'
  BY DEF Typed, OpTypes, Answers, CheckClosed, Report, opUnchanged, connVars, locals
<1>2. InitTypes'
  BY DEF Typed, InitTypes, CheckClosed, opUnchanged, initVars
<1>3. OtherTypes'
  BY DEF Typed, OtherTypes, CheckClosed, opUnchanged, connVars, nodeVars, settings
<1> QED BY <1>1, <1>2, <1>3

(* The attempt gets the current channel.                                   *)
LEMMA LoadCurrentTyped ==
    ASSUME Typed, NEW r \in Ops, LoadCurrent(r)
    PROVE  OpTypes' /\ InitTypes' /\ OtherTypes'
<1>1. OpTypes'
  <2>1. UNCHANGED <<conns, locals, answer>> /\ (ch' = ch \/ ch' = [ch EXCEPT ![r] = currCh])
    BY DEF LoadCurrent, opUnchanged, connVars
  <2>2. currCh \in 0..Len(conns)
    BY DEF Typed, Single
  <2>3. ch' \in [Ops -> 0..Len(conns)]
    BY <2>1, <2>2 DEF Typed, OpTypes
  <2> QED BY <2>1, <2>3 DEF Typed, OpTypes, locals
<1>2. InitTypes'
  BY DEF Typed, InitTypes, LoadCurrent, opUnchanged, initVars
<1>3. OtherTypes'
  BY DEF Typed, OtherTypes, LoadCurrent, opUnchanged, connVars, nodeVars, settings
<1> QED BY <1>1, <1>2, <1>3

(* With the lock comes a list, at its first address.                       *)
LEMMA LockTyped ==
    ASSUME Typed, NEW r \in Ops, Lock(r)
    PROVE  OpTypes' /\ InitTypes' /\ OtherTypes'
<1>1. OpTypes'
  BY DEF Typed, OpTypes, Answers, Lock, Report, initUnchanged, connVars, locals
<1>2. InitTypes'
  BY ListLength DEF Typed, InitTypes, Lock, initVars
<1>3. OtherTypes'
  BY DEF Typed, OtherTypes, Lock, initUnchanged, connVars, nodeVars, settings
<1> QED BY <1>1, <1>2, <1>3

(* The count stops at the cap.                                             *)
LEMMA BeginAttemptTyped ==
    ASSUME Typed, NEW r \in Ops, BeginAttempt(r)
    PROVE  OpTypes' /\ InitTypes' /\ OtherTypes'
<1>1. OpTypes'
  BY ReliableAssumption DEF Typed, OtherTypes, OpTypes, BeginAttempt, opUnchanged, connVars
<1>2. InitTypes'
  BY DEF Typed, InitTypes, BeginAttempt, opUnchanged, initVars
<1>3. OtherTypes'
  BY DEF Typed, OtherTypes, BeginAttempt, opUnchanged, connVars, nodeVars, settings
<1> QED BY <1>1, <1>2, <1>3

(* The node executes an attempt.                                           *)
LEMMA ExecuteTyped ==
    ASSUME Typed, NEW r \in Ops, Execute(r)
    PROVE  OpTypes' /\ InitTypes' /\ OtherTypes'
<1>1. OpTypes'
  BY DEF Typed, OpTypes, Execute, opUnchanged, connVars
<1>2. InitTypes'
  BY DEF Typed, InitTypes, Execute, opUnchanged, initVars
<1>3. OtherTypes'
  BY DEF Typed, OtherTypes, Execute, opUnchanged, connVars, nodeVars, settings
<1> QED BY <1>1, <1>2, <1>3

(* The way out of initConnection that fails.                               *)
LEMMA GiveUpTyped ==
    ASSUME Typed, NEW r \in Ops, NEW a \in Answers, GiveUp(r, a)
    PROVE  OpTypes' /\ InitTypes' /\ OtherTypes'
<1>1. OpTypes'
  BY DEF Typed, OpTypes, GiveUp, Report, initUnchanged, connVars, locals
<1>2. InitTypes'
  BY ReliableAssumption DEF Typed, InitTypes, GiveUp, Unlock
<1>3. OtherTypes'
  BY DEF Typed, OtherTypes, GiveUp, initUnchanged, connVars, nodeVars, settings
<1> QED BY <1>1, <1>2, <1>3

(* An attempt is answered.                                                 *)
LEMMA CallbackTyped ==
    ASSUME Typed, NEW r \in Ops, NEW from, NEW a \in Answers, replied' \in [Ops -> BOOLEAN], Callback(r, from, a)
    PROVE  OpTypes' /\ InitTypes' /\ OtherTypes'
<1>1. OpTypes'
  <2>1. /\ ch' = [ch EXCEPT ![r] = 0] /\ served' = [served EXCEPT ![r] = FALSE]
        /\ UNCHANGED <<attemptsCnt, limit, conns>>
        /\ connectFailed' = [connectFailed EXCEPT ![r] = connectFailed[r] \/ a = "connError"]
        /\ UNCHANGED answer \/ answer' = [answer EXCEPT ![r] = a]
    BY DEF Callback, Report, opUnchanged, connVars
  <2>2. (connectFailed[r] \/ a = "connError") \in BOOLEAN
    OBVIOUS
  <2>3. connectFailed' \in [Ops -> BOOLEAN]
    BY <2>1, <2>2 DEF Typed, OpTypes
  <2>4. served' \in [Ops -> BOOLEAN]
    BY <2>1 DEF Typed, OpTypes
  <2>5. ch' \in [Ops -> 0..Len(conns)] /\ answer' \in [Ops -> Answers]
    BY <2>1 DEF Typed, OpTypes, Single
  <2> QED BY <2>1, <2>3, <2>4, <2>5 DEF Typed, OpTypes
<1>2. InitTypes'
  BY DEF Typed, InitTypes, Callback, opUnchanged, initVars
<1>3. OtherTypes'
  BY DEF Typed, OtherTypes, Callback, opUnchanged, connVars, nodeVars, settings
<1> QED BY <1>1, <1>2, <1>3

(* A new connection brings a new limit.                                    *)
LEMMA ConnectTyped ==
    ASSUME Typed, NEW r \in Ops, Connect(r)
    PROVE  OpTypes' /\ InitTypes' /\ OtherTypes'
<1>1. OpTypes'
  BY DEF Typed, OpTypes, Connect, initUnchanged, locals
<1>2. InitTypes'
  BY ReliableAssumption DEF Typed, InitTypes, Connect, Unlock
<1>3. OtherTypes'
  BY ReliableAssumption, LimitTyped DEF Typed, InitTypes, OtherTypes, Connect, initUnchanged, nodeVars, settings
<1> QED BY <1>1, <1>2, <1>3

(* The next address of the list.                                           *)
LEMMA PassTyped ==
    ASSUME Typed, mux \in Ops, ~IsLast, NEW err \in {"none", "connError"}, NextAddress(err),
           UNCHANGED <<answer, connVars>>, initUnchanged
    PROVE  OpTypes' /\ InitTypes' /\ OtherTypes'
<1>1. OpTypes'
  BY DEF Typed, OpTypes, initUnchanged, locals, connVars
<1>2. InitTypes'
  <2>1. addresses \in AddressLists /\ addresses # <<>> /\ i \in 1..Len(addresses)
    BY DEF Typed, InitTypes
  <2>2. i + 1 \in 1..Len(addresses) /\ i + 1 \in 0..AttemptsCap
    BY <2>1, ListLength DEF IsLast
  <2> QED BY <2>2 DEF Typed, InitTypes, NextAddress
<1>3. OtherTypes'
  BY DEF Typed, OtherTypes, initUnchanged, connVars, nodeVars, settings
<1> QED BY <1>1, <1>2, <1>3

(* The steps of an operation.                                              *)
LEMMA OperationTyped ==
    ASSUME Typed, NEW r \in Ops, Start(r) \/ Send(r) \/ Execute(r)
    PROVE  OpTypes' /\ InitTypes' /\ OtherTypes'
<1>1. {"connError", "handshakeError", "reply", "clientError", "timeout"} \subseteq Answers
  BY DEF Answers
<1>2. CASE SkipOld(r) \/ ConnectFails(r)
  <2>1. mux \in Ops /\ lastErr \in {"none", "connError"}
    BY <1>2 DEF SkipOld, ConnectFails, Typed, InitTypes
  <2> QED BY <1>1, <1>2, <2>1, GiveUpTyped, PassTyped DEF SkipOld, ConnectFails
<1>3. CASE HandshakeTimesOut(r) \/ HandshakeFails(r)
  BY <1>1, <1>3, GiveUpTyped DEF HandshakeTimesOut, HandshakeFails
<1>4. CASE SendAttempt(r)
  <2>1. CASE Callback(r, "send", "connError") /\ UNCHANGED replied
    BY <1>1, <2>1, CallbackTyped DEF Typed, OpTypes
  <2>2. CASE UNCHANGED <<ch, locals, answer>> /\ opUnchanged
    BY <2>2 DEF Typed, OpTypes, InitTypes, OtherTypes, locals, opUnchanged, connVars, initVars, nodeVars, settings
  <2> QED BY <1>4, <2>1, <2>2 DEF SendAttempt
<1>5. CASE GetReply(r) \/ LoseReply(r) \/ TimeOut(r)
  <2>1. replied' \in [Ops -> BOOLEAN]
    BY <1>5 DEF GetReply, LoseReply, TimeOut, Typed, OpTypes
  <2> QED BY <1>1, <1>5, <2>1, CallbackTyped DEF GetReply, LoseReply, TimeOut
<1> QED BY <1>2, <1>3, <1>4, <1>5, StartTyped, CheckClosedTyped, LoadCurrentTyped, LockTyped, ConnectTyped,
           BeginAttemptTyped, ExecuteTyped DEF Send, InitConnection

(* The steps of the nodes, the loops and the user.                         *)
LEMMA OthersTyped ==
    ASSUME Typed,
           \/ \E a \in Addrs : NodeFails(a) \/ NodeStarts(a)
           \/ \E c \in DOMAIN conns : NoticeBroken(c)
           \/ Close \/ CloseCurrent
           \/ UNCHANGED vars
    PROVE  OpTypes' /\ InitTypes' /\ OtherTypes'
<1>1. UNCHANGED <<opVars, initVars, attemptsLimit, settings>> /\ DOMAIN conns' = DOMAIN conns
  BY DEF NodeFails, NodeStarts, NoticeBroken, Close, CloseCurrent, userUnchanged, connVars, nodeVars, vars
<1>2. Len(conns') = Len(conns)
  <2>1. Single'
    BY NodeSingle, NoticeSingle, CloseSingle DEF Typed
  <2> QED BY <1>1, <2>1 DEF Typed, Single
<1>3. UNCHANGED closed \/ closed' = TRUE
  BY DEF NodeFails, NodeStarts, NoticeBroken, Close, CloseCurrent, vars
<1>6. /\ up' \subseteq Addrs /\ failures' \in 0..MaxFailures
      /\ upc' \in {"idle", "lock", "returned"}
  BY ReliableAssumption DEF Typed, OtherTypes, NodeFails, NodeStarts, NoticeBroken, Close, CloseCurrent,
                            userUnchanged, nodeVars, vars
<1>7. closed' \in BOOLEAN
  BY <1>3 DEF Typed, OtherTypes
<1>4. OpTypes'
  BY <1>1, <1>2 DEF Typed, OpTypes, opVars
<1>5. InitTypes' /\ OtherTypes'
  BY <1>1, <1>6, <1>7 DEF Typed, InitTypes, OtherTypes, initVars, settings
<1> QED BY <1>4, <1>5

(* createReliableChannel leaves everything in its type.                    *)
LEMMA TypedInit == Init => Typed
<1> SUFFICES ASSUME Init PROVE Typed
  OBVIOUS
<1>1. Placed /\ Single
  BY InitPlaced, InitSingle
<1>2. PICK l \in AddressLists \ {<<>>} : attemptsLimit = LimitFor(l)
  BY DEF Init
<1>3. attemptsLimit \in 1..AttemptsCap
  BY <1>2, LimitTyped, ReliableAssumption DEF Init
<1>4. OpTypes
  BY <1>1, ReliableAssumption DEF Init, OpTypes, Answers, Single
<1>5. InitTypes
  BY ReliableAssumption DEF Init, InitTypes
<1>6. OtherTypes
  <2>1. closed \in BOOLEAN
    BY DEF Init
  <2>2. up \subseteq Addrs /\ failures \in 0..MaxFailures /\ upc \in {"idle", "lock", "returned"}
    BY ReliableAssumption DEF Init
  <2> QED BY <1>3, <2>1, <2>2 DEF Init, OtherTypes
<1> QED BY <1>1, <1>4, <1>5, <1>6 DEF Typed

(* Every step keeps the types.                                            *)
LEMMA TypedStep == Typed /\ [Next]_vars => Typed'
<1> SUFFICES ASSUME Typed, [Next]_vars PROVE Typed'
  OBVIOUS
<1>1. Placed' /\ Single'
  BY PlacedStep, SingleStep DEF Typed
<1> QED BY <1>1, OperationTyped, OthersTyped DEF Typed, Next

(* The types of all variables, among them that the lock, the list it was   *)
(* taken for and the position in it go together (initConnection).          *)
THEOREM TypeCorrect == Spec => []TypeOK
<1>1. Typed => TypeOK
  BY DEF Typed, Placed, Single, OpTypes, InitTypes, OtherTypes, Places, TypeOK
<1> QED BY <1>1, TypedInit, TypedStep, PTL DEF Spec

-----------------------------------------------------------------------------
(* No replay, when there are two addresses.                                *)

TwoAddresses == \A l \in AddressLists : Len(l) \in {0, 2}

(* The limit every attempt then reads.                                     *)
Limit == IF retryLimit = 1 THEN 1 ELSE 2

Counted ==
    /\ pc \in [Ops -> Places] /\ attemptsCnt \in [Ops -> Nat] /\ limit \in [Ops -> Nat]
    /\ connectFailed \in [Ops -> BOOLEAN] /\ replied \in [Ops -> BOOLEAN]

Settled == /\ retryLimit \in Nat /\ attemptsLimit = Limit /\ AttemptsCap > 2
           /\ mux \in Ops => addresses \in AddressLists \ {<<>>}

Between == {"idle", "current", "load", "lock", "connect", "attempt"}

(* A second attempt is made only behind a first one that was lost, and is  *)
(* the last one.                                                           *)
Phase(r) ==
    /\ pc[r] # "done" => ~replied[r]
    /\ pc[r] \in Between => \/ attemptsCnt[r] = 0 /\ ~connectFailed[r]
                            \/ attemptsCnt[r] = 1 /\ connectFailed[r] /\ Limit = 2
    /\ pc[r] \in {"send", "wait"} => /\ limit[r] = Limit
                                     /\ \/ attemptsCnt[r] = 1 /\ ~connectFailed[r]
                                        \/ attemptsCnt[r] = 2 /\ connectFailed[r] /\ Limit = 2

TwoAttempts == Counted /\ Settled /\ \A r \in Ops : Phase(r)

(* The other operations are where they were.                               *)
LEMMA OthersPhase ==
    ASSUME TwoAttempts, NEW r \in Ops, UNCHANGED retryLimit,
           \A s \in Ops \ {r} : /\ pc'[s] = pc[s] /\ attemptsCnt'[s] = attemptsCnt[s] /\ limit'[s] = limit[s]
                                /\ connectFailed'[s] = connectFailed[s] /\ replied'[s] = replied[s]
    PROVE  \A s \in Ops \ {r} : Phase(s)'
  BY DEF TwoAttempts, Phase, Limit

(* An operation on its way to an attempt, or out. *)
LEMMA MovePhase ==
    ASSUME TwoAttempts, NEW r \in Ops, NEW from \in Between, NEW to \in Between \cup {"done"},
           Goto(r, from, to), UNCHANGED <<locals, retryLimit>>
    PROVE  Counted' /\ \A s \in Ops : Phase(s)'
<1>1. Counted'
  BY DEF TwoAttempts, Counted, Goto, locals, Between, Places
<1>2. \A s \in Ops \ {r} : Phase(s)'
  BY OthersPhase DEF Goto, locals, TwoAttempts, Counted
<1>3. Phase(r)'
  BY DEF TwoAttempts, Counted, Phase, Limit, Goto, locals, Between
<1> QED BY <1>1, <1>2, <1>3

(* A step of nobody in particular.                                         *)
LEMMA StayPhase ==
    ASSUME TwoAttempts, UNCHANGED <<pc, attemptsCnt, limit, connectFailed, replied, retryLimit>>
    PROVE  Counted' /\ \A s \in Ops : Phase(s)'
  BY DEF TwoAttempts, Counted, Phase, Limit

(* What the limit is read from changes only with a new connection.         *)
LEMMA SettledKept ==
    ASSUME TwoAttempts, UNCHANGED <<attemptsLimit, retryLimit>>,
           UNCHANGED <<mux, addresses>> \/ Unlock \/ addresses' \in AddressLists \ {<<>>}
    PROVE  Settled'
  BY ReliableAssumption DEF TwoAttempts, Settled, Limit, Unlock

(* Every list that is not empty gives the same limit.                      *)
LEMMA LimitOfTwo ==
    ASSUME TwoAddresses, NEW l \in AddressLists \ {<<>>}, retryLimit \in Nat
    PROVE  LimitFor(l) = Limit
<1>1. l \in Seq(Addrs) /\ Len(l) \in {0, 2}
  BY ReliableAssumption DEF TwoAddresses
<1>2. Len(l) = 2
  BY <1>1
<1> QED BY <1>2 DEF LimitFor, Limit

(* The answer of an attempt: unless it was the first, and lost, it is the  *)
(* last.                                                                   *)
LEMMA CallbackPhase ==
    ASSUME TwoAttempts, NEW r \in Ops, NEW from \in {"send", "wait"}, NEW a, Callback(r, from, a),
           \/ a = "connError" /\ UNCHANGED replied
           \/ UNCHANGED replied
           \/ a # "connError" /\ replied' = [replied EXCEPT ![r] = TRUE]
    PROVE  TwoAttempts'
<1> DEFINE failed == connectFailed[r] \/ a = "connError"
           last   == ~failed \/ attemptsCnt[r] = limit[r]
<1>1. /\ connectFailed' = [connectFailed EXCEPT ![r] = failed]
      /\ pc[r] = from /\ pc' = [pc EXCEPT ![r] = IF last THEN "done" ELSE "current"]
      /\ UNCHANGED <<attemptsCnt, limit, attemptsLimit, retryLimit, mux, addresses>>
  BY DEF Callback, HandsOn, LeavesLoop, Goto, opUnchanged, connVars, initVars, nodeVars, settings
<1>2. Counted'
  <2>1. failed \in BOOLEAN
    OBVIOUS
  <2>2. connectFailed' \in [Ops -> BOOLEAN]
    BY <1>1, <2>1 DEF TwoAttempts, Counted
  <2>3. replied' \in [Ops -> BOOLEAN]
    BY DEF TwoAttempts, Counted
  <2>4. pc' \in [Ops -> Places]
    BY <1>1 DEF TwoAttempts, Counted, Places
  <2> QED BY <1>1, <2>2, <2>3, <2>4 DEF TwoAttempts, Counted
<1>3. \A s \in Ops \ {r} : Phase(s)'
  BY <1>1, OthersPhase DEF TwoAttempts, Counted
<1>4. Phase(r)'
  <2>1. CASE last
    BY <1>1, <2>1 DEF TwoAttempts, Counted, Phase, Between
  <2>2. CASE ~last
    <3>1. /\ attemptsCnt[r] = 1 /\ ~connectFailed[r] /\ a = "connError" /\ Limit = 2
      BY <1>1, <2>2 DEF TwoAttempts, Counted, Phase, Limit
    <3>2. pc'[r] = "current" /\ connectFailed'[r] = TRUE /\ attemptsCnt'[r] = 1 /\ Limit' = 2
      BY <1>1, <2>2, <3>1 DEF TwoAttempts, Counted, Limit
    <3>3. ~replied'[r]
      BY <1>1, <3>1 DEF TwoAttempts, Counted, Phase
    <3> QED BY <3>2, <3>3 DEF Phase, Between
  <2> QED BY <2>1, <2>2
<1>5. Settled'
  BY <1>1, SettledKept
<1> QED BY <1>2, <1>3, <1>4, <1>5 DEF TwoAttempts

(* An attempt is counted, and reads the limit anew.                        *)
LEMMA BeginPhase == ASSUME TwoAttempts, NEW r \in Ops, BeginAttempt(r) PROVE TwoAttempts'
<1>1. /\ pc[r] = "attempt" /\ pc' = [pc EXCEPT ![r] = "send"]
      /\ limit' = [limit EXCEPT ![r] = Limit]
      /\ attemptsCnt' = [attemptsCnt EXCEPT ![r] = attemptsCnt[r] + 1]
      /\ UNCHANGED <<connectFailed, replied, attemptsLimit, retryLimit, mux, addresses>>
  <2>1. attemptsCnt[r] < AttemptsCap
    BY ReliableAssumption DEF BeginAttempt, Goto, TwoAttempts, Phase, Between, Settled
  <2>2. attemptsCnt[r] # AttemptsCap
    BY <2>1, ReliableAssumption DEF TwoAttempts, Counted
  <2>3. attemptsLimit = Limit
    BY DEF TwoAttempts, Settled
  <2> QED BY <2>2, <2>3 DEF BeginAttempt, Goto, opUnchanged, connVars, initVars, nodeVars, settings
<1>2. Counted'
  BY <1>1 DEF TwoAttempts, Counted, Places, Limit
<1>3. \A s \in Ops \ {r} : Phase(s)'
  BY <1>1, OthersPhase DEF TwoAttempts, Counted
<1>4. Phase(r)'
  BY <1>1 DEF TwoAttempts, Counted, Phase, Between, Limit
<1>5. Settled'
  BY <1>1, SettledKept
<1> QED BY <1>2, <1>3, <1>4, <1>5 DEF TwoAttempts

(* The operation ends without an attempt.                                  *)
LEMMA GiveUpPhase == ASSUME TwoAttempts, NEW r \in Ops, NEW a, GiveUp(r, a) PROVE TwoAttempts'
<1>1. /\ Goto(r, "connect", "done") /\ UNCHANGED <<locals, retryLimit, attemptsLimit>> /\ Unlock
  BY DEF GiveUp, initUnchanged, nodeVars, settings, connVars
<1>2. Counted' /\ \A s \in Ops : Phase(s)'
  BY <1>1, MovePhase DEF Between
<1> QED BY <1>1, <1>2, SettledKept DEF TwoAttempts

(* An address is passed over.                                              *)
LEMMA PassPhase ==
    ASSUME TwoAttempts, NEW err, NextAddress(err), UNCHANGED <<pc, connVars>>, initUnchanged
    PROVE  TwoAttempts'
<1>1. /\ UNCHANGED <<pc, attemptsCnt, limit, connectFailed, replied, retryLimit>>
      /\ UNCHANGED <<attemptsLimit, mux, addresses>>
  BY DEF NextAddress, initUnchanged, locals, connVars, nodeVars, settings
<1> QED BY <1>1, StayPhase, SettledKept DEF TwoAttempts

(* A new connection reads the limit from the list it was made with.        *)
LEMMA ConnectPhase == ASSUME TwoAddresses, TwoAttempts, NEW r \in Ops, Connect(r) PROVE TwoAttempts'
<1>1. /\ mux = r /\ Goto(r, "connect", "load") /\ UNCHANGED <<locals, retryLimit>> /\ Unlock
      /\ attemptsLimit' = LimitFor(addresses)
  BY DEF Connect, initUnchanged, nodeVars, settings
<1>2. Counted' /\ \A s \in Ops : Phase(s)'
  BY <1>1, MovePhase DEF Between
<1>3. attemptsLimit' = Limit
  BY <1>1, LimitOfTwo DEF TwoAttempts, Settled
<1>4. Settled'
  BY <1>1, <1>3, ReliableAssumption DEF TwoAttempts, Settled, Limit, Unlock
<1> QED BY <1>2, <1>4 DEF TwoAttempts

(* The steps of an operation.                                              *)
LEMMA OperationPhase ==
    ASSUME TwoAddresses, TwoAttempts, NEW r \in Ops, Start(r) \/ Send(r) \/ Execute(r)
    PROVE  TwoAttempts'
<1>1. CASE Start(r) \/ CheckClosed(r) \/ LoadCurrent(r)
  <2>1. /\ UNCHANGED <<locals, retryLimit, attemptsLimit, mux, addresses>>
        /\ \E from \in Between, to \in Between \cup {"done"} : Goto(r, from, to)
    BY <1>1 DEF Start, CheckClosed, LoadCurrent, opUnchanged, connVars, initVars, nodeVars, settings, Between
  <2> QED BY <2>1, MovePhase, SettledKept DEF TwoAttempts
<1>2. CASE Lock(r)
  <2>1. /\ UNCHANGED <<locals, retryLimit, attemptsLimit>>
        /\ UNCHANGED <<mux, addresses>> \/ addresses' \in AddressLists \ {<<>>}
        /\ \E from \in Between, to \in Between \cup {"done"} : Goto(r, from, to)
    BY <1>2 DEF Lock, initUnchanged, connVars, initVars, nodeVars, settings, Between
  <2> QED BY <2>1, MovePhase, SettledKept DEF TwoAttempts
<1>3. CASE SkipOld(r) \/ ConnectFails(r)
  BY <1>3, GiveUpPhase, PassPhase DEF SkipOld, ConnectFails
<1>4. CASE HandshakeTimesOut(r) \/ HandshakeFails(r)
  BY <1>4, GiveUpPhase DEF HandshakeTimesOut, HandshakeFails
<1>5. CASE SendAttempt(r)
  <2>1. CASE Goto(r, "send", "wait") /\ UNCHANGED locals /\ opUnchanged
    <3>1. /\ pc[r] = "send" /\ pc' = [pc EXCEPT ![r] = "wait"]
          /\ UNCHANGED <<attemptsCnt, limit, connectFailed, replied, attemptsLimit, retryLimit, mux, addresses>>
      BY <2>1 DEF Goto, locals, opUnchanged, connVars, initVars, nodeVars, settings
    <3>2. Counted'
      BY <3>1 DEF TwoAttempts, Counted, Places
    <3>3. \A s \in Ops \ {r} : Phase(s)'
      BY <3>1, OthersPhase DEF TwoAttempts, Counted
    <3>4. Phase(r)'
      BY <3>1 DEF TwoAttempts, Counted, Phase, Limit, Between
    <3> QED BY <3>1, <3>2, <3>3, <3>4, SettledKept DEF TwoAttempts
  <2> QED BY <1>5, <2>1, CallbackPhase DEF SendAttempt
<1>6. CASE GetReply(r) \/ LoseReply(r) \/ TimeOut(r)
  BY <1>6, CallbackPhase DEF GetReply, LoseReply, TimeOut
<1>7. CASE Execute(r)
  <2>1. /\ UNCHANGED <<pc, attemptsCnt, limit, connectFailed, replied, retryLimit>>
        /\ UNCHANGED <<attemptsLimit, mux, addresses>>
    BY <1>7 DEF Execute, opUnchanged, connVars, initVars, nodeVars, settings
  <2> QED BY <2>1, StayPhase, SettledKept DEF TwoAttempts
<1> QED BY <1>1, <1>2, <1>3, <1>4, <1>5, <1>6, <1>7, BeginPhase, ConnectPhase DEF Send, InitConnection

(* The steps of the nodes, the loops and the user.                         *)
LEMMA OthersKeepPhase ==
    ASSUME TwoAttempts,
           \/ \E a \in Addrs : NodeFails(a) \/ NodeStarts(a)
           \/ \E c \in DOMAIN conns : NoticeBroken(c)
           \/ Close \/ CloseCurrent
           \/ UNCHANGED vars
    PROVE  TwoAttempts'
<1>1. /\ UNCHANGED <<pc, attemptsCnt, limit, connectFailed, replied, retryLimit>>
      /\ UNCHANGED <<attemptsLimit, mux, addresses>>
  BY DEF NodeFails, NodeStarts, NoticeBroken, Close, CloseCurrent, userUnchanged,
         opVars, connVars, initVars, nodeVars, settings, vars
<1> QED BY <1>1, StayPhase, SettledKept DEF TwoAttempts

(* With two addresses an operation is not sent again once the node has     *)
(* answered an attempt: the second attempt meets the limit exactly.  With  *)
(* three or more, or lists of different lengths, it may be (send).         *)
THEOREM NoReplayOfTwo == ASSUME TwoAddresses PROVE Spec => []NoReplay
<1>1. Init => TwoAttempts
  <2> SUFFICES ASSUME Init PROVE TwoAttempts
    OBVIOUS
  <2>1. PICK l \in AddressLists : l # <<>> /\ attemptsLimit = LimitFor(l)
    BY DEF Init
  <2>2. retryLimit \in Nat /\ attemptsLimit = Limit
    BY <2>1, LimitOfTwo, ReliableAssumption DEF Init
  <2>3. AttemptsCap > 2
    <3>1. l \in Seq(Addrs) /\ Len(l) \in {0, 2} /\ Len(l) < AttemptsCap
      BY ReliableAssumption DEF TwoAddresses
    <3> QED BY <2>1, <3>1, ReliableAssumption
  <2>4. mux \notin Ops
    BY ReliableAssumption DEF Init
  <2>5. Counted /\ \A r \in Ops : Phase(r)
    BY DEF Init, Counted, Phase, Places, Between
  <2> QED BY <2>2, <2>3, <2>4, <2>5 DEF TwoAttempts, Settled
<1>2. TwoAttempts /\ [Next]_vars => TwoAttempts'
  BY OperationPhase, OthersKeepPhase DEF Next
<1>3. TwoAttempts => NoReplay
  BY DEF TwoAttempts, Counted, Phase, NoReplay
<1> QED BY <1>1, <1>2, <1>3, PTL DEF Spec
-----------------------------------------------------------------------------
(* A bound on the attempts, when the supplier's lists have one length.     *)

OneLength == \A l, m \in AddressLists \ {<<>>} : Len(l) = Len(m)

(* Whoever is on the way to another attempt has one left.                  *)
Below(r) ==
    /\ attemptsCnt[r] <= limit[r]
    /\ pc[r] \in Between => attemptsCnt[r] < attemptsLimit
    /\ pc[r] \in {"send", "wait"} => limit[r] = attemptsLimit

(* Every list gives the limit there is, so that nobody reads another.      *)
Bounds == /\ Typed
          /\ \A l \in AddressLists \ {<<>>} : LimitFor(l) = attemptsLimit
          /\ \A r \in Ops : Below(r)

(* The limit changes only with a connection, and is the same then.         *)
LEMMA LimitStays ==
    ASSUME Bounds, [Next]_vars
    PROVE  attemptsLimit' = attemptsLimit /\ retryLimit' = retryLimit
<1>1. CASE \E r \in Ops : Connect(r)
  <2>1. PICK r \in Ops : Connect(r)
    BY <1>1
  <2>2. addresses \in AddressLists \ {<<>>}
    BY <2>1 DEF Connect, Bounds, Typed, InitTypes
  <2> QED BY <2>1, <2>2 DEF Connect, initUnchanged, nodeVars, settings, Bounds
<1>2. CASE \E r \in Ops : Start(r) \/ (Send(r) /\ ~Connect(r)) \/ Execute(r)
  BY <1>2 DEF Start, Send, CheckClosed, LoadCurrent, InitConnection, Lock, SkipOld, ConnectFails, HandshakeTimesOut,
              HandshakeFails, GiveUp, BeginAttempt, SendAttempt, GetReply, LoseReply, TimeOut, Callback, Execute,
              opUnchanged, initUnchanged, connVars, nodeVars, settings
<1>3. CASE \/ \E a \in Addrs : NodeFails(a) \/ NodeStarts(a)
           \/ \E c \in DOMAIN conns : NoticeBroken(c)
           \/ Close \/ CloseCurrent \/ UNCHANGED vars
  BY <1>3 DEF NodeFails, NodeStarts, NoticeBroken, Close, CloseCurrent, userUnchanged, connVars, nodeVars,
              settings, vars
<1> QED BY <1>1, <1>2, <1>3 DEF Next

(* An operation goes on without counting: back for another attempt only    *)
(* where the count has not met the limit.                                  *)
LEMMA GoesOnBelow ==
    ASSUME Bounds, attemptsLimit' = attemptsLimit, NEW r \in Ops, NEW from \in Places, NEW to \in Places,
           Goto(r, from, to), UNCHANGED <<attemptsCnt, limit>>,
           to \in Between => from \in Between \/ (from \in {"send", "wait"} /\ attemptsCnt[r] # limit[r]),
           to \in {"send", "wait"} => from \in {"send", "wait"}
    PROVE  \A s \in Ops : Below(s)'
<1>1. \A s \in Ops : Below(s) /\ attemptsCnt[s] \in Nat /\ limit[s] \in Nat
  BY ReliableAssumption DEF Bounds, Typed, OpTypes
<1>2. attemptsLimit \in Nat /\ pc \in [Ops -> Places] /\ pc[r] = from /\ pc' = [pc EXCEPT ![r] = to]
  BY ReliableAssumption DEF Bounds, Typed, OtherTypes, Placed, Goto
<1>3. ASSUME NEW s \in Ops \ {r} PROVE Below(s)'
  BY <1>1, <1>2 DEF Below
<1>4. Below(r)'
  BY <1>1, <1>2 DEF Below
<1> QED BY <1>3, <1>4

(* An attempt is counted, and reads the limit.                             *)
LEMMA BeginBelow ==
    ASSUME Bounds, attemptsLimit' = attemptsLimit, NEW r \in Ops, BeginAttempt(r)
    PROVE  \A s \in Ops : Below(s)'
<1>1. \A s \in Ops : Below(s) /\ attemptsCnt[s] \in 0..AttemptsCap /\ limit[s] \in Nat
  BY ReliableAssumption DEF Bounds, Typed, OpTypes
<1>2. attemptsLimit \in 1..AttemptsCap /\ AttemptsCap \in Nat
  BY ReliableAssumption DEF Bounds, Typed, OtherTypes
<1>3. /\ pc[r] = "attempt" /\ attemptsCnt[r] < attemptsLimit
      /\ pc' = [pc EXCEPT ![r] = "send"] /\ limit' = [limit EXCEPT ![r] = attemptsLimit]
      /\ attemptsCnt' = [attemptsCnt EXCEPT ![r] = attemptsCnt[r] + 1]
  <2>1. pc[r] = "attempt" /\ attemptsCnt[r] < attemptsLimit
    BY <1>1 DEF BeginAttempt, Goto, Below, Between
  <2>2. attemptsCnt[r] # AttemptsCap
    BY <1>1, <1>2, <2>1
  <2> QED BY <2>1, <2>2 DEF BeginAttempt, Goto
<1>4. ASSUME NEW s \in Ops \ {r} PROVE Below(s)'
  BY <1>1, <1>2, <1>3 DEF Below
<1>5. Below(r)'
  BY <1>1, <1>2, <1>3 DEF Below, Between, Bounds, Typed, Placed, OpTypes
<1> QED BY <1>4, <1>5

(* What an operation does keeps every count below its limit.               *)
LEMMA OperationBelow ==
    ASSUME Bounds, attemptsLimit' = attemptsLimit, NEW r \in Ops, Start(r) \/ Send(r)
    PROVE  \A s \in Ops : Below(s)'
<1>1. ASSUME NEW from \in Between, NEW to \in Between \cup {"done"}, Goto(r, from, to),
             UNCHANGED <<attemptsCnt, limit>>
      PROVE  \A s \in Ops : Below(s)'
  BY <1>1, GoesOnBelow DEF Between, Places
<1>2. ASSUME UNCHANGED <<pc, attemptsCnt, limit>> PROVE \A s \in Ops : Below(s)'
  BY <1>2 DEF Bounds, Below
<1>3. ASSUME NEW err, GiveUp(r, err) PROVE \A s \in Ops : Below(s)'
  <2>1. Goto(r, "connect", "done") /\ UNCHANGED <<attemptsCnt, limit>>
    BY <1>3 DEF GiveUp, initUnchanged, locals
  <2> QED BY <2>1, <1>1 DEF Between
<1>4. ASSUME NEW from \in {"send", "wait"}, NEW a, Callback(r, from, a) PROVE \A s \in Ops : Below(s)'
  <2> DEFINE to == IF LeavesLoop(r, connectFailed[r] \/ a = "connError") THEN "done" ELSE "current"
  <2>1. Goto(r, from, to) /\ UNCHANGED <<attemptsCnt, limit>>
    BY <1>4 DEF Callback
  <2>2. to = "done" \/ (to = "current" /\ attemptsCnt[r] # limit[r])
    BY DEF LeavesLoop
  <2>3. to \in Places /\ from \in Places /\ to \notin {"send", "wait"} /\ "done" \notin Between
    BY <2>2 DEF Places, Between
  <2> HIDE DEF to
  <2> QED BY <2>1, <2>2, <2>3, GoesOnBelow
<1>5. CASE Start(r) \/ CheckClosed(r) \/ LoadCurrent(r)
  BY <1>1, <1>5 DEF Start, CheckClosed, LoadCurrent, locals, Between
<1>6. CASE Lock(r) \/ Connect(r)
  BY <1>1, <1>6 DEF Lock, Connect, initUnchanged, locals, Between
<1>7. CASE SkipOld(r) \/ ConnectFails(r)
  BY <1>2, <1>3, <1>7 DEF SkipOld, ConnectFails, initUnchanged, locals
<1>8. CASE HandshakeTimesOut(r) \/ HandshakeFails(r)
  BY <1>3, <1>8 DEF HandshakeTimesOut, HandshakeFails
<1>9. CASE SendAttempt(r)
  <2>1. CASE Goto(r, "send", "wait") /\ UNCHANGED locals
    BY <2>1, GoesOnBelow DEF locals, Between, Places
  <2> QED BY <1>4, <1>9, <2>1 DEF SendAttempt
<1>10. CASE GetReply(r) \/ LoseReply(r) \/ TimeOut(r)
  BY <1>4, <1>10 DEF GetReply, LoseReply, TimeOut
<1> QED BY <1>5, <1>6, <1>7, <1>8, <1>9, <1>10, BeginBelow DEF Send, InitConnection

(* When the supplier's lists have one length, and for every retryLimit, an *)
(* operation makes no more attempts than its limit; with lists of          *)
(* different length it does not even end (send).                           *)
THEOREM AttemptsWithinLimit == ASSUME OneLength PROVE Spec => []RetriesBounded
<1>1. Init => Bounds
  <2> SUFFICES ASSUME Init PROVE Bounds
    OBVIOUS
  <2>1. Typed
    BY TypedInit
  <2>2. PICK l \in AddressLists \ {<<>>} : attemptsLimit = LimitFor(l)
    BY DEF Init
  <2>3. \A m \in AddressLists \ {<<>>} : LimitFor(m) = attemptsLimit
    BY <2>2 DEF OneLength, LimitFor
  <2>4. attemptsLimit > 0
    <3>1. attemptsLimit \in 1..AttemptsCap /\ AttemptsCap \in Nat
      BY <2>1, ReliableAssumption DEF Typed, OtherTypes
    <3> QED BY <3>1
  <2>5. ASSUME NEW r \in Ops PROVE Below(r)
    <3>1. attemptsCnt[r] = 0 /\ limit[r] = 0 /\ pc[r] = "idle"
      BY DEF Init
    <3> QED BY <2>4, <3>1 DEF Below
  <2> QED BY <2>1, <2>3, <2>5 DEF Bounds
<1>2. Bounds /\ [Next]_vars => Bounds'
  <2> SUFFICES ASSUME Bounds, [Next]_vars PROVE Bounds'
    OBVIOUS
  <2>1. Typed'
    BY TypedStep DEF Bounds
  <2>2. attemptsLimit' = attemptsLimit /\ retryLimit' = retryLimit
    BY LimitStays
  <2>3. \A l \in AddressLists \ {<<>>} : LimitFor(l)' = attemptsLimit'
    BY <2>2 DEF Bounds, LimitFor
  <2>4. ASSUME UNCHANGED <<pc, attemptsCnt, limit>> PROVE \A r \in Ops : Below(r)'
    BY <2>2, <2>4 DEF Bounds, Below
  <2>5. CASE \E r \in Ops : Start(r) \/ Send(r)
    BY <2>1, <2>2, <2>3, <2>5, OperationBelow DEF Bounds
  <2>6. CASE \/ \E r \in Ops : Execute(r)
             \/ \E a \in Addrs : NodeFails(a) \/ NodeStarts(a)
             \/ \E c \in DOMAIN conns : NoticeBroken(c)
             \/ Close \/ CloseCurrent \/ UNCHANGED vars
    <3>1. UNCHANGED <<pc, attemptsCnt, limit>>
      BY <2>6 DEF Execute, NodeFails, NodeStarts, NoticeBroken, Close, CloseCurrent, userUnchanged, opVars, vars
    <3> QED BY <2>1, <2>3, <2>4, <3>1 DEF Bounds
  <2> QED BY <2>5, <2>6 DEF Next
<1>3. Bounds => RetriesBounded
  BY DEF Bounds, Below, RetriesBounded
<1> QED BY <1>1, <1>2, <1>3, PTL DEF Spec

-----------------------------------------------------------------------------
(* The failure of one node, when there is another.                         *)

(* Every list of addresses names two nodes at least. *)
OtherNodes == \A l \in AddressLists \ {<<>>} : \E j, k \in 1 .. Len(l) : l[j] # l[k]

Quiet == failures <= 1 /\ ~closed /\ retryLimit # 1

(* Only the first connection may be lost, and then every other node is up; *)
(* the second one stays.                                                   *)
Connections ==
    /\ Len(conns) \in {1, 2} /\ currCh = Len(conns) /\ attemptsLimit >= 2
    /\ \A c \in 1 .. Len(conns) : conns[c].state # "userClosed"
    /\ failures = 0 => conns[1].state = "live" /\ up = Addrs
    /\ conns[1].state # "live" => \A a \in Addrs : a # conns[1].addr => a \in up
    /\ Len(conns) = 2 => ~IsOpen(1) /\ conns[2].state = "live"

(* An attempt over the first connection is the first attempt, and another  *)
(* one may follow; who looks for another node has passed over the lost one *)
(* only.                                                                   *)
Undisturbed(r) ==
    /\ answer[r] \notin {"connError", "clientError"}
    /\ connectFailed[r] => ~IsOpen(1)
    /\ pc[r] \in {"idle", "current", "load", "lock", "connect"} /\ attemptsCnt[r] # 0 => ~IsOpen(1)
    /\ pc[r] \in {"attempt", "send", "wait"} => ch[r] \in 1 .. Len(conns)
    /\ pc[r] = "attempt" /\ ch[r] = 1 => attemptsCnt[r] = 0
    /\ pc[r] \in {"send", "wait"} => limit[r] >= 2 /\ attemptsCnt[r] >= 1 /\ (ch[r] = 1 => attemptsCnt[r] = 1)
    /\ pc[r] = "connect" /\ mux = r => \A k \in 1 .. (i - 1) : addresses[k] = conns[1].addr

Hidden == /\ upc = "lock" => closed
          /\ Quiet => Connections /\ \A r \in Ops \ Deadlined : Undisturbed(r)

(* What no step undoes: the first connection is lost for good. *)
Frame == /\ Len(conns) <= Len(conns') /\ conns'[1].addr = conns[1].addr
         /\ IsOpen(1)' => IsOpen(1)

Stays(s) == /\ pc'[s] = pc[s] /\ ch'[s] = ch[s] /\ attemptsCnt'[s] = attemptsCnt[s] /\ limit'[s] = limit[s]
            /\ connectFailed'[s] = connectFailed[s] /\ answer'[s] = answer[s]
            /\ mux' = s => UNCHANGED <<mux, addresses, i>>

(* An operation that takes no part in a step.                              *)
LEMMA StaysUndisturbed ==
    ASSUME Typed, NEW s \in Ops, Undisturbed(s), Stays(s), Frame
    PROVE  Undisturbed(s)'
<1>1. Len(conns) \in Nat /\ Len(conns') >= Len(conns)
  BY DEF Typed, Single, Frame
<1>2. ch[s] \in 1 .. Len(conns) => ch[s] \in 1 .. Len(conns')
  <2>1. ch[s] \in Nat
    BY <1>1 DEF Typed, OpTypes
  <2> QED BY <1>1, <2>1 DEF Frame
<1>3. pc'[s] = "connect" /\ mux' = s => \A k \in 1 .. (i' - 1) : addresses'[k] = conns'[1].addr
  BY DEF Undisturbed, Stays, Frame
<1>4. connectFailed'[s] => ~IsOpen(1)'
  BY DEF Undisturbed, Stays, Frame
<1>5. pc'[s] \in {"idle", "current", "load", "lock", "connect"} /\ attemptsCnt'[s] # 0 => ~IsOpen(1)'
  BY DEF Undisturbed, Stays, Frame
<1> QED BY <1>2, <1>3, <1>4, <1>5 DEF Undisturbed, Stays

(* A step of an operation over the connections there are.                  *)
LEMMA StepHidden ==
    ASSUME Typed, Hidden, NEW r \in Ops, UNCHANGED <<closed, connVars, nodeVars, upc>>,
           \A s \in Ops \ {r} : Stays(s),
           Quiet /\ Connections /\ Undisturbed(r) /\ r \notin Deadlined => Undisturbed(r)'
    PROVE  Hidden'
<1>1. UNCHANGED <<conns, currCh, attemptsLimit, up, failures, retryLimit>>
  BY DEF connVars, nodeVars, settings
<1>2. Frame
  BY <1>1 DEF Frame, IsOpen, Typed, Single
<1>3. (Quiet' <=> Quiet) /\ (Connections' <=> Connections)
  BY <1>1 DEF Quiet, Connections, IsOpen
<1>4. ASSUME Quiet, NEW s \in Ops \ Deadlined
      PROVE  Undisturbed(s)'
  <2>1. Connections /\ Undisturbed(s)
    BY <1>4 DEF Hidden
  <2>2. CASE s = r
    BY <1>4, <2>1, <2>2
  <2>3. CASE s # r
    BY <1>2, <2>1, <2>3, StaysUndisturbed
  <2> QED BY <2>2, <2>3
<1>5. (upc' = "lock" => closed') /\ (Quiet => Connections)
  BY DEF Hidden
<1> QED BY <1>3, <1>4, <1>5 DEF Hidden

(* The other operations keep out of what an operation does.                *)
LEMMA GotoStays ==
    ASSUME Typed, NEW r \in Ops, NEW from, NEW to, Goto(r, from, to), UNCHANGED locals,
           UNCHANGED answer \/ (\E a : Report(r, a)), UNCHANGED ch \/ (\E c : ch' = [ch EXCEPT ![r] = c]),
           mux' \in Ops \ {r} => UNCHANGED <<mux, addresses, i>>
    PROVE  /\ \A s \in Ops \ {r} : Stays(s)
           /\ pc[r] = from /\ pc'[r] = to
  BY DEF Goto, Report, locals, Stays, Typed, Placed, OpTypes

(* An operation is called, or sees whether the client is closed.           *)
LEMMA StartHidden == ASSUME Typed, Hidden, NEW r \in Ops, Start(r) \/ CheckClosed(r) PROVE Hidden'
<1>1. /\ UNCHANGED <<closed, connVars, nodeVars, upc, ch, locals, mux, addresses, i>>
      /\ \/ \E from \in {"idle", "current"}, to \in {"current", "load"} : ~closed /\ Goto(r, from, to) /\ UNCHANGED answer
         \/ \E from, a : closed /\ Goto(r, from, "done") /\ Report(r, a)
  BY DEF Start, CheckClosed, opUnchanged, initVars
<1>2. CASE ~closed /\ \E from \in {"idle", "current"}, to \in {"current", "load"} : Goto(r, from, to) /\ UNCHANGED answer
  <2>1. PICK from \in {"idle", "current"}, to \in {"current", "load"} : Goto(r, from, to) /\ UNCHANGED answer
    BY <1>2
  <2>2. (\A s \in Ops \ {r} : Stays(s)) /\ pc[r] \in {"idle", "current"} /\ pc'[r] \in {"current", "load"}
    BY <1>1, <2>1, GotoStays
  <2>3. Undisturbed(r) => Undisturbed(r)'
    BY <1>1, <2>1, <2>2 DEF Undisturbed, locals, connVars, IsOpen
  <2> QED BY <1>1, <2>2, <2>3, StepHidden
<1>3. CASE closed /\ \E from, a : Goto(r, from, "done") /\ Report(r, a)
  <2>1. \A s \in Ops \ {r} : Stays(s)
    BY <1>1, <1>3, GotoStays
  <2> QED BY <1>1, <1>3, <2>1, StepHidden DEF Quiet
<1> QED BY <1>1, <1>2, <1>3

(* Only a connection that is open is taken, so the first one only for the  *)
(* first attempt.                                                          *)
LEMMA LoadHidden == ASSUME Typed, Hidden, NEW r \in Ops, LoadCurrent(r) PROVE Hidden'
<1>1. UNCHANGED <<closed, connVars, nodeVars, upc, locals, answer, mux, addresses, i, conns, currCh>>
  BY DEF LoadCurrent, opUnchanged, initVars, connVars
<1>2. CASE IsOpen(currCh)
  <2>1. Goto(r, "load", "attempt") /\ ch' = [ch EXCEPT ![r] = currCh]
    BY <1>2 DEF LoadCurrent
  <2>2. (\A s \in Ops \ {r} : Stays(s)) /\ pc[r] = "load" /\ pc'[r] = "attempt" /\ ch'[r] = currCh
    BY <1>1, <2>1, GotoStays DEF Typed, OpTypes
  <2>3. Undisturbed(r) /\ Connections => Undisturbed(r)'
    BY <1>1, <1>2, <2>2 DEF Undisturbed, locals, IsOpen, Typed, Single
  <2> QED BY <1>1, <2>2, <2>3, StepHidden
<1>3. CASE ~IsOpen(currCh)
  <2>1. Goto(r, "load", "lock") /\ ch' = ch
    BY <1>3 DEF LoadCurrent
  <2>2. (\A s \in Ops \ {r} : Stays(s)) /\ pc[r] = "load" /\ pc'[r] = "lock"
    BY <1>1, <2>1, GotoStays
  <2>3. Undisturbed(r) => Undisturbed(r)'
    BY <1>1, <2>1, <2>2 DEF Undisturbed, locals, IsOpen
  <2> QED BY <1>1, <2>2, <2>3, StepHidden
<1> QED BY <1>2, <1>3

(* The search for another node begins with the first address.              *)
LEMMA LockHidden == ASSUME Typed, Hidden, NEW r \in Ops, Lock(r) PROVE Hidden'
<1>1. UNCHANGED <<closed, connVars, nodeVars, upc, ch, locals, conns>>
  BY DEF Lock, initUnchanged, connVars
<1>2. CASE Goto(r, "lock", "load") /\ UNCHANGED <<initVars, answer>>
  <2>1. (\A s \in Ops \ {r} : Stays(s)) /\ pc[r] = "lock" /\ pc'[r] = "load"
    BY <1>1, <1>2, GotoStays DEF initVars
  <2>2. Undisturbed(r) => Undisturbed(r)'
    BY <1>1, <1>2, <2>1 DEF Undisturbed, locals, IsOpen
  <2> QED BY <1>1, <2>1, <2>2, StepHidden
<1>3. CASE Goto(r, "lock", "done") /\ Report(r, "supplierError") /\ UNCHANGED initVars
  <2>1. (\A s \in Ops \ {r} : Stays(s)) /\ pc'[r] = "done" /\ answer'[r] = "supplierError"
    BY <1>1, <1>3, GotoStays DEF initVars, Report, Typed, OpTypes
  <2>2. Undisturbed(r) => Undisturbed(r)'
    BY <1>1, <2>1 DEF Undisturbed, locals, IsOpen
  <2> QED BY <1>1, <2>1, <2>2, StepHidden
<1>4. CASE i' = 1 /\ mux' = r /\ Goto(r, "lock", "connect") /\ UNCHANGED answer
  <2>1. (\A s \in Ops \ {r} : Stays(s)) /\ pc[r] = "lock" /\ pc'[r] = "connect"
    BY <1>1, <1>4, GotoStays
  <2>2. \A k \in 1 .. (i' - 1) : addresses'[k] = conns'[1].addr
    BY <1>4
  <2>3. Undisturbed(r) => Undisturbed(r)'
    BY <1>1, <1>4, <2>1, <2>2 DEF Undisturbed, locals, IsOpen
  <2> QED BY <1>1, <2>1, <2>3, StepHidden
<1> QED BY <1>2, <1>3, <1>4 DEF Lock

(* Who connects finds the first connection lost, and no other.             *)
LEMMA LookingElsewhere ==
    ASSUME Typed, Connections, NEW r \in Ops, mux = r
    PROVE  /\ Len(conns) = 1 /\ currCh = 1 /\ ~IsOpen(1)
           /\ addresses \in AddressLists \ {<<>>} /\ i \in 1 .. Len(addresses) /\ Address \in Addrs
<1>1. ~IsOpen(currCh)
  BY DEF Typed, Single
<1>2. Len(conns) = 1 /\ currCh = 1
  BY <1>1 DEF Connections, IsOpen
<1>3. addresses \in AddressLists \ {<<>>} /\ i \in 1 .. Len(addresses)
  BY DEF Typed, InitTypes
<1>4. addresses \in Seq(Addrs)
  BY <1>3, ReliableAssumption
<1>5. Address \in Addrs
  BY <1>3, <1>4 DEF Address
<1> QED BY <1>1, <1>2, <1>3, <1>5

LEMMA GiveUpHidden ==
    ASSUME Typed, Hidden, NEW r \in Ops, NEW a, mux = r, GiveUp(r, a),
           Quiet /\ Connections /\ Undisturbed(r) /\ r \notin Deadlined => a \notin {"connError", "clientError"}
    PROVE  Hidden'
<1>1. /\ UNCHANGED <<closed, connVars, nodeVars, upc, ch, locals, conns>>
      /\ Goto(r, "connect", "done") /\ Report(r, a) /\ mux' = "free"
  BY DEF GiveUp, initUnchanged, Unlock, connVars
<1>2. (\A s \in Ops \ {r} : Stays(s)) /\ pc'[r] = "done" /\ answer'[r] = a
  BY <1>1, GotoStays, ReliableAssumption DEF Report, Typed, OpTypes
<1>3. Undisturbed(r) /\ a \notin {"connError", "clientError"} => Undisturbed(r)'
  BY <1>1, <1>2 DEF Undisturbed, locals, IsOpen
<1> QED BY <1>1, <1>2, <1>3, StepHidden

(* An address that is passed over is that of the lost connection.          *)
LEMMA PassHidden ==
    ASSUME Typed, Hidden, NEW r \in Ops, mux = r, pc[r] = "connect", NEW err, NextAddress(err),
           UNCHANGED <<pc, answer, connVars>>, initUnchanged,
           Quiet /\ Connections /\ r \notin Deadlined => Address = conns[1].addr
    PROVE  Hidden'
<1>1. UNCHANGED <<closed, connVars, nodeVars, upc, ch, locals, conns, pc, answer, mux, addresses>> /\ i' = i + 1
  BY DEF NextAddress, initUnchanged, connVars
<1>2. \A s \in Ops \ {r} : Stays(s)
  BY <1>1 DEF Stays, locals
<1>3. ASSUME Connections, Undisturbed(r), Address = conns[1].addr
      PROVE  Undisturbed(r)'
  <2>1. i \in Nat
    BY DEF Typed, InitTypes
  <2>2. \A k \in 1 .. (i' - 1) : addresses'[k] = conns'[1].addr
    BY <1>1, <1>3, <2>1 DEF Undisturbed, Address
  <2> QED BY <1>1, <1>3, <2>2 DEF Undisturbed, locals, IsOpen
<1> QED BY <1>1, <1>2, <1>3, StepHidden

(* The end of the list is not reached: some address is another one.        *)
LEMMA SkipHidden == ASSUME OtherNodes, Typed, Hidden, NEW r \in Ops, SkipOld(r) PROVE Hidden'
<1>1. mux = r /\ pc[r] = "connect" /\ IsOld
  BY DEF SkipOld
<1>2. Connections => Address = conns[1].addr
  BY <1>1, LookingElsewhere DEF IsOld
<1>3. CASE IsLast /\ GiveUp(r, "connError")
  <2>1. ASSUME Connections, Undisturbed(r)
        PROVE  FALSE
    <3>1. addresses \in AddressLists \ {<<>>} /\ i = Len(addresses) /\ i \in 1 .. Len(addresses)
      BY <1>1, <1>3, <2>1, LookingElsewhere DEF IsLast
    <3>2. \A k \in 1 .. Len(addresses) : addresses[k] = conns[1].addr
      BY <1>1, <1>2, <2>1, <3>1 DEF Undisturbed, Address
    <3> QED BY <3>1, <3>2 DEF OtherNodes
  <2> QED BY <1>1, <1>3, <2>1, GiveUpHidden
<1>4. CASE NextAddress(lastErr) /\ UNCHANGED <<pc, answer, connVars>> /\ initUnchanged
  BY <1>1, <1>2, <1>4, PassHidden
<1> QED BY <1>3, <1>4 DEF SkipOld

(* A node that cannot be dialled is the one that has failed, and that one  *)
(* is passed over.                                                         *)
LEMMA FailsHidden ==
    ASSUME Typed, Hidden, NEW r \in Ops, ConnectFails(r) \/ HandshakeTimesOut(r) \/ HandshakeFails(r)
    PROVE  Hidden'
<1>1. mux = r /\ pc[r] = "connect" /\ ~IsOld
  BY DEF ConnectFails, HandshakeTimesOut, HandshakeFails
<1>2. CASE HandshakeTimesOut(r) \/ HandshakeFails(r)
  BY <1>1, <1>2, GiveUpHidden DEF HandshakeTimesOut, HandshakeFails
<1>3. CASE ConnectFails(r)
  <2>1. Connections => r \in Deadlined
    <3>1. Connections => currCh = 1 /\ ~IsOpen(1) /\ Address \in Addrs
      BY <1>1, LookingElsewhere
    <3>2. Connections => Address \in up
      BY <1>1, <3>1 DEF Connections, IsOld, IsOpen
    <3> QED BY <1>3, <3>2 DEF ConnectFails
  <2>2. CASE GiveUp(r, "connError")
    BY <1>1, <2>1, <2>2, GiveUpHidden
  <2>3. CASE NextAddress("connError") /\ UNCHANGED <<pc, answer, connVars>> /\ initUnchanged
    BY <1>1, <2>1, <2>3, PassHidden
  <2> QED BY <1>3, <2>2, <2>3 DEF ConnectFails
<1> QED BY <1>2, <1>3

(* With two addresses and a retry limit that is not one there is a second  *)
(* attempt.                                                                *)
LEMMA TwoAttemptsAllowed ==
    ASSUME OtherNodes, NEW l \in AddressLists \ {<<>>}, retryLimit \in Nat, retryLimit # 1
    PROVE  LimitFor(l) >= 2
<1>1. PICK n \in Nat : n = Len(l)
  BY ReliableAssumption
<1>2. PICK j \in 1 .. n, k \in 1 .. n : l[j] # l[k]
  BY <1>1 DEF OtherNodes
<1>3. n >= 2
  BY <1>1, <1>2
<1> QED BY <1>1, <1>3 DEF LimitFor

(* The second connection goes to a node that does not fail any more.       *)
LEMMA ConnectHidden == ASSUME OtherNodes, Typed, Hidden, NEW r \in Ops, Connect(r) PROVE Hidden'
<1> DEFINE new == [addr |-> Address, state |-> "live"]
<1>1. /\ mux = r /\ Goto(r, "connect", "load") /\ conns' = Append(conns, new)
      /\ currCh' = Len(conns) + 1 /\ attemptsLimit' = LimitFor(addresses) /\ mux' = "free"
      /\ UNCHANGED <<closed, ch, locals, nodeVars, up, failures, retryLimit, upc, answer>>
  BY DEF Connect, Unlock, initUnchanged, nodeVars, settings
<1>2. /\ conns \in Seq([addr : Addrs, state : ConnStates]) /\ Len(conns) \in Nat /\ currCh \in 1 .. Len(conns)
      /\ conns' \in Seq({conns[c] : c \in 1 .. Len(conns)} \cup {new}) /\ Len(conns') = Len(conns) + 1
      /\ \A c \in 1 .. Len(conns) : conns'[c] = conns[c]
      /\ conns'[Len(conns) + 1] = new
  BY <1>1 DEF Typed, Single
<1>3. 1 \in 1 .. Len(conns)
  BY <1>2
<1>4. Frame
  BY <1>2, <1>3 DEF Frame, IsOpen
<1>5. (\A s \in Ops \ {r} : Stays(s)) /\ pc[r] = "connect" /\ pc'[r] = "load"
  BY <1>1, GotoStays, ReliableAssumption
<1>6. (Quiet' <=> Quiet) /\ (upc' = "lock" => closed')
  BY <1>1 DEF Quiet, Hidden
<1>7. ASSUME Quiet
      PROVE  Connections'
  <2>1. Connections
    BY <1>7 DEF Hidden
  <2>2. /\ Len(conns) = 1 /\ ~IsOpen(1) /\ addresses \in AddressLists \ {<<>>}
    BY <1>1, <2>1, LookingElsewhere
  <2>3. Len(conns') = 2 /\ currCh' = 2 /\ conns'[1] = conns[1] /\ conns'[2] = new /\ ~IsOpen(1)'
    BY <1>1, <1>2, <2>2 DEF IsOpen
  <2>4. attemptsLimit' >= 2
    <3>1. retryLimit \in Nat
      BY ReliableAssumption DEF Typed, OtherTypes
    <3> QED BY <1>1, <1>7, <2>2, <3>1, TwoAttemptsAllowed DEF Quiet
  <2>5. conns[1].state # "userClosed" /\ conns[1].state # "live" /\ (\A a \in Addrs : a # conns[1].addr => a \in up) /\ failures # 0
    BY <2>1, <2>2 DEF Connections, IsOpen
  <2>6. \A c \in 1 .. Len(conns') : conns'[c].state # "userClosed"
    BY <2>3, <2>5
  <2> QED BY <1>1, <2>3, <2>4, <2>5, <2>6 DEF Connections
<1>8. ASSUME Quiet, NEW s \in Ops \ Deadlined
      PROVE  Undisturbed(s)'
  <2>1. Undisturbed(s)
    BY <1>8 DEF Hidden
  <2>2. CASE s # r
    BY <1>4, <1>5, <2>1, <2>2, StaysUndisturbed
  <2>3. CASE s = r
    <3>1. pc'[s] = "load" /\ pc[s] = "connect"
      BY <1>5, <2>3
    <3>2. answer'[s] = answer[s] /\ connectFailed'[s] = connectFailed[s] /\ attemptsCnt'[s] = attemptsCnt[s]
      BY <1>1 DEF locals
    <3> QED BY <1>4, <2>1, <3>1, <3>2 DEF Undisturbed, Frame
  <2> QED BY <2>2, <2>3
<1> QED BY <1>6, <1>7, <1>8 DEF Hidden

LEMMA BeginHidden == ASSUME Typed, Hidden, NEW r \in Ops, BeginAttempt(r) PROVE Hidden'
<1>1. /\ UNCHANGED <<closed, connVars, nodeVars, upc, ch, connectFailed, answer, mux, addresses, i, conns>>
      /\ pc[r] = "attempt" /\ pc' = [pc EXCEPT ![r] = "send"] /\ limit' = [limit EXCEPT ![r] = attemptsLimit]
      /\ attemptsCnt' = [attemptsCnt EXCEPT ![r] = IF attemptsCnt[r] = AttemptsCap THEN attemptsCnt[r] ELSE attemptsCnt[r] + 1]
  BY DEF BeginAttempt, Goto, opUnchanged, initVars, connVars
<1>2. \A s \in Ops \ {r} : Stays(s)
  BY <1>1 DEF Stays, Typed, Placed, OpTypes
<1>3. ASSUME Connections, Undisturbed(r)
      PROVE  Undisturbed(r)'
  <2>1. pc'[r] = "send" /\ limit'[r] = attemptsLimit
    BY <1>1 DEF Typed, Placed, OpTypes
  <2>2. attemptsLimit >= 2 /\ attemptsLimit \in 1 .. AttemptsCap /\ AttemptsCap \in Nat /\ attemptsCnt[r] \in 0 .. AttemptsCap
    BY <1>3, ReliableAssumption DEF Connections, Typed, OtherTypes, OpTypes
  <2>3. attemptsCnt'[r] = IF attemptsCnt[r] = AttemptsCap THEN attemptsCnt[r] ELSE attemptsCnt[r] + 1
    BY <1>1 DEF Typed, OpTypes
  <2>4. attemptsCnt'[r] >= 1 /\ (attemptsCnt[r] = 0 => attemptsCnt'[r] = 1)
    BY <2>2, <2>3
  <2> QED BY <1>1, <1>3, <2>1, <2>2, <2>4 DEF Undisturbed, IsOpen
<1> QED BY <1>1, <1>2, <1>3, StepHidden

(* A lost attempt was the first one, over the first connection: there is   *)
(* another. An attempt that is answered ends the operation, or follows a   *)
(* lost one.                                                               *)
LEMMA CallbackHidden ==
    ASSUME Typed, Hidden, NEW r \in Ops, NEW from \in {"send", "wait"}, NEW a, Callback(r, from, a),
           Quiet /\ Connections /\ r \notin Deadlined =>
               a = "reply" \/ (a = "connError" /\ ~IsOpen(ch[r]))
    PROVE  Hidden'
<1> DEFINE failed == connectFailed[r] \/ a = "connError"
           last == ~failed \/ attemptsCnt[r] = limit[r]
<1>1. /\ UNCHANGED <<closed, connVars, nodeVars, upc, attemptsCnt, limit, mux, addresses, i, conns>>
      /\ pc[r] = from /\ pc' = [pc EXCEPT ![r] = IF last THEN "done" ELSE "current"]
      /\ connectFailed' = [connectFailed EXCEPT ![r] = failed] /\ ch' = [ch EXCEPT ![r] = 0]
      /\ IF last THEN Report(r, a) ELSE UNCHANGED answer
  BY DEF Callback, HandsOn, LeavesLoop, Goto, opUnchanged, initVars, connVars
<1>2. \A s \in Ops \ {r} : Stays(s)
  <2>1. \A s \in Ops \ {r} : answer'[s] = answer[s]
    BY <1>1 DEF Report, Typed, OpTypes
  <2> QED BY <1>1, <2>1 DEF Stays, Typed, Placed, OpTypes
<1>3. ASSUME Connections, Undisturbed(r), a = "reply" \/ (a = "connError" /\ ~IsOpen(ch[r]))
      PROVE  Undisturbed(r)'
  <2>1. ch[r] \in 1 .. Len(conns) /\ limit[r] >= 2 /\ attemptsCnt[r] >= 1 /\ (ch[r] = 1 => attemptsCnt[r] = 1)
    BY <1>1, <1>3 DEF Undisturbed
  <2>2. a = "connError" => ch[r] = 1 /\ ~IsOpen(1)
    <3>1. CASE ch[r] = 1
      BY <1>3, <3>1
    <3>2. CASE ch[r] # 1
      <4>1. ch[r] = 2 /\ Len(conns) = 2
        BY <1>3, <2>1, <3>2 DEF Connections
      <4>2. IsOpen(2)
        BY <1>3, <4>1 DEF Connections, IsOpen
      <4> QED BY <1>3, <4>1, <4>2
    <3> QED BY <3>1, <3>2
  <2>3. failed => ~IsOpen(1)
    BY <1>3, <2>2 DEF Undisturbed
  <2>4. a = "connError" => ~last
    BY <2>1, <2>2
  <2>5. /\ pc'[r] = (IF last THEN "done" ELSE "current") /\ connectFailed'[r] = failed
        /\ answer'[r] = IF last THEN a ELSE answer[r]
    BY <1>1 DEF Report, Typed, Placed, OpTypes
  <2>6. IsOpen(1)' <=> IsOpen(1)
    BY <1>1 DEF IsOpen
  <2>7. answer'[r] \notin {"connError", "clientError"}
    BY <1>3, <2>4, <2>5 DEF Undisturbed
  <2>8. pc'[r] \in {"idle", "current", "load", "lock", "connect"} => ~IsOpen(1)'
    BY <2>3, <2>5, <2>6
  <2>9. pc'[r] \notin {"attempt", "send", "wait", "connect"}
    BY <2>5
  <2> QED BY <2>3, <2>5, <2>6, <2>7, <2>8, <2>9 DEF Undisturbed
<1> QED BY <1>1, <1>2, <1>3, StepHidden

LEMMA AttemptHidden ==
    ASSUME Typed, Hidden, NEW r \in Ops, SendAttempt(r) \/ GetReply(r) \/ LoseReply(r) \/ TimeOut(r) \/ Execute(r)
    PROVE  Hidden'
<1>1. CASE Goto(r, "send", "wait") /\ UNCHANGED <<ch, locals, answer>> /\ opUnchanged
  <2>1. UNCHANGED <<closed, connVars, nodeVars, upc, conns, mux, addresses, i>>
    BY <1>1 DEF opUnchanged, initVars, connVars
  <2>2. (\A s \in Ops \ {r} : Stays(s)) /\ pc[r] = "send" /\ pc'[r] = "wait"
    BY <1>1, <2>1, GotoStays
  <2>3. Undisturbed(r) => Undisturbed(r)'
    BY <1>1, <2>1, <2>2 DEF Undisturbed, locals, IsOpen
  <2> QED BY <2>1, <2>2, <2>3, StepHidden
<1>2. CASE pc[r] = "send" /\ ~IsOpen(ch[r]) /\ Callback(r, "send", "connError")
  BY <1>2, CallbackHidden
<1>3. CASE GetReply(r)
  BY <1>3, CallbackHidden DEF GetReply
<1>4. CASE LoseReply(r)
  <2>1. CASE Callback(r, "wait", "connError") /\ ~IsOpen(ch[r])
    BY <2>1, CallbackHidden
  <2>2. CASE conns[ch[r]].state = "userClosed" /\ Callback(r, "wait", "clientError") /\ pc[r] = "wait"
    <3>1. Quiet /\ Connections /\ r \notin Deadlined => FALSE
      BY <2>2 DEF Hidden, Undisturbed, Connections
    <3> QED BY <2>2, <3>1, CallbackHidden
  <2> QED BY <1>4, <2>1, <2>2 DEF LoseReply
<1>5. CASE TimeOut(r)
  BY <1>5, CallbackHidden DEF TimeOut
<1>6. CASE Execute(r)
  <2>1. /\ UNCHANGED <<closed, connVars, nodeVars, upc, conns, mux, addresses, i>>
        /\ UNCHANGED <<pc, ch, attemptsCnt, limit, connectFailed, answer>>
    BY <1>6 DEF Execute, opUnchanged, initVars, connVars
  <2>2. \A s \in Ops : Stays(s)
    BY <2>1 DEF Stays
  <2>3. Undisturbed(r) => Undisturbed(r)'
    BY <2>1 DEF Undisturbed, IsOpen
  <2> QED BY <2>1, <2>2, <2>3, StepHidden
<1> QED BY <1>1, <1>2, <1>3, <1>4, <1>5, <1>6 DEF SendAttempt

(* The first failure breaks the connection to the node that failed, no     *)
(* other node is down; a second one is not about us.                       *)
LEMMA EnvironmentHidden ==
    ASSUME Typed, Hidden,
           \/ \E a \in Addrs : NodeFails(a) \/ NodeStarts(a)
           \/ \E c \in DOMAIN conns : NoticeBroken(c)
           \/ Close \/ CloseCurrent
           \/ UNCHANGED vars
    PROVE  Hidden'
<1>0. /\ UNCHANGED <<opVars, mux, addresses, i, currCh, attemptsLimit, retryLimit>>
  BY DEF NodeFails, NodeStarts, NoticeBroken, Close, CloseCurrent, userUnchanged,
         connVars, initVars, nodeVars, settings, vars
<1>1. \A s \in Ops : Stays(s)
  BY <1>0 DEF Stays, opVars
<1>2. upc' = "lock" => closed'
  BY DEF Hidden, NodeFails, NodeStarts, NoticeBroken, Close, CloseCurrent, nodeVars, vars
<1>3. conns \in Seq([addr : Addrs, state : ConnStates]) /\ currCh \in 1 .. Len(conns) /\ failures \in Nat
  BY ReliableAssumption DEF Typed, Single, OtherTypes
<1>4. SUFFICES ASSUME Quiet'
               PROVE  Quiet /\ Frame /\ Connections'
  <2>1. ASSUME Quiet', NEW s \in Ops \ Deadlined, Quiet, Frame
        PROVE  Undisturbed(s)'
    <3>1. Undisturbed(s)
      BY <2>1 DEF Hidden
    <3> QED BY <1>1, <2>1, <3>1, StaysUndisturbed
  <2> QED BY <1>2, <1>4, <2>1 DEF Hidden
<1>5. CASE \E a \in Addrs : NodeFails(a)
  <2>1. PICK a \in Addrs : NodeFails(a)
    BY <1>5
  <2>2. failures = 0 /\ failures' = 1 /\ UNCHANGED <<closed, retryLimit>> /\ Quiet
    BY <1>0, <1>3, <1>4, <2>1 DEF NodeFails, Quiet
  <2>3. Connections
    BY <2>2 DEF Hidden
  <2>4. Len(conns) = 1 /\ conns[1].state = "live" /\ up = Addrs
    BY <2>2, <2>3 DEF Connections, IsOpen
  <2>5. conns' = [c \in 1 .. 1 |-> IF conns[c].addr = a /\ conns[c].state = "live"
                                   THEN [conns[c] EXCEPT !.state = "broken"] ELSE conns[c]]
    BY <1>3, <2>1, <2>4 DEF NodeFails
  <2>6. conns[1] \in [addr : Addrs, state : ConnStates]
    <3>1. 1 \in 1 .. Len(conns)
      BY <2>4
    <3> QED BY <1>3, <3>1, ElementOfSeq
  <2>7. /\ Len(conns') = 1 /\ conns'[1].addr = conns[1].addr
        /\ conns'[1].state = IF conns[1].addr = a THEN "broken" ELSE "live"
    BY <2>4, <2>5, <2>6
  <2>8. up' = Addrs \ {a}
    BY <2>1, <2>4 DEF NodeFails
  <2>9. Frame
    BY <2>4, <2>7 DEF Frame, IsOpen
  <2>10. Connections'
    BY <1>0, <2>2, <2>3, <2>4, <2>7, <2>8 DEF Connections
  <2> QED BY <2>2, <2>9, <2>10
<1>6. CASE \E a \in Addrs : NodeStarts(a)
  <2>1. UNCHANGED <<closed, failures, conns>> /\ up \subseteq up' /\ up' \subseteq Addrs
    BY <1>6 DEF NodeStarts, connVars, Typed, Single
  <2>2. Quiet /\ Connections
    BY <1>0, <1>4, <2>1 DEF Quiet, Hidden
  <2>3. Frame
    BY <1>3, <2>1 DEF Frame, IsOpen
  <2>4. Connections'
    BY <1>0, <2>1, <2>2 DEF Connections, IsOpen
  <2> QED BY <2>2, <2>3, <2>4
<1>7. CASE \E c \in DOMAIN conns : NoticeBroken(c)
  <2>1. PICK c \in 1 .. Len(conns) : NoticeBroken(c)
    BY <1>3, <1>7
  <2>2. UNCHANGED <<closed, failures, up>> /\ Quiet
    BY <1>0, <1>4, <2>1 DEF NoticeBroken, nodeVars, Quiet
  <2>3. Connections
    BY <2>2 DEF Hidden
  <2>4. c = 1 /\ conns[1].state = "broken" /\ conns' = [conns EXCEPT ![1].state = "lost"]
    <3>1. conns[c].state = "broken" /\ conns' = [conns EXCEPT ![c].state = "lost"]
      BY <2>1 DEF NoticeBroken
    <3>2. CASE c = 1
      BY <3>1, <3>2
    <3>3. CASE c # 1
      <4>1. Len(conns) = 2 /\ c = 2
        BY <2>3, <3>3 DEF Connections
      <4> QED BY <2>3, <3>1, <4>1 DEF Connections
    <3> QED BY <3>2, <3>3
  <2>5. Len(conns) = 1
    BY <2>3, <2>4 DEF Connections, IsOpen
  <2>6. conns[1] \in [addr : Addrs, state : ConnStates]
    <3>1. 1 \in 1 .. Len(conns)
      BY <2>5
    <3> QED BY <1>3, <3>1, ElementOfSeq
  <2>7. Len(conns') = 1 /\ conns'[1].addr = conns[1].addr /\ conns'[1].state = "lost"
    BY <1>3, <2>4, <2>5, <2>6
  <2>8. Frame
    BY <2>5, <2>7 DEF Frame, IsOpen
  <2>9. Connections'
    <3>1. failures # 0 /\ (\A a \in Addrs : a # conns[1].addr => a \in up) /\ attemptsLimit >= 2 /\ currCh = 1
      BY <2>3, <2>4, <2>5 DEF Connections
    <3>2. \A d \in 1 .. Len(conns') : conns'[d].state # "userClosed"
      BY <2>7
    <3> QED BY <1>0, <2>2, <2>7, <3>1, <3>2 DEF Connections
  <2> QED BY <2>2, <2>8, <2>9
<1>8. CASE Close \/ CloseCurrent
  BY <1>4, <1>8 DEF Close, CloseCurrent, Hidden, Quiet
<1>9. CASE UNCHANGED vars
  <2>1. UNCHANGED <<closed, failures, conns, up>>
    BY <1>9 DEF vars, connVars, nodeVars
  <2>2. Quiet /\ Connections
    BY <1>0, <1>4, <2>1 DEF Quiet, Hidden
  <2>3. Frame
    BY <1>3, <2>1 DEF Frame, IsOpen
  <2>4. Connections'
    BY <1>0, <2>1, <2>2 DEF Connections, IsOpen
  <2> QED BY <2>2, <2>3, <2>4
<1> QED BY <1>5, <1>6, <1>7, <1>8, <1>9

LEMMA InitHidden == ASSUME OtherNodes, Init PROVE Hidden
<1>1. PICK l \in AddressLists, a \in Addrs :
         /\ \E n \in 1 .. Len(l) : l[n] = a
         /\ conns = <<[addr |-> a, state |-> "live"]>> /\ attemptsLimit = LimitFor(l)
  BY DEF Init
<1>2. l # <<>>
  BY <1>1
<1>3. retryLimit \in Nat
  BY ReliableAssumption DEF Init
<1>4. Quiet => attemptsLimit >= 2
  BY <1>1, <1>2, <1>3, TwoAttemptsAllowed DEF Quiet
<1>5. Quiet => Connections
  BY <1>1, <1>4 DEF Init, Connections
<1>6. \A r \in Ops : Undisturbed(r)
  BY DEF Init, Undisturbed
<1>7. upc # "lock"
  BY DEF Init
<1> QED BY <1>5, <1>6, <1>7 DEF Hidden

(* The failure of one node reaches no operation without a deadline as a    *)
(* connection error, provided that there is another node in every list:    *)
(* an attempt that is lost leaves one to be made, the search passes over   *)
(* the lost node only, and what it finds stays (send, initConnection).     *)
THEOREM OneFailureHidden == ASSUME OtherNodes PROVE Spec => []FailureHidden
<1>1. Init => Typed /\ Hidden
  BY TypedInit, InitHidden
<1>2. Typed /\ Hidden /\ [Next]_vars => Typed' /\ Hidden'
  <2> SUFFICES ASSUME Typed, Hidden, [Next]_vars PROVE Typed' /\ Hidden'
    OBVIOUS
  <2>1. Typed'
    BY TypedStep
  <2>2. ASSUME NEW r \in Ops, Start(r) \/ Send(r) \/ Execute(r)
        PROVE  Hidden'
    BY <2>2, StartHidden, LoadHidden, LockHidden, SkipHidden, FailsHidden, ConnectHidden, BeginHidden,
       AttemptHidden DEF Send, InitConnection
  <2> QED BY <2>1, <2>2, EnvironmentHidden DEF Next
<1>3. Hidden => FailureHidden
  BY DEF Hidden, Quiet, Undisturbed, FailureHidden
<1> QED BY <1>1, <1>2, <1>3, PTL DEF Spec
=============================================================================
