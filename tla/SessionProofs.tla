---------------------------- MODULE SessionProofs ----------------------------
(***************************************************************************)
(* What every session keeps, for any nodes with any versions and features  *)
(* and any sizes of results and pages: requests are written in the context *)
(* the node granted and are understood by the node that gets them, the     *)
(* operations of a transaction stay in it, and a cursor hands out its      *)
(* result and leaves nothing behind.                                       *)
(***************************************************************************)
EXTENDS Session, TLAPS

-----------------------------------------------------------------------------
(* What a request makes of the connection it goes over: the node's side.   *)

SameSide(c, d) ==
    /\ d.node = c.node /\ d.shares = c.shares /\ d.context = c.context
    /\ d.granted = c.granted /\ d.open = c.open

LEMMA NodeCursorTyped ==
    ASSUME NEW id \in Nat, NEW rows \in Nat, NEW at \in Nat
    PROVE  NodeCursor(id, rows, at) \subseteq NodeCursors
  BY SessionAssumption DEF NodeCursor, NodeCursors

(* What no request touches. *)
LEMMA Untouched ==
    ASSUME NEW c \in Connections, NEW n \in Nat, NEW ts \in SUBSET Nat, NEW ks \in SUBSET NodeCursors
    PROVE  /\ [c EXCEPT !.nextId = n, !.cursors = ks] \in Connections
           /\ SameSide(c, [c EXCEPT !.nextId = n, !.cursors = ks])
           /\ [c EXCEPT !.nextId = n, !.txs = ts] \in Connections
           /\ SameSide(c, [c EXCEPT !.nextId = n, !.txs = ts])
           /\ [c EXCEPT !.txs = ts] \in Connections
           /\ SameSide(c, [c EXCEPT !.txs = ts])
           /\ [c EXCEPT !.cursors = ks] \in Connections
           /\ SameSide(c, [c EXCEPT !.cursors = ks])
  BY DEF Connections, SameSide

LEMMA OpensCursorTyped ==
    ASSUME NEW c \in Connections, NEW e \in OpensCursor(c)
    PROVE  e.conn \in Connections /\ SameSide(c, e.conn)
<1>1. PICK rows \in 0 .. MaxRows :
          e = [conn |-> [c EXCEPT !.nextId = c.nextId + 1, !.cursors = c.cursors \cup NodeCursor(c.nextId, rows, 1)],
               reply |-> [id |-> c.nextId, rows |-> rows, at |-> 1]]
  BY DEF OpensCursor
<1>2. c.cursors \cup NodeCursor(c.nextId, rows, 1) \in SUBSET NodeCursors /\ c.nextId + 1 \in Nat
  BY SessionAssumption, NodeCursorTyped DEF Connections
<1>3. e.conn = [c EXCEPT !.nextId = c.nextId + 1, !.cursors = c.cursors \cup NodeCursor(c.nextId, rows, 1)]
  BY <1>1
<1> QED BY <1>2, <1>3 DEF Connections, SameSide

LEMMA StartsTxEffect ==
    ASSUME NEW c, NEW e \in StartsTx(c)
    PROVE  e = [conn |-> [c EXCEPT !.nextId = c.nextId + 1, !.txs = c.txs \cup {c.nextId}],
                reply |-> [id |-> c.nextId]]
  BY DEF StartsTx

LEMMA StartsTxTyped ==
    ASSUME NEW c \in Connections, NEW e \in StartsTx(c)
    PROVE  e.conn \in Connections /\ SameSide(c, e.conn) /\ e.reply.id \in Nat
<1>1. PICK d : d = [c EXCEPT !.nextId = c.nextId + 1, !.txs = c.txs \cup {c.nextId}]
  OBVIOUS
<1>2. c.txs \cup {c.nextId} \in SUBSET Nat /\ c.nextId + 1 \in Nat /\ c.nextId \in Nat
  BY DEF Connections
<1>3. d \in Connections /\ SameSide(c, d)
  BY <1>1, <1>2 DEF Connections, SameSide
<1>4. e = [conn |-> d, reply |-> [id |-> c.nextId]]
  BY <1>1, StartsTxEffect
<1>5. e.conn = d /\ e.reply.id = c.nextId
  BY <1>4
<1> QED BY <1>2, <1>3, <1>5

LEMMA EndsTxTyped ==
    ASSUME NEW c \in Connections, NEW e \in EndsTx(c)
    PROVE  e.conn \in Connections /\ SameSide(c, e.conn)
<1>1. e.conn = [c EXCEPT !.txs = c.txs \ {tx.id}]
  BY DEF EndsTx
<1>2. c.txs \ {tx.id} \in SUBSET Nat
  BY DEF Connections
<1> QED BY <1>1, <1>2, Untouched

LEMMA ReadsPageTyped ==
    ASSUME NEW c \in Connections, NEW e \in ReadsPage(c)
    PROVE  e.conn \in Connections /\ SameSide(c, e.conn)
<1>1. PICK k \in c.cursors :
          e = [conn |-> [c EXCEPT !.cursors = (c.cursors \ {k}) \cup NodeCursor(k.id, k.rows, k.at)], reply |-> k]
  BY DEF ReadsPage
<1>2. k \in NodeCursors
  BY DEF Connections
<1>3. (c.cursors \ {k}) \cup NodeCursor(k.id, k.rows, k.at) \in SUBSET NodeCursors
  BY <1>2, NodeCursorTyped DEF Connections, NodeCursors
<1>4. e.conn = [c EXCEPT !.cursors = (c.cursors \ {k}) \cup NodeCursor(k.id, k.rows, k.at)]
  BY <1>1
<1> QED BY <1>3, <1>4, Untouched

LEMMA ClosesCursorTyped ==
    ASSUME NEW c \in Connections, NEW e \in ClosesCursor(c)
    PROVE  e.conn \in Connections /\ SameSide(c, e.conn)
<1>1. e.conn = [c EXCEPT !.cursors = {k \in c.cursors : k.id # cursor.id}]
  BY DEF ClosesCursor
<1>2. {k \in c.cursors : k.id # cursor.id} \in SUBSET NodeCursors
  BY DEF Connections
<1> QED BY <1>1, <1>2, Untouched

LEMMA ExecutedIs ==
    ASSUME NEW i, NEW op
    PROVE  /\ op \in {"scan", "sql"} => Executed(i, op) = OpensCursor(conns[i])
           /\ op = "startTx" => Executed(i, op) = StartsTx(conns[i])
           /\ op = "endTx" => Executed(i, op) = EndsTx(conns[i])
           /\ op = "nextPage" => Executed(i, op) = ReadsPage(conns[i])
           /\ op = "closeCursor" => Executed(i, op) = ClosesCursor(conns[i])
           /\ op \notin {"scan", "sql", "startTx", "endTx", "nextPage", "closeCursor"} =>
                 Executed(i, op) = {[conn |-> conns[i], reply |-> None]}
  BY DEF Executed

LEMMA ExecutedTyped ==
    ASSUME TypeOK, NEW i \in 1 .. Len(conns), NEW op, NEW e \in Executed(i, op)
    PROVE  /\ e.conn \in Connections /\ SameSide(conns[i], e.conn)
           /\ op = "startTx" => e.reply.id \in Nat
<1>1. conns[i] \in Connections
  BY DEF TypeOK, ConnectionsTyped
<1>2. CASE op \in {"scan", "sql"}
  BY <1>1, <1>2, ExecutedIs, OpensCursorTyped
<1>3. CASE op = "startTx"
  BY <1>1, <1>3, ExecutedIs, StartsTxTyped
<1>4. CASE op = "endTx"
  BY <1>1, <1>4, ExecutedIs, EndsTxTyped
<1>5. CASE op = "nextPage"
  BY <1>1, <1>5, ExecutedIs, ReadsPageTyped
<1>6. CASE op = "closeCursor"
  BY <1>1, <1>6, ExecutedIs, ClosesCursorTyped
<1>7. CASE op \notin {"scan", "sql", "startTx", "endTx", "nextPage", "closeCursor"}
  <2>1. e = [conn |-> conns[i], reply |-> None]
    BY <1>7, ExecutedIs
  <2> QED BY <1>1, <1>7, <2>1 DEF SameSide
<1> QED BY <1>2, <1>3, <1>4, <1>5, <1>6, <1>7

(* What a node's execution of the request leaves of the connections. *)
LEMMA NodeExecutesTyped ==
    ASSUME TypeOK, pc = "sent", NEW e \in Executed(sent.conn, sent.op), NodeExecutes(e)
    PROVE  /\ conns' \in Seq(Connections) /\ Len(conns') = Len(conns)
           /\ \A i \in 1 .. Len(conns) : SameSide(conns[i], conns'[i])
           /\ sent.op = "startTx" => e.reply.id \in Nat
<1>1. sent.conn \in 1 .. Len(conns) /\ sent.op \in Operations
  BY DEF TypeOK, CallTyped, ConnectionsTyped, Operations
<1>2. e.conn \in Connections /\ SameSide(conns[sent.conn], e.conn) /\ (sent.op = "startTx" => e.reply.id \in Nat)
  BY <1>1, ExecutedTyped
<1>3. conns' = [conns EXCEPT ![sent.conn] = e.conn]
  BY DEF NodeExecutes
<1>4. conns' \in Seq(Connections) /\ Len(conns') = Len(conns)
  BY <1>1, <1>2, <1>3 DEF TypeOK, ConnectionsTyped
<1>5. \A i \in 1 .. Len(conns) : SameSide(conns[i], conns'[i])
  BY <1>1, <1>2, <1>3 DEF TypeOK, ConnectionsTyped, SameSide
<1> QED BY <1>2, <1>4, <1>5

-----------------------------------------------------------------------------
(* Types                                                                   *)

USE DEF TypeOK, ConnectionsTyped, HandshakeTyped, CallTyped, BoundTyped, InTx, Return

(* The context of a new connection. *)
LEMMA GrantedTyped ==
    ASSUME NEW n \in Nodes, NEW c \in Contexts
    PROVE  Granted(n, c) \in Contexts /\ Updated(c, Granted(n, c).features) \in Contexts
  BY DEF Granted, Updated, Contexts, SupportsBitmapFeatures

LEMMA ContextTyped ==
    ASSUME NEW v \in Versions
    PROVE  NewProtocolContext(v, {}) \in Contexts
  BY DEF NewProtocolContext, Contexts

(* The channel of a call is one of the connections. *)
LEMMA ChannelTyped ==
    ASSUME TypeOK, pc = "call", Open(ChannelOf(call.op))
    PROVE  ChannelOf(call.op) \in 1 .. Len(conns)
<1>1. CASE call.op \in CursorOps
  <2>1. ChannelOf(call.op) = cursor.conn
    BY <1>1 DEF ChannelOf, CursorOps, CacheOps
  <2> QED BY <1>1, <2>1
<1>2. CASE call.op \notin CursorOps /\ (call.op = "endTx" \/ (call.op \in CacheOps /\ InTx))
  <2>1. ChannelOf(call.op) = tx.conn
    BY <1>2 DEF ChannelOf
  <2> QED BY <1>2, <2>1
<1>3. CASE call.op \notin CursorOps /\ ~(call.op = "endTx" \/ (call.op \in CacheOps /\ InTx))
  <2>1. ChannelOf(call.op) = current
    BY <1>3 DEF ChannelOf
  <2> QED BY <2>1 DEF Open
<1> QED BY <1>1, <1>2, <1>3

LEMMA PartsTyped ==
    ASSUME NEW op, NEW c, NEW m
    PROVE  PartsOf(op, c, m) \subseteq Parts
  BY DEF PartsOf, Parts

(* What the client binds to a connection when it reads an answer. *)
LEMMA ReadsBound ==
    ASSUME TypeOK, pc = "sent", NEW reply, ClientReads(reply), sent.op = "startTx" => reply.id \in Nat
    PROVE  /\ tx' # None => tx'.conn \in 1 .. Len(conns) /\ tx'.id \in Nat
           /\ cursor' # None => "conn" \in DOMAIN cursor' /\ cursor'.conn \in 1 .. Len(conns)
<1>1. tx' # None => tx'.conn \in 1 .. Len(conns) /\ tx'.id \in Nat
  BY DEF ClientReads
<1>2. CASE sent.op \in {"scan", "sql"}
  <2>1. cursor' = ReadData(NewCursor(sent.conn, reply.id, sent.op), reply.rows, reply.at)
    BY <1>2 DEF ClientReads
  <2>2. "conn" \in DOMAIN cursor' /\ cursor'.conn = sent.conn
    BY <2>1 DEF ReadData, NewCursor
  <2> QED BY <1>1, <2>2
<1>3. CASE sent.op = "nextPage"
  <2>1. PICK read : /\ read = [ReadData(cursor, reply.rows, reply.at) EXCEPT !.idx = 0]
                    /\ cursor' = [read EXCEPT !.delivered = Append(@, SubSeq(read.data, 1, read.size))]
    BY <1>3 DEF ClientReads
  <2>2. "conn" \in DOMAIN cursor /\ cursor.conn \in 1 .. Len(conns)
    BY <1>3 DEF CursorOps
  <2>3. "conn" \in DOMAIN read /\ read.conn = cursor.conn
    BY <2>1, <2>2 DEF ReadData
  <2>4. "conn" \in DOMAIN cursor' /\ cursor'.conn = read.conn
    BY <2>1, <2>3
  <2> QED BY <1>1, <2>2, <2>3, <2>4
<1>4. CASE sent.op = "closeCursor"
  <2>1. cursor' = [cursor EXCEPT !.more = FALSE, !.closed = TRUE, !.over = TRUE]
    BY <1>4 DEF ClientReads
  <2>2. "conn" \in DOMAIN cursor /\ cursor.conn \in 1 .. Len(conns)
    BY <1>4 DEF CursorOps
  <2>3. "conn" \in DOMAIN cursor' /\ cursor'.conn = cursor.conn
    BY <2>1, <2>2
  <2> QED BY <1>1, <2>2, <2>3
<1>5. CASE sent.op \notin {"scan", "sql", "nextPage", "closeCursor"}
  <2>1. cursor' = cursor
    BY <1>5 DEF ClientReads
  <2> QED BY <1>1, <2>1
<1> QED BY <1>2, <1>3, <1>4, <1>5

(* ... and when a call ends with an error. *)
LEMMA FailsBound ==
    ASSUME TypeOK, pc \in {"call", "sent"}, CallFails
    PROVE  /\ pc' \in {"idle", "panicked"}
           /\ tx' # None => tx'.conn \in 1 .. Len(conns) /\ tx'.id \in Nat
           /\ cursor' # None => "conn" \in DOMAIN cursor' /\ cursor'.conn \in 1 .. Len(conns)
<1>1. pc' \in {"idle", "panicked"} /\ tx' \in {tx, None}
  BY DEF CallFails
<1>2. CASE call.op = "closeCursor"
  <2>1. cursor' = [cursor EXCEPT !.more = FALSE, !.over = TRUE]
    BY <1>2 DEF CallFails
  <2>2. "conn" \in DOMAIN cursor /\ cursor.conn \in 1 .. Len(conns)
    BY <1>2 DEF CursorOps
  <2>3. "conn" \in DOMAIN cursor' /\ cursor'.conn = cursor.conn
    BY <2>1, <2>2
  <2> QED BY <1>1, <2>2, <2>3
<1>3. CASE call.op # "closeCursor"
  BY <1>1, <1>3 DEF CallFails
<1> QED BY <1>2, <1>3

LEMMA TypeStep ==
    ASSUME TypeOK, [Next]_vars
    PROVE  TypeOK'
<1>1. ASSUME NEW op \in Operations \ CursorOps, Call(op)
      PROVE  TypeOK'
  BY <1>1 DEF Call
<1>2. ASSUME NEW n \in Nodes, Connect(n)
      PROVE  TypeOK'
  BY <1>2 DEF Connect
<1>3. CASE HandshakeAccepted
  <2> DEFINE granted == Granted(hs.node, hs.context)
             context == Updated(hs.context, granted.features)
  <2>1. hs.node \in Nodes /\ hs.shares \in BOOLEAN /\ granted \in Contexts /\ context \in Contexts
    BY <1>3, GrantedTyped DEF HandshakeAccepted
  <2>2. [node |-> hs.node, shares |-> hs.shares, context |-> context, granted |-> granted, open |-> TRUE,
         nextId |-> 1, txs |-> {}, cursors |-> {}] \in Connections
    BY <2>1 DEF Connections
  <2>3. PICK r \in Connections : conns' = Append(conns, r)
    BY <1>3, <2>2 DEF HandshakeAccepted
  <2>4. conns' \in Seq(Connections) /\ Len(conns') = Len(conns) + 1 /\ cfg' \in Contexts
    BY <1>3, <2>1, <2>3 DEF HandshakeAccepted
  <2> QED BY <1>3, <2>4 DEF HandshakeAccepted
<1>4. CASE HandshakeRefused
  <2>1. CASE HandshakeFails /\ UNCHANGED cfg
    BY <2>1 DEF HandshakeFails
  <2>2. CASE /\ hs # None
             /\ hs' = [node |-> hs.node, shares |-> FALSE, context |-> NewProtocolContext(Latest[hs.node], {})]
             /\ UNCHANGED <<cfg, conns, current, pc, call, sent, tx, scope, cursor>>
    <3>1. Latest[hs.node] \in Versions
      BY <2>2, SessionAssumption
    <3> QED BY <2>2, <3>1, ContextTyped
  <2> QED BY <1>4, <2>1, <2>2 DEF HandshakeRefused
<1>5. CASE HandshakeBroken
  <2>1. AnswerCutShort => cfg' \in Contexts
    BY <1>5, GrantedTyped DEF HandshakeBroken, AnswerCutShort
  <2>2. cfg' \in Contexts
    BY <1>5, <2>1 DEF HandshakeBroken
  <2> QED BY <1>5, <2>2 DEF HandshakeBroken, HandshakeFails
<1>6. CASE Send
  <2>1. ChannelOf(call.op) \in 1 .. Len(conns)
    BY <1>6, ChannelTyped DEF Send
  <2>2. \/ pc' = "idle" /\ UNCHANGED <<cfg, conns, current, hs, tx, scope, cursor>>
        \/ /\ pc' = "sent" /\ UNCHANGED <<call, cfg, conns, current, hs, tx, scope, cursor>>
           /\ sent'.conn = ChannelOf(call.op) /\ sent'.op = call.op /\ sent'.parts \subseteq Parts
    BY <1>6, PartsTyped DEF Send
  <2> QED BY <1>6, <2>1, <2>2 DEF Send
<1>7. CASE NodeAnswers
  <2>1. PICK e \in Executed(sent.conn, sent.op) : NodeExecutes(e) /\ ClientReads(e.reply)
    BY <1>7 DEF NodeAnswers
  <2>2. conns' \in Seq(Connections) /\ Len(conns') = Len(conns) /\ (sent.op = "startTx" => e.reply.id \in Nat)
    BY <1>7, <2>1, NodeExecutesTyped DEF NodeAnswers
  <2>3. /\ tx' # None => tx'.conn \in 1 .. Len(conns) /\ tx'.id \in Nat
        /\ cursor' # None => "conn" \in DOMAIN cursor' /\ cursor'.conn \in 1 .. Len(conns)
    BY <1>7, <2>1, <2>2, ReadsBound DEF NodeAnswers
  <2> QED BY <1>7, <2>2, <2>3 DEF NodeAnswers
<1>8. CASE RequestFails
  <2>1. conns' \in Seq(Connections) /\ Len(conns') = Len(conns)
    BY <1>8, NodeExecutesTyped DEF RequestFails
  <2>2. pc = "sent" /\ CallFails /\ UNCHANGED <<cfg, current, hs>>
    BY <1>8 DEF RequestFails
  <2> QED BY <2>1, <2>2, FailsBound
<1>9. CASE RequestRetried
  BY <1>9 DEF RequestRetried
<1>10. CASE CallOnClosed
  <2>1. CallFails /\ UNCHANGED <<cfg, conns, current, hs>> /\ pc = "call"
    BY <1>10 DEF CallOnClosed
  <2> QED BY <2>1, FailsBound
<1>11. CASE ConnectionLost
  <2>1. current \in 1 .. Len(conns) /\ conns[current] \in Connections
    BY <1>11 DEF ConnectionLost, Open
  <2>2. PICK r : /\ r = [conns[current] EXCEPT !.open = FALSE, !.txs = {}, !.cursors = {}]
                 /\ conns' = [conns EXCEPT ![current] = r]
    BY <1>11, <2>1 DEF ConnectionLost
  <2>3. r \in Connections
    BY <2>1, <2>2 DEF Connections
  <2>4. conns' \in Seq(Connections) /\ Len(conns') = Len(conns)
    BY <2>1, <2>2, <2>3
  <2> QED BY <1>11, <2>4 DEF ConnectionLost
<1>12. CASE NextInPage
  <2>1. cursor # None /\ "conn" \in DOMAIN cursor' /\ cursor'.conn = cursor.conn
    BY <1>12 DEF NextInPage, CursorInUse
  <2> QED BY <1>12, <2>1 DEF NextInPage
<1>13. CASE NextEnds
  <2>1. cursor # None /\ "conn" \in DOMAIN cursor' /\ cursor'.conn = cursor.conn
    BY <1>13 DEF NextEnds, CursorInUse
  <2> QED BY <1>13, <2>1 DEF NextEnds
<1>14. CASE NextNeedsPage
  BY <1>14 DEF NextNeedsPage, CursorInUse, Call, Operations, CursorOps
<1>15. CASE Close
  <2>1. CASE Call("closeCursor") /\ cursor # None
    BY <2>1 DEF Call, Operations, CursorOps
  <2>2. CASE /\ cursor # None /\ pc = "idle" /\ cursor' = [cursor EXCEPT !.closed = TRUE, !.over = TRUE]
             /\ UNCHANGED <<cfg, conns, current, hs, pc, call, sent, tx, scope>>
    <3>1. "conn" \in DOMAIN cursor' /\ cursor'.conn = cursor.conn
      BY <2>2
    <3> QED BY <2>2, <3>1
  <2> QED BY <1>15, <2>1, <2>2 DEF Close, CursorInUse
<1>16. CASE UNCHANGED vars
  BY <1>16 DEF vars
<1> QED BY <1>1, <1>2, <1>3, <1>4, <1>5, <1>6, <1>7, <1>8, <1>9, <1>10, <1>11, <1>12, <1>13, <1>14, <1>15,
           <1>16 DEF Next

LEMMA InitTyped == Init => TypeOK
  BY SessionAssumption DEF Init, NewProtocolContext, Contexts

(* No variable leaves its type, whatever the nodes answer and lose. *)
THEOREM TypeCorrect == Spec => []TypeOK
<1>1. Init => TypeOK
  BY InitTyped
<1>2. TypeOK /\ [Next]_vars => TypeOK'
  BY TypeStep
<1> QED BY <1>1, <1>2, PTL DEF Spec

-----------------------------------------------------------------------------
(* The handshake: one object holds the context of every connection that    *)
(* did not have to ask twice.  It stays true of the open connection because *)
(* there is only that one, and no handshake is under way while it is open.  *)

(* A version without feature bits has no features. *)
Plain(c) == c.version < 7 => c.features = {}

Honest ==
    /\ Plain(cfg)
    /\ hs # None => Plain(hs.context) /\ ~Open(current) /\ (hs.shares => hs.context = cfg)
    /\ \A i \in 1 .. Len(conns) : conns[i].open => i = current
    /\ ConnectionHonest

(* What the client takes for granted is what the node granted. *)
LEMMA GrantedHonest ==
    ASSUME NEW n \in Nodes, NEW c \in Contexts, Plain(c)
    PROVE  /\ Updated(c, Granted(n, c).features) = Granted(n, c)
           /\ Plain(Granted(n, c))
<1>1. PICK g : g = Granted(n, c) /\ g = [version |-> c.version, features |-> c.features \cap Offers[n]]
  BY DEF Granted
<1>2. CASE c.version >= 7
  BY <1>1, <1>2 DEF Updated, SupportsBitmapFeatures, Contexts, Plain
<1>3. CASE ~(c.version >= 7)
  <2>1. c.features = {} /\ c.version \in Versions
    BY <1>3 DEF Plain, Contexts, Versions
  <2>2. g.features = {} /\ g.version = c.version
    BY <1>1, <2>1
  <2>3. g = c
    BY <1>1, <2>1 DEF Contexts
  <2> QED BY <1>1, <1>3, <2>1, <2>3 DEF Updated, SupportsBitmapFeatures, Plain
<1> QED BY <1>2, <1>3

(* No request changes what the two sides agreed about. *)
LEMMA SidesHonest ==
    ASSUME TypeOK, Honest, UNCHANGED <<cfg, current>>, hs' \in {hs, None},
           Len(conns') = Len(conns), \A i \in 1 .. Len(conns) : SameSide(conns[i], conns'[i])
    PROVE  Honest'
  BY DEF Honest, ConnectionHonest, ProtocolContext, SameSide, Open

LEMMA UnchangedHonest ==
    ASSUME TypeOK, Honest, UNCHANGED <<cfg, conns, current>>, hs' \in {hs, None}
    PROVE  Honest'
  BY SidesHonest DEF SameSide

LEMMA HonestStep ==
    ASSUME TypeOK, Honest, [Next]_vars
    PROVE  Honest'
<1>1. ASSUME NEW op \in Operations \ CursorOps, Call(op)
      PROVE  Honest'
  BY <1>1, UnchangedHonest DEF Call
<1>2. ASSUME NEW n \in Nodes, Connect(n)
      PROVE  Honest'
  BY <1>2 DEF Connect, Honest, ConnectionHonest, ProtocolContext, Open
<1>3. CASE HandshakeAccepted
  <2> DEFINE granted == Granted(hs.node, hs.context)
  <2>1. hs.node \in Nodes /\ hs.context \in Contexts /\ hs # None /\ hs.shares \in BOOLEAN
    BY <1>3 DEF HandshakeAccepted
  <2>2. Updated(hs.context, granted.features) = granted /\ Plain(granted)
    BY <2>1, GrantedHonest DEF Honest
  <2>3. PICK r : /\ r = [node |-> hs.node, shares |-> hs.shares, context |-> granted, granted |-> granted,
                         open |-> TRUE, nextId |-> 1, txs |-> {}, cursors |-> {}]
                 /\ conns' = Append(conns, r)
    BY <1>3, <2>2 DEF HandshakeAccepted
  <2>4. /\ cfg' = IF hs.shares THEN granted ELSE cfg
        /\ current' = Len(conns') /\ hs' = None
    BY <1>3, <2>2 DEF HandshakeAccepted
  <2>5. /\ Len(conns') = Len(conns) + 1 /\ conns'[Len(conns) + 1] = r
        /\ \A i \in 1 .. Len(conns) : conns'[i] = conns[i]
    BY <2>3
  <2>6. \A i \in 1 .. Len(conns) : ~conns[i].open
    BY <2>1 DEF Honest, Open
  <2>7. \A i \in 1 .. Len(conns') : conns'[i].open => i = Len(conns) + 1
    BY <2>5, <2>6
  <2>8. r.shares = hs.shares /\ r.context = granted /\ r.granted = granted
    BY <2>3
  <2>9. ConnectionHonest'
    BY <2>4, <2>5, <2>7, <2>8 DEF ConnectionHonest, ProtocolContext
  <2>10. Plain(cfg')
    BY <2>2, <2>4 DEF Honest
  <2> QED BY <2>4, <2>5, <2>7, <2>9, <2>10 DEF Honest
<1>4. CASE HandshakeRefused
  <2>1. CASE HandshakeFails /\ UNCHANGED cfg
    BY <2>1, UnchangedHonest DEF HandshakeFails
  <2>2. CASE /\ hs # None
             /\ hs' = [node |-> hs.node, shares |-> FALSE, context |-> NewProtocolContext(Latest[hs.node], {})]
             /\ UNCHANGED <<cfg, conns, current, pc, call, sent, tx, scope, cursor>>
    <3>1. Plain(hs'.context) /\ ~hs'.shares
      BY <2>2 DEF NewProtocolContext, Plain
    <3> QED BY <2>2, <3>1 DEF Honest, ConnectionHonest, ProtocolContext, Open
  <2> QED BY <1>4, <2>1, <2>2 DEF HandshakeRefused
<1>5. CASE HandshakeBroken
  <2>1. UNCHANGED <<conns, current>> /\ hs' = None /\ hs # None
    BY <1>5 DEF HandshakeBroken, HandshakeFails
  <2>2. CASE UNCHANGED cfg
    BY <2>1, <2>2, UnchangedHonest
  <2>3. CASE AnswerCutShort
    <3>1. Plain(cfg')
      BY <2>1, <2>3, GrantedHonest DEF AnswerCutShort, Honest
    <3>2. \A i \in 1 .. Len(conns) : ~conns[i].open
      BY <2>1 DEF Honest, Open
    <3> QED BY <2>1, <3>1, <3>2 DEF Honest, ConnectionHonest
  <2> QED BY <1>5, <2>2, <2>3 DEF HandshakeBroken
<1>6. CASE Send
  BY <1>6, UnchangedHonest DEF Send
<1>7. CASE NodeAnswers
  BY <1>7, NodeExecutesTyped, SidesHonest DEF NodeAnswers
<1>8. CASE RequestFails
  <2>1. CASE UNCHANGED conns
    BY <1>8, <2>1, UnchangedHonest DEF RequestFails
  <2>2. CASE \E e \in Executed(sent.conn, sent.op) : NodeExecutes(e)
    BY <1>8, <2>2, NodeExecutesTyped, SidesHonest DEF RequestFails
  <2> QED BY <1>8, <2>1, <2>2 DEF RequestFails
<1>9. CASE RequestRetried
  BY <1>9, UnchangedHonest DEF RequestRetried
<1>10. CASE CallOnClosed
  BY <1>10, UnchangedHonest DEF CallOnClosed
<1>11. CASE ConnectionLost
  <2>1. current \in 1 .. Len(conns) /\ conns[current] \in Connections
    BY <1>11 DEF ConnectionLost, Open
  <2>2. PICK r : /\ r = [conns[current] EXCEPT !.open = FALSE, !.txs = {}, !.cursors = {}]
                 /\ conns' = [conns EXCEPT ![current] = r]
    BY <1>11, <2>1 DEF ConnectionLost
  <2>3. ~r.open /\ r \in Connections
    BY <2>1, <2>2 DEF Connections
  <2>4. /\ Len(conns') = Len(conns) /\ conns'[current] = r
        /\ \A i \in 1 .. Len(conns) : i # current => conns'[i] = conns[i]
    <3>1. conns \in Seq(Connections) /\ conns' = [conns EXCEPT ![current] = r]
      BY <2>2
    <3> HIDE DEF TypeOK
    <3> QED BY <2>1, <2>3, <3>1
  <2>5. \A i \in 1 .. Len(conns') : ~conns'[i].open
    BY <2>3, <2>4 DEF Honest
  <2>6. UNCHANGED <<cfg, current, hs>>
    BY <1>11 DEF ConnectionLost
  <2> QED BY <2>1, <2>4, <2>5, <2>6 DEF Honest, ConnectionHonest, Open
<1>12. CASE NextInPage
  BY <1>12, UnchangedHonest DEF NextInPage
<1>13. CASE NextEnds
  BY <1>13, UnchangedHonest DEF NextEnds
<1>14. CASE NextNeedsPage
  BY <1>14, UnchangedHonest DEF NextNeedsPage, Call
<1>15. CASE Close
  BY <1>15, UnchangedHonest DEF Close, Call
<1>16. CASE UNCHANGED vars
  BY <1>16, UnchangedHonest DEF vars
<1> QED BY <1>1, <1>2, <1>3, <1>4, <1>5, <1>6, <1>7, <1>8, <1>9, <1>10, <1>11, <1>12, <1>13, <1>14, <1>15,
           <1>16 DEF Next

LEMMA InitHonest == Init => Honest
<1>1. Plain(NewProtocolContext(ConfigVersion, ConfigFeatures))
  BY SessionAssumption DEF Plain, NewProtocolContext, Versions
<1>2. Init => Len(conns) = 0
  BY DEF Init
<1> QED BY <1>1, <1>2 DEF Init, Honest, ConnectionHonest

-----------------------------------------------------------------------------
(* Requests and transactions: what a request under way holds was decided   *)
(* when it was written; it stays right because the connection keeps what   *)
(* it granted and the goroutine its transaction until the answer.          *)

Bound ==
    /\ InTx => conns[tx.conn].granted.version >= 5
    /\ ~InTx => scope = {}
    /\ pc = "sent" /\ sent.op \in CacheOps /\ InTx =>
          "transaction" \in sent.parts /\ sent.conn = tx.conn
    /\ InOneTransaction

(* What each optional part says of the operation and of the contexts. *)
LEMMA PartsAre ==
    ASSUME NEW op, NEW c, NEW m
    PROVE  /\ "transaction" \in PartsOf(op, c, m) <=> InTx /\ op \in CacheOps \cup {"sql"}
           /\ "expiry" \in PartsOf(op, c, m) <=> op = "cacheOpExpiring"
           /\ "partitions" \in PartsOf(op, c, m) <=>
                 op = "sql" /\ SupportsAttributeFeature(c, "queryPartitions")
           /\ "configExpiry" \in PartsOf(op, c, m) <=> op = "create" /\ SupportsExpiryPolicy(m)
           /\ "precision" \in PartsOf(op, c, m) <=>
                 op = "create" /\ SupportsQueryEntityPrecisionAndScale(m)
  BY DEF PartsOf

(* What an operation needs for its writer not to fail. *)
LEMMA WriterNeeds ==
    ASSUME NEW op, NEW c, ~WriteFails(op, c)
    PROVE  /\ op = "cacheOpExpiring" => SupportsExpiryPolicy(c)
           /\ op = "startTx" => SupportsTransactions(c)
           /\ op = "clusterNodes" => SupportsAttributeFeature(c, "clusterGroups")
           /\ op = "clusterState" => SupportsAttributeFeature(c, "clusterStates")
  BY DEF WriteFails

(* The connections that were made stay as they were granted, and a closed  *)
(* one stays closed.                                                       *)
LEMMA ConnectionsKept ==
    ASSUME TypeOK, [Next]_vars
    PROVE  /\ Len(conns') >= Len(conns)
           /\ \A i \in 1 .. Len(conns) :
                 conns'[i].granted = conns[i].granted /\ (conns'[i].open => conns[i].open)
<1>1. CASE HandshakeAccepted
  <2>1. PICK r : conns' = Append(conns, r)
    BY <1>1 DEF HandshakeAccepted
  <2> QED BY <2>1
<1>2. CASE NodeAnswers
  BY <1>2, NodeExecutesTyped DEF NodeAnswers, SameSide
<1>3. CASE RequestFails
  BY <1>3, NodeExecutesTyped DEF RequestFails, SameSide
<1>4. CASE ConnectionLost
  <2>1. current \in 1 .. Len(conns) /\ conns[current] \in Connections
    BY <1>4 DEF ConnectionLost, Open
  <2>2. PICK r : /\ r = [conns[current] EXCEPT !.open = FALSE, !.txs = {}, !.cursors = {}]
                 /\ conns' = [conns EXCEPT ![current] = r]
    BY <1>4, <2>1 DEF ConnectionLost
  <2>3. ~r.open /\ r.granted = conns[current].granted /\ r \in Connections
    BY <2>1, <2>2 DEF Connections
  <2> QED BY <2>1, <2>2, <2>3
<1>5. CASE UNCHANGED conns
  BY <1>5
<1>6. ASSUME NEW op \in Operations \ CursorOps, Call(op)
      PROVE  UNCHANGED conns
  BY <1>6 DEF Call
<1>7. ASSUME NEW n \in Nodes, Connect(n)
      PROVE  UNCHANGED conns
  BY <1>7 DEF Connect
<1>8. HandshakeRefused \/ HandshakeBroken => UNCHANGED conns
  BY DEF HandshakeRefused, HandshakeBroken, HandshakeFails
<1>9. Send \/ RequestRetried \/ CallOnClosed => UNCHANGED conns
  BY DEF Send, RequestRetried, CallOnClosed
<1>10. NextInPage \/ NextEnds \/ NextNeedsPage \/ Close => UNCHANGED conns
  BY DEF NextInPage, NextEnds, NextNeedsPage, Close, Call
<1>11. UNCHANGED vars => UNCHANGED conns
  BY DEF vars
<1> QED BY <1>1, <1>2, <1>3, <1>4, <1>5, <1>6, <1>7, <1>8, <1>9, <1>10, <1>11 DEF Next

(* A request that was understood and is still under way still is. *)
LEMMA StillUnderstood ==
    ASSUME TypeOK, RequestsUnderstood, [Next]_vars, UNCHANGED <<sent, tx>>, pc' = "sent" => pc = "sent"
    PROVE  RequestsUnderstood'
<1>1. SUFFICES ASSUME pc' = "sent", Open(sent.conn)'
               PROVE  RequestsUnderstood'
  BY DEF RequestsUnderstood
<1>2. pc = "sent" /\ sent.conn \in 1 .. Len(conns)
  BY <1>1
<1>3. Open(sent.conn) /\ conns'[sent.conn].granted = conns[sent.conn].granted
  BY <1>1, <1>2, ConnectionsKept DEF Open
<1>4. InTx /\ ~Open(tx.conn) => InTx' /\ ~Open(tx.conn)'
  BY ConnectionsKept DEF TypeOK, BoundTyped, InTx, Open
<1> QED BY <1>2, <1>3, <1>4 DEF RequestsUnderstood

(* A request is written for the node it is sent to. *)
LEMMA SendUnderstood ==
    ASSUME TypeOK, Honest, Bound, Send, pc' = "sent"
    PROVE  RequestsUnderstood' /\ Bound'
<1> DEFINE i == ChannelOf(call.op)
           g == conns[i].granted
<1>1. i \in 1 .. Len(conns) /\ conns[i].open
  BY ChannelTyped DEF Send, Open
<1>2. ProtocolContext(i) = g
  BY <1>1 DEF Honest, ConnectionHonest
<1>3. ~WriteFails(call.op, g)
  BY <1>2 DEF Send
<1>4. /\ sent' = [conn |-> i, op |-> call.op, parts |-> PartsOf(call.op, g, ProtocolContext(current))]
      /\ UNCHANGED <<cfg, conns, current, hs, tx, scope, cursor>>
  BY <1>2, <1>3 DEF Send
<1>5. PICK parts : parts = PartsOf(call.op, g, ProtocolContext(current))
  OBVIOUS
<1>6. sent'.conn = i /\ sent'.op = call.op /\ sent'.parts = parts
  BY <1>4, <1>5
<1>7. call.op \in {"create", "sql", "startTx", "clusterNodes", "clusterState"} => i = current
  BY DEF ChannelOf, CursorOps, CacheOps
<1>8. call.op \in CacheOps /\ InTx => i = tx.conn
  BY DEF ChannelOf, CursorOps, CacheOps
<1>9. "transaction" \in parts => \/ i = tx.conn /\ g.version >= 5
                                 \/ call.op = "sql" /\ InTx /\ ~Open(tx.conn)
  <2>1. "transaction" \in parts => (call.op # "sql" => i = tx.conn) /\ (i = tx.conn => g.version >= 5)
    BY <1>5, <1>8, PartsAre DEF Bound
  <2>2. "transaction" \in parts => InTx
    BY <1>5, PartsAre
  <2>3. InTx /\ i # tx.conn => ~conns[tx.conn].open
    BY <1>1 DEF Honest, TypeOK, BoundTyped
  <2>4. "transaction" \in parts /\ i # tx.conn => ~Open(tx.conn)
    BY <2>2, <2>3 DEF Open
  <2> QED BY <2>1, <2>2, <2>4
<1>10. "expiry" \in parts => g.version >= 6
  BY <1>3, <1>5, PartsAre, WriterNeeds DEF SupportsExpiryPolicy
<1>11. /\ call.op = "startTx" => g.version >= 5
       /\ call.op = "clusterNodes" => "clusterGroups" \in g.features
       /\ call.op = "clusterState" => "clusterStates" \in g.features
  BY <1>3, WriterNeeds DEF SupportsTransactions, SupportsAttributeFeature
<1>12. call.op = "sql" => ("partitions" \in parts <=> "queryPartitions" \in g.features)
  BY <1>5, PartsAre DEF SupportsAttributeFeature
<1>13. call.op = "create" => /\ "configExpiry" \in parts <=> g.version >= 6
                             /\ "precision" \in parts <=> g.version >= 2
  BY <1>2, <1>5, <1>7, PartsAre DEF SupportsExpiryPolicy, SupportsQueryEntityPrecisionAndScale
<1>14. RequestsUnderstood'
  <2>1. (~Open(tx.conn)) => (~Open(tx.conn))'
    BY <1>4 DEF Open
  <2>2. InTx' = InTx
    BY <1>4 DEF InTx
  <2> QED BY <1>4, <2>1, <2>2, <1>6, <1>9, <1>10, <1>11, <1>12, <1>13 DEF RequestsUnderstood
<1>15. call.op \in CacheOps /\ InTx => "transaction" \in parts
  BY <1>5, PartsAre
<1>16. Bound'
  BY <1>4, <1>6, <1>8, <1>15 DEF Bound, InOneTransaction
<1> QED BY <1>14, <1>16

(* Where the node's execution of the request leaves the scope. *)
LEMMA ExecutionInScope ==
    ASSUME TypeOK, Bound, pc = "sent", NEW e, NodeExecutes(e)
    PROVE  /\ sent.op = "endTx" \/ ~InTx => scope' = {}
           /\ InTx => scope' \subseteq {<<tx.conn, tx.id>>}
<1>1. sent.op = "endTx" => scope' = {}
  BY DEF NodeExecutes
<1>2. ~InTx => scope' = {}
  BY DEF NodeExecutes, Bound
<1>3. ASSUME InTx, sent.op # "endTx"
      PROVE  scope' \subseteq {<<tx.conn, tx.id>>}
  <2>1. scope' = IF sent.op \in CacheOps THEN scope \cup {ExecutedIn} ELSE scope
    BY <1>3 DEF NodeExecutes
  <2>2. sent.op \in CacheOps => ExecutedIn = <<tx.conn, tx.id>>
    BY <1>3 DEF Bound, ExecutedIn
  <2> QED BY <1>3, <2>1, <2>2 DEF Bound, InOneTransaction
<1> QED BY <1>1, <1>2, <1>3

(* Bound, while the request and the transaction stay what they are. *)
LEMMA StillBound ==
    ASSUME TypeOK, Bound, [Next]_vars, UNCHANGED <<sent, tx, scope>>, pc' = "sent" => pc = "sent"
    PROVE  Bound'
  BY ConnectionsKept DEF Bound, InOneTransaction

LEMMA BoundStep ==
    ASSUME TypeOK, Honest, Bound, RequestsUnderstood, [Next]_vars
    PROVE  Bound' /\ RequestsUnderstood'
<1>1. CASE UNCHANGED <<sent, tx, scope>> /\ (pc' = "sent" => pc = "sent")
  BY <1>1, StillBound, StillUnderstood
<1>2. CASE pc' # "sent" /\ UNCHANGED <<tx, scope>>
  BY <1>2, ConnectionsKept DEF Bound, InOneTransaction, RequestsUnderstood
<1>3. CASE Send
  BY <1>2, <1>3, SendUnderstood DEF Send
<1>4. CASE NodeAnswers
  <2>1. PICK e \in Executed(sent.conn, sent.op) : NodeExecutes(e) /\ ClientReads(e.reply)
    BY <1>4 DEF NodeAnswers
  <2>2. pc = "sent" /\ pc' = "idle"
    BY <1>4 DEF NodeAnswers
  <2>3. /\ sent.op = "endTx" \/ ~InTx => scope' = {}
        /\ InTx => scope' \subseteq {<<tx.conn, tx.id>>}
    BY <2>1, <2>2, ExecutionInScope
  <2>4. /\ sent.op = "startTx" => ~InTx /\ tx'.conn = sent.conn
        /\ sent.op = "endTx" => tx' = None
        /\ sent.op \notin {"startTx", "endTx"} => tx' = tx
    <3>1. sent.op = "startTx" => tx' = [conn |-> sent.conn, id |-> e.reply.id]
      BY <2>1 DEF ClientReads
    <3> QED BY <2>1, <2>2, <3>1 DEF ClientReads
  <2>5. sent.op = "startTx" => conns[sent.conn].granted.version >= 5
    BY <2>1, <2>2 DEF RequestsUnderstood, NodeExecutes
  <2>6. tx' # None => conns'[tx'.conn].granted.version >= 5
    BY <2>2, <2>4, <2>5, ConnectionsKept DEF Bound
  <2> QED BY <2>2, <2>3, <2>4, <2>6 DEF Bound, InOneTransaction, RequestsUnderstood
<1>5. CASE RequestFails
  <2>1. pc = "sent" /\ pc' # "sent" /\ tx' = IF sent.op = "endTx" THEN None ELSE tx
    BY <1>5 DEF RequestFails, CallFails
  <2>2. /\ sent.op = "endTx" \/ ~InTx => scope' = {}
        /\ InTx => scope' \subseteq {<<tx.conn, tx.id>>}
    BY <1>5, <2>1, ExecutionInScope DEF RequestFails, Bound, InOneTransaction
  <2> QED BY <2>1, <2>2, ConnectionsKept DEF Bound, InOneTransaction, RequestsUnderstood
<1>6. CASE CallOnClosed
  <2>1. /\ pc' # "sent" /\ tx' = IF call.op = "endTx" THEN None ELSE tx
        /\ scope' = IF call.op = "endTx" THEN {} ELSE scope
    BY <1>6 DEF CallOnClosed, CallFails
  <2> QED BY <2>1, ConnectionsKept DEF Bound, InOneTransaction, RequestsUnderstood
<1>7. CASE HandshakeAccepted
  BY <1>1, <1>7 DEF HandshakeAccepted
<1>8. CASE HandshakeRefused \/ HandshakeBroken
  <2>1. UNCHANGED <<tx, scope>> /\ (UNCHANGED <<pc, sent>> \/ pc' = "idle")
    BY <1>8 DEF HandshakeRefused, HandshakeBroken, HandshakeFails
  <2> QED BY <1>1, <1>2, <2>1
<1>9. CASE RequestRetried
  BY <1>2, <1>9 DEF RequestRetried
<1>10. CASE ConnectionLost
  BY <1>1, <1>10 DEF ConnectionLost
<1>11. CASE NextInPage \/ NextEnds \/ NextNeedsPage \/ Close
  BY <1>1, <1>11 DEF NextInPage, NextEnds, NextNeedsPage, Close, Call
<1>12. ASSUME NEW op \in Operations \ CursorOps, Call(op)
      PROVE  Bound' /\ RequestsUnderstood'
  BY <1>1, <1>12 DEF Call
<1>13. ASSUME NEW n \in Nodes, Connect(n)
      PROVE  Bound' /\ RequestsUnderstood'
  BY <1>1, <1>13 DEF Connect
<1>14. CASE UNCHANGED vars
  BY <1>1, <1>14 DEF vars
<1> QED BY <1>3, <1>4, <1>5, <1>6, <1>7, <1>8, <1>9, <1>10, <1>11, <1>12, <1>13, <1>14 DEF Next

(* The inductive invariant of a session. *)
LEMMA SessionInvariant == Spec => [](TypeOK /\ Honest /\ Bound /\ RequestsUnderstood)
<1>1. Init => TypeOK /\ Honest /\ Bound /\ RequestsUnderstood
  <2>1. Init => TypeOK
    BY InitTyped
  <2>2. Init => Honest
    BY InitHonest
  <2>3. Init => Bound /\ RequestsUnderstood
    BY DEF Init, Bound, InOneTransaction, RequestsUnderstood
  <2> QED BY <2>1, <2>2, <2>3
<1>2. TypeOK /\ Honest /\ Bound /\ RequestsUnderstood /\ [Next]_vars
         => (TypeOK /\ Honest /\ Bound /\ RequestsUnderstood)'
  BY TypeStep, HonestStep, BoundStep
<1> QED BY <1>1, <1>2, PTL DEF Spec

(* ConnectionHonest: the open connection is used by the context its        *)
(* handshake ended with, whatever other handshakes did to the shared one.  *)
THEOREM ContextIsGranted == Spec => []ConnectionHonest
<1>1. Honest => ConnectionHonest
  BY DEF Honest
<1> QED BY <1>1, SessionInvariant, PTL

(* RequestsUnderstood: no request holds a part its node does not read, or  *)
(* lacks one it does, whichever node failover or the handshake ended at,   *)
(* but for the id of a transaction in a query, whose connection is gone.   *)
THEOREM NodesUnderstand == Spec => []RequestsUnderstood
  BY SessionInvariant, PTL

(* InOneTransaction: the cache operations of a transaction are executed in *)
(* it or not at all.                                                       *)
THEOREM OperationsStayInTransaction == Spec => []InOneTransaction
<1>1. Bound => InOneTransaction
  BY DEF Bound
<1> QED BY <1>1, SessionInvariant, PTL

-----------------------------------------------------------------------------
(* Cursors.  Pages hold whole rows, so that the index of a cursor, which   *)
(* counts cells, always stands at the beginning of a row.                  *)

HIDE DEF TypeOK, ConnectionsTyped, HandshakeTyped, CallTyped, BoundTyped, InTx, Return

LEMMA RowsAndCells ==
    ASSUME NEW size \in Nat \ {0}, NEW m \in Nat, NEW n \in Nat
    PROVE  /\ m * size \in Nat /\ (m + 1) * size = m * size + size
           /\ m < n => m * size + size <= n * size
           /\ m * size < n * size => m < n
<1>1. m * size \in Nat /\ n * size \in Nat /\ (m + 1) * size = m * size + size
  OBVIOUS
<1>2. ASSUME NEW i \in Nat, NEW j \in Nat, i < j
      PROVE  i * size + size <= j * size
  <2>1. PICK d \in Nat : j = i + 1 + d
    BY <1>2, j - i - 1 \in Nat
  <2>2. j * size = i * size + size + d * size /\ d * size \in Nat
    BY <2>1
  <2> QED BY <2>2
<1>3. m * size < n * size => m < n
  <2>1. n < m => n * size + size <= m * size
    BY <1>2
  <2> QED BY <1>1, <2>1
<1> QED BY <1>1, <1>2, <1>3

LEMMA CellOfRow ==
    ASSUME NEW size \in Nat \ {0}, NEW m \in Nat, NEW x \in 0 .. (size - 1)
    PROVE  (m * size + x) \div size = m /\ (m * size + x) % size = x
<1> DEFINE a == m * size + x
           q == a \div size
           r == a % size
<1>1. a \in Nat /\ q \in Nat /\ r \in 0 .. (size - 1) /\ a = size * q + r
  OBVIOUS
<1>2. a = q * size + r
  BY <1>1
<1> HIDE DEF q, r
<1>3. ~(m < q)
  <2>1. m < q => m * size + size <= q * size
    BY <1>1, RowsAndCells
  <2> QED BY <1>1, <1>2, <2>1
<1>4. ~(q < m)
  <2>1. q < m => q * size + size <= m * size
    BY <1>1, RowsAndCells
  <2>2. m * size \in Nat /\ q * size \in Nat
    BY <1>1, RowsAndCells
  <2> QED BY <1>1, <1>2, <2>1, <2>2
<1>5. q = m
  BY <1>1, <1>3, <1>4
<1>6. r = x
  BY <1>1, <1>2, <1>5
<1> QED BY <1>5, <1>6 DEF q, r

Cells == Nat \X Nat

LEMMA PageTyped ==
    ASSUME NEW size \in Nat \ {0}, NEW rows \in Nat, NEW at \in Nat, PageRows(rows, at) \in Nat
    PROVE  /\ Page(rows, at, size) \in Seq(Cells)
           /\ Len(Page(rows, at, size)) = PageRows(rows, at) * size
<1> DEFINE n == PageRows(rows, at) * size
<1>1. n \in Nat
  BY RowsAndCells
<1>2. ASSUME NEW c \in 1 .. n
      PROVE  <<at + ((c - 1) \div size), ((c - 1) % size) + 1>> \in Cells
  <2>1. c - 1 \in Nat
    BY <1>1, <1>2
  <2>2. (c - 1) \div size \in Nat /\ (c - 1) % size \in Nat
    BY <2>1
  <2> QED BY <2>2 DEF Cells
<1>3. Page(rows, at, size) = [c \in 1 .. n |-> <<at + ((c - 1) \div size), ((c - 1) % size) + 1>>]
  BY DEF Page
<1> HIDE DEF n
<1>4. Page(rows, at, size) \in [1 .. n -> Cells]
  BY <1>2, <1>3
<1>5. Page(rows, at, size) \in Seq(Cells)
  BY <1>1, <1>4
<1>6. Len(Page(rows, at, size)) = n
  BY <1>1, <1>3, <1>5
<1> QED BY <1>5, <1>6 DEF n

(* Where a row of the result stands in its page. *)
LEMMA RowOfPage ==
    ASSUME NEW size \in Nat \ {0}, NEW rows \in Nat, NEW at \in Nat, PageRows(rows, at) \in Nat,
           NEW m \in Nat, m < PageRows(rows, at)
    PROVE  SubSeq(Page(rows, at, size), m * size + 1, m * size + size) = Row(at + m, size)
<1> DEFINE n == PageRows(rows, at) * size
           p == Page(rows, at, size)
           s == SubSeq(p, m * size + 1, m * size + size)
<1>1. n \in Nat /\ m * size \in Nat /\ m * size + size <= n
  BY RowsAndCells
<1>2. p \in Seq(Cells) /\ Len(p) = n
  BY PageTyped
<1>3. \A c \in 1 .. n : p[c] = <<at + ((c - 1) \div size), ((c - 1) % size) + 1>>
  BY DEF Page
<1>4. PICK b \in Nat : b = m * size
  BY <1>1
<1>5. s = [j \in 1 .. size |-> p[b + j]]
  <2> HIDE DEF p, n
  <2>1. s = [j \in 1 .. (b + size - (b + 1) + 1) |-> p[j + (b + 1) - 1]]
    BY <1>1, <1>2, <1>4
  <2> QED BY <2>1
<1>6. ASSUME NEW j \in 1 .. size
      PROVE  p[b + j] = <<at + m, j>>
  <2>1. b + j \in 1 .. n /\ (b + j) - 1 = b + (j - 1) /\ j - 1 \in 0 .. (size - 1)
    BY <1>1, <1>4
  <2>2. p[b + j] = <<at + ((b + (j - 1)) \div size), ((b + (j - 1)) % size) + 1>>
    <3> HIDE DEF p, n
    <3> QED BY <1>3, <2>1
  <2>3. (b + (j - 1)) \div size = m /\ (b + (j - 1)) % size = j - 1
    BY <1>4, <2>1, CellOfRow
  <2> HIDE DEF p
  <2> QED BY <2>2, <2>3
<1>7. s = Row(at + m, size)
  <2> HIDE DEF s, p, n
  <2> QED BY <1>5, <1>6 DEF Row
<1> QED BY <1>7

LEMMA FirstRowOfPage ==
    ASSUME NEW size \in Nat \ {0}, NEW rows \in Nat, NEW at \in Nat, PageRows(rows, at) \in Nat, 0 < PageRows(rows, at)
    PROVE  SubSeq(Page(rows, at, size), 1, size) = Row(at, size)
<1>1. SubSeq(Page(rows, at, size), 0 * size + 1, 0 * size + size) = Row(at + 0, size)
  BY RowOfPage
<1>2. 0 * size + 1 = 1 /\ 0 * size + size = size /\ at + 0 = at
  OBVIOUS
<1> QED BY <1>1, <1>2

-----------------------------------------------------------------------------
(* The node's cursors: their ids are the connection's own, each used once. *)

Orderly(c) ==
    /\ \A k \in c.cursors : k.id < c.nextId
    /\ \A k, l \in c.cursors : k.id = l.id => k = l

Holds(c, id) == {k \in c.cursors : k.id = id}

LEMMA NodeCursorIs ==
    ASSUME NEW id, NEW rows, NEW at, NEW k \in NodeCursor(id, rows, at)
    PROVE  MoreAfter(rows, at) /\ k = [id |-> id, rows |-> rows, at |-> at + PageSize]
           /\ k.id = id /\ k.rows = rows /\ k.at = at + PageSize
  BY DEF NodeCursor

LEMMA NodeCursorOne ==
    ASSUME NEW id, NEW rows, NEW at
    PROVE  /\ \A k, l \in NodeCursor(id, rows, at) : k = l
           /\ {k \in NodeCursor(id, rows, at) : k.id = id} = NodeCursor(id, rows, at)
           /\ ~MoreAfter(rows, at) => NodeCursor(id, rows, at) = {}
  BY NodeCursorIs DEF NodeCursor

(* A query opens a cursor of an id no cursor had. *)
LEMMA OpensCursorKeeps ==
    ASSUME NEW c \in Connections, Orderly(c), NEW e \in OpensCursor(c)
    PROVE  /\ Orderly(e.conn) /\ e.conn.nextId = c.nextId + 1
           /\ \A id \in Nat : id < c.nextId => Holds(e.conn, id) = Holds(c, id)
           /\ e.reply.id = c.nextId /\ e.reply.at = 1 /\ e.reply.rows \in 0 .. MaxRows
           /\ Holds(e.conn, c.nextId) = NodeCursor(c.nextId, e.reply.rows, 1)
<1>1. PICK rows \in 0 .. MaxRows :
          e = [conn |-> [c EXCEPT !.nextId = c.nextId + 1, !.cursors = c.cursors \cup NodeCursor(c.nextId, rows, 1)],
               reply |-> [id |-> c.nextId, rows |-> rows, at |-> 1]]
  BY DEF OpensCursor
<1>2. /\ e.conn.nextId = c.nextId + 1 /\ e.conn.cursors = c.cursors \cup NodeCursor(c.nextId, rows, 1)
      /\ e.reply.id = c.nextId /\ e.reply.at = 1 /\ e.reply.rows = rows
  BY <1>1 DEF Connections
<1>3. c.nextId \in Nat /\ \A k \in c.cursors : k.id \in Nat /\ k.id < c.nextId
  BY DEF Orderly, Connections, NodeCursors
<1>4. \A k \in NodeCursor(c.nextId, rows, 1) : k.id = c.nextId
  BY NodeCursorIs
<1>5. Orderly(e.conn)
  <2>1. \A k \in e.conn.cursors : k.id < c.nextId + 1
    BY <1>2, <1>3, <1>4
  <2>2. ASSUME NEW k \in e.conn.cursors, NEW l \in e.conn.cursors, k.id = l.id
        PROVE  k = l
    BY <1>2, <1>3, <1>4, <2>2, NodeCursorOne DEF Orderly
  <2> QED BY <1>2, <2>1, <2>2 DEF Orderly
<1>6. ASSUME NEW id \in Nat, id < c.nextId
      PROVE  Holds(e.conn, id) = Holds(c, id)
  BY <1>2, <1>3, <1>4, <1>6 DEF Holds
<1>7. Holds(e.conn, c.nextId) = NodeCursor(c.nextId, rows, 1)
  BY <1>2, <1>3, <1>4 DEF Holds
<1> QED BY <1>2, <1>3, <1>5, <1>6, <1>7

LEMMA ReadsPageKeeps ==
    ASSUME NEW c \in Connections, Orderly(c), NEW e \in ReadsPage(c)
    PROVE  /\ Orderly(e.conn) /\ e.conn.nextId = c.nextId
           /\ e.reply \in Holds(c, cursor.id)
           /\ Holds(e.conn, cursor.id) = NodeCursor(cursor.id, e.reply.rows, e.reply.at)
<1>1. PICK k \in c.cursors :
          /\ k.id = cursor.id
          /\ e = [conn |-> [c EXCEPT !.cursors = (c.cursors \ {k}) \cup NodeCursor(k.id, k.rows, k.at)], reply |-> k]
  BY DEF ReadsPage
<1>2. /\ e.conn.nextId = c.nextId /\ e.reply = k
      /\ e.conn.cursors = (c.cursors \ {k}) \cup NodeCursor(k.id, k.rows, k.at)
  BY <1>1 DEF Connections
<1>3. \A l \in NodeCursor(k.id, k.rows, k.at) : l.id = k.id
  BY NodeCursorIs
<1>4. \A l \in c.cursors : l.id = k.id => l = k
  BY DEF Orderly
<1>5. \A l \in e.conn.cursors : l.id < c.nextId
  BY <1>2, <1>3 DEF Orderly
<1>6. ASSUME NEW l \in e.conn.cursors, NEW n \in e.conn.cursors, l.id = n.id
      PROVE  l = n
  BY <1>2, <1>3, <1>4, <1>6, NodeCursorOne DEF Orderly
<1>7. Holds(e.conn, cursor.id) = NodeCursor(cursor.id, k.rows, k.at)
  BY <1>1, <1>2, <1>3, <1>4 DEF Holds
<1> QED BY <1>1, <1>2, <1>5, <1>6, <1>7 DEF Orderly, Holds

LEMMA ClosesCursorKeeps ==
    ASSUME NEW c \in Connections, Orderly(c), NEW e \in ClosesCursor(c)
    PROVE  Orderly(e.conn) /\ e.conn.nextId = c.nextId /\ Holds(e.conn, cursor.id) = {}
<1>1. e.conn = [c EXCEPT !.cursors = {k \in c.cursors : k.id # cursor.id}]
  BY DEF ClosesCursor
<1>2. e.conn.nextId = c.nextId /\ e.conn.cursors = {k \in c.cursors : k.id # cursor.id}
  BY <1>1 DEF Connections
<1> QED BY <1>2 DEF Orderly, Holds

LEMMA TxKeeps ==
    ASSUME NEW c \in Connections, Orderly(c), NEW e \in StartsTx(c) \cup EndsTx(c)
    PROVE  Orderly(e.conn) /\ c.nextId <= e.conn.nextId /\ e.conn.cursors = c.cursors
<1>1. c.nextId \in Nat /\ \A k \in c.cursors : k.id \in Nat
  BY DEF Connections, NodeCursors
<1>2. c.nextId <= e.conn.nextId /\ e.conn.nextId \in Nat /\ e.conn.cursors = c.cursors
  <2>1. CASE e \in StartsTx(c)
    <3>1. e = [conn |-> [c EXCEPT !.nextId = c.nextId + 1, !.txs = c.txs \cup {c.nextId}],
               reply |-> [id |-> c.nextId]]
      BY <2>1, StartsTxEffect
    <3>2. e.conn = [c EXCEPT !.nextId = c.nextId + 1, !.txs = c.txs \cup {c.nextId}]
      BY <3>1
    <3>3. e.conn.nextId = c.nextId + 1 /\ e.conn.cursors = c.cursors
      BY <3>2 DEF Connections
    <3> QED BY <1>1, <3>3
  <2>2. CASE e \in EndsTx(c)
    <3>1. e.conn = [c EXCEPT !.txs = c.txs \ {tx.id}]
      BY <2>2 DEF EndsTx
    <3>2. e.conn.nextId = c.nextId /\ e.conn.cursors = c.cursors
      BY <3>1 DEF Connections
    <3> QED BY <1>1, <3>2
  <2> QED BY <2>1, <2>2
<1> QED BY <1>1, <1>2 DEF Orderly

LEMMA ExecutedKeeps ==
    ASSUME NEW i, NEW op, conns[i] \in Connections, Orderly(conns[i]), NEW e \in Executed(i, op)
    PROVE  /\ Orderly(e.conn) /\ conns[i].nextId <= e.conn.nextId
           /\ op \notin CursorOps => \A id \in Nat : id < conns[i].nextId => Holds(e.conn, id) = Holds(conns[i], id)
           /\ op \in {"scan", "sql"} =>
                 /\ conns[i].nextId < e.conn.nextId
                 /\ e.reply.id = conns[i].nextId /\ e.reply.at = 1 /\ e.reply.rows \in 0 .. MaxRows
                 /\ Holds(e.conn, e.reply.id) = NodeCursor(e.reply.id, e.reply.rows, 1)
           /\ op = "nextPage" =>
                 /\ e.reply \in Holds(conns[i], cursor.id)
                 /\ Holds(e.conn, cursor.id) = NodeCursor(cursor.id, e.reply.rows, e.reply.at)
           /\ op = "closeCursor" => Holds(e.conn, cursor.id) = {}
<1>0. conns[i].nextId \in Nat
  BY DEF Connections
<1>1. CASE op \in {"scan", "sql"}
  <2>1. e \in OpensCursor(conns[i])
    BY <1>1, ExecutedIs
  <2> QED BY <1>0, <1>1, <2>1, OpensCursorKeeps DEF CursorOps
<1>2. CASE op \in {"startTx", "endTx"}
  <2>1. e \in StartsTx(conns[i]) \cup EndsTx(conns[i])
    BY <1>2, ExecutedIs
  <2> QED BY <1>2, <2>1, TxKeeps DEF Holds
<1>3. CASE op = "nextPage"
  <2>1. e \in ReadsPage(conns[i])
    BY <1>3, ExecutedIs
  <2> QED BY <1>0, <1>3, <2>1, ReadsPageKeeps DEF CursorOps
<1>4. CASE op = "closeCursor"
  <2>1. e \in ClosesCursor(conns[i])
    BY <1>4, ExecutedIs
  <2> QED BY <1>0, <1>4, <2>1, ClosesCursorKeeps DEF CursorOps
<1>5. CASE op \notin {"scan", "sql", "startTx", "endTx", "nextPage", "closeCursor"}
  <2>1. e.conn = conns[i]
    BY <1>5, ExecutedIs
  <2> QED BY <1>0, <1>5, <2>1
<1> QED BY <1>1, <1>2, <1>3, <1>4, <1>5

-----------------------------------------------------------------------------
(* A cursor: where it stands in its page, and its page in the result.      *)

Cursors == [conn : Nat, id : Nat, size : Nat \ {0}, data : Seq(Cells), idx : Int, more : BOOLEAN,
            rows : Nat, delivered : Seq(Seq(Cells)), ended : BOOLEAN, closed : BOOLEAN, over : BOOLEAN]

Whole(cur) ==
    /\ \A r \in 1 .. Len(cur.delivered) : cur.delivered[r] = Row(r, cur.size)
    /\ Len(cur.delivered) <= cur.rows
    /\ cur.ended => Len(cur.delivered) = cur.rows

InPage(cur, at) ==
    /\ 1 <= at /\ at <= cur.rows + 1
    /\ cur.data = Page(cur.rows, at, cur.size)
    /\ ~cur.over =>
          /\ cur.more = MoreAfter(cur.rows, at)
          /\ \/ cur.idx = -1 /\ at = 1 /\ Len(cur.delivered) = 0
             \/ \E m \in Nat : /\ m < PageRows(cur.rows, at)
                               /\ cur.idx = m * cur.size /\ Len(cur.delivered) = at + m

LEMMA RowAdded ==
    ASSUME NEW c \in Cursors, NEW ds \in Seq(Seq(Cells)), NEW d, d = [c EXCEPT !.delivered = ds]
    PROVE  /\ d \in Cursors /\ d.delivered = ds /\ d.data = c.data /\ d.size = c.size
           /\ d.idx = c.idx /\ d.more = c.more /\ d.rows = c.rows
           /\ d.conn = c.conn /\ d.id = c.id /\ d.over = c.over
           /\ d.ended = c.ended /\ d.closed = c.closed
  BY DEF Cursors

LEMMA PageRowsTyped ==
    ASSUME NEW rows \in Nat, NEW at \in Nat, at <= rows + 1
    PROVE  /\ PageRows(rows, at) \in Nat /\ at + PageRows(rows, at) <= rows + 1
           /\ MoreAfter(rows, at) => PageRows(rows, at) = PageSize
           /\ ~MoreAfter(rows, at) => at + PageRows(rows, at) = rows + 1
  BY SessionAssumption DEF PageRows, MoreAfter

LEMMA RowTyped ==
    ASSUME NEW r \in Nat, NEW size \in Nat
    PROVE  Row(r, size) \in Seq(Cells)
<1>1. Row(r, size) \in [1 .. size -> Cells]
  BY DEF Row, Cells
<1> QED BY <1>1

(* One more row. *)
LEMMA RowDelivered ==
    ASSUME NEW size \in Nat \ {0}, NEW d \in Seq(Seq(Cells)), \A r \in 1 .. Len(d) : d[r] = Row(r, size),
           NEW e, e = Append(d, Row(Len(d) + 1, size))
    PROVE  /\ e \in Seq(Seq(Cells)) /\ Len(e) = Len(d) + 1
           /\ \A r \in 1 .. Len(e) : e[r] = Row(r, size)
<1>1. PICK row \in Seq(Cells) : row = Row(Len(d) + 1, size)
  BY RowTyped
<1>2. e \in Seq(Seq(Cells)) /\ Len(e) = Len(d) + 1 /\ e[Len(d) + 1] = row
      /\ \A r \in 1 .. Len(d) : e[r] = d[r]
  BY <1>1
<1> QED BY <1>1, <1>2

(* The first page. *)
LEMMA QueryReads ==
    ASSUME NEW i \in Nat, NEW id \in Nat, NEW op, NEW rows \in Nat,
           cursor' = ReadData(NewCursor(i, id, op), rows, 1)
    PROVE  /\ cursor' \in Cursors /\ Whole(cursor)' /\ InPage(cursor', 1)
           /\ cursor'.conn = i /\ cursor'.id = id /\ cursor'.rows = rows /\ ~cursor'.over
           /\ ~cursor'.ended /\ ~cursor'.closed /\ cursor'.more = MoreAfter(rows, 1)
<1>1. PICK size \in Nat \ {0} : size = IF op = "scan" THEN 2 ELSE Columns
  BY SessionAssumption
<1>2. PageRows(rows, 1) \in Nat
  BY PageRowsTyped
<1>3. PICK page \in Seq(Cells) : page = Page(rows, 1, size)
  BY <1>2, PageTyped
<1>4. PICK more \in BOOLEAN : more = MoreAfter(rows, 1)
  <2>1. MoreAfter(rows, 1) \in BOOLEAN
    BY DEF MoreAfter
  <2> QED BY <2>1
<1>5. cursor' = [conn |-> i, id |-> id, size |-> size, data |-> page, idx |-> -1, more |-> more,
                 rows |-> rows, delivered |-> <<>>, ended |-> FALSE, closed |-> FALSE, over |-> FALSE]
  BY <1>1, <1>3, <1>4 DEF ReadData, NewCursor
<1>6. cursor' \in Cursors
  <2>1. -1 \in Int
    OBVIOUS
  <2>2. <<>> \in Seq(Seq(Cells))
    OBVIOUS
  <2>3. FALSE \in BOOLEAN
    OBVIOUS
  <2>4. PICK none \in Seq(Seq(Cells)) : none = <<>>
    BY <2>2
  <2>5. PICK idx \in Int : idx = -1
    BY <2>1
  <2>6. PICK no \in BOOLEAN : no = FALSE
    BY <2>3
  <2>7. cursor' = [conn |-> i, id |-> id, size |-> size, data |-> page, idx |-> idx, more |-> more,
                   rows |-> rows, delivered |-> none, ended |-> no, closed |-> no, over |-> no]
    BY <1>5, <2>4, <2>5, <2>6
  <2> HIDE <2>4, <2>5, <2>6
  <2> QED BY <2>7 DEF Cursors
<1>7. Whole(cursor)'
  BY <1>5 DEF Whole
<1>8. InPage(cursor', 1)
  BY <1>3, <1>4, <1>5 DEF InPage
<1> QED BY <1>4, <1>5, <1>6, <1>7, <1>8

(* The next page, when the last row of the page before was handed out. *)
LEMMA NextPageReads ==
    ASSUME cursor \in Cursors, Whole(cursor), NEW at \in Nat, InPage(cursor, at), ~cursor.over,
           MoreAfter(cursor.rows, at), Len(cursor.delivered) = at + PageSize - 1,
           NEW read, read = [ReadData(cursor, cursor.rows, at + PageSize) EXCEPT !.idx = 0],
           cursor' = [read EXCEPT !.delivered = Append(@, SubSeq(read.data, 1, read.size))]
    PROVE  /\ cursor' \in Cursors /\ Whole(cursor)' /\ InPage(cursor', at + PageSize)
           /\ cursor'.conn = cursor.conn /\ cursor'.id = cursor.id /\ cursor'.rows = cursor.rows
           /\ cursor'.over = cursor.over /\ cursor'.ended = cursor.ended /\ cursor'.closed = cursor.closed
           /\ cursor'.more = MoreAfter(cursor.rows, at + PageSize)
<1>0. PICK b \in Nat, rows \in Nat, size \in Nat \ {0} :
          b = at + PageSize /\ rows = cursor.rows /\ size = cursor.size
  BY SessionAssumption DEF Cursors
<1>1. 1 <= b /\ b <= rows /\ PageSize \in Nat \ {0}
  BY <1>0, SessionAssumption DEF MoreAfter
<1>2. PageRows(rows, b) \in Nat /\ 0 < PageRows(rows, b)
  BY <1>1 DEF PageRows, MoreAfter
<1>3. PICK page \in Seq(Cells) : page = Page(rows, b, size)
  BY <1>2, PageTyped
<1>4. SubSeq(page, 1, size) = Row(b, size)
  BY <1>2, <1>3, FirstRowOfPage
<1>5. PICK more \in BOOLEAN : more = MoreAfter(rows, b)
  <2>1. MoreAfter(rows, b) \in BOOLEAN
    BY DEF MoreAfter
  <2> QED BY <2>1
<1>6. read = [cursor EXCEPT !.data = page, !.more = more, !.rows = rows, !.idx = 0]
  BY <1>0, <1>3, <1>5 DEF ReadData
<1>7. read \in Cursors /\ read.data = page /\ read.size = size /\ read.delivered = cursor.delivered
      /\ read.idx = 0 /\ read.more = more /\ read.rows = rows
      /\ read.conn = cursor.conn /\ read.id = cursor.id /\ read.over = cursor.over
      /\ read.ended = cursor.ended /\ read.closed = cursor.closed
  <2>1. read = [conn |-> cursor.conn, id |-> cursor.id, size |-> size, data |-> page, idx |-> 0,
                more |-> more, rows |-> rows, delivered |-> cursor.delivered, ended |-> cursor.ended,
                closed |-> cursor.closed, over |-> cursor.over]
    BY <1>0, <1>6 DEF Cursors
  <2> QED BY <2>1 DEF Cursors
<1>8. PICK e : e = Append(cursor.delivered, Row(b, size)) /\ cursor' = [read EXCEPT !.delivered = e]
  BY <1>4, <1>7
<1>9. e \in Seq(Seq(Cells)) /\ Len(e) = b /\ \A r \in 1 .. Len(e) : e[r] = Row(r, size)
  <2>1. PICK d \in Seq(Seq(Cells)) : d = cursor.delivered
    BY DEF Cursors
  <2>2. Len(d) + 1 = b
    BY <1>0, <1>1, <2>1
  <2>3. \A r \in 1 .. Len(d) : d[r] = Row(r, size)
    BY <1>0, <2>1 DEF Whole
  <2>4. e = Append(d, Row(Len(d) + 1, size))
    BY <1>8, <2>1, <2>2
  <2> HIDE <2>1
  <2> QED BY <2>2, <2>3, <2>4, RowDelivered
<1>10. cursor' \in Cursors /\ cursor'.delivered = e /\ cursor'.data = page /\ cursor'.size = size
       /\ cursor'.idx = 0 /\ cursor'.more = more /\ cursor'.rows = rows
       /\ cursor'.conn = cursor.conn /\ cursor'.id = cursor.id /\ cursor'.over = cursor.over
       /\ cursor'.ended = cursor.ended /\ cursor'.closed = cursor.closed
  <2>1. PICK c \in Cursors, ds \in Seq(Seq(Cells)) : c = read /\ ds = e
    BY <1>7, <1>9
  <2>2. cursor' = [c EXCEPT !.delivered = ds]
    BY <1>8, <2>1
  <2>3. /\ cursor' \in Cursors /\ cursor'.delivered = ds /\ cursor'.data = c.data /\ cursor'.size = c.size
        /\ cursor'.idx = c.idx /\ cursor'.more = c.more /\ cursor'.rows = c.rows
        /\ cursor'.conn = c.conn /\ cursor'.id = c.id /\ cursor'.over = c.over
        /\ cursor'.ended = c.ended /\ cursor'.closed = c.closed
    <3>1. PICK d : d = [c EXCEPT !.delivered = ds]
      OBVIOUS
    <3>2. /\ d \in Cursors /\ d.delivered = ds /\ d.data = c.data /\ d.size = c.size
          /\ d.idx = c.idx /\ d.more = c.more /\ d.rows = c.rows
          /\ d.conn = c.conn /\ d.id = c.id /\ d.over = c.over
          /\ d.ended = c.ended /\ d.closed = c.closed
      BY <3>1, RowAdded
    <3>3. cursor' = d
      BY <2>2, <3>1
    <3> QED BY <3>2, <3>3
  <2>4. /\ c.data = page /\ c.size = size /\ c.idx = 0 /\ c.more = more /\ c.rows = rows
        /\ c.conn = cursor.conn /\ c.id = cursor.id /\ c.over = cursor.over
        /\ c.ended = cursor.ended /\ c.closed = cursor.closed
    BY <1>7, <2>1
  <2> QED BY <2>1, <2>3, <2>4
<1>11. ~cursor.ended
  BY <1>0, <1>1 DEF Whole
<1>12. Whole(cursor)'
  BY <1>1, <1>9, <1>10, <1>11 DEF Whole
<1>13. InPage(cursor', b)
  <2>1. 0 * size = 0 /\ b + 0 = b /\ 0 \in Nat
    OBVIOUS
  <2>2. \E m \in Nat : /\ m < PageRows(rows, b)
                       /\ cursor'.idx = m * cursor'.size /\ Len(cursor'.delivered) = b + m
    BY <1>2, <1>9, <1>10, <2>1
  <2> QED BY <1>1, <1>3, <1>5, <1>10, <2>2 DEF InPage
<1> QED BY <1>0, <1>5, <1>10, <1>12, <1>13

(* The row Next moves on to, counted in the page. *)
LEMMA AdvanceIs ==
    ASSUME cursor \in Cursors, NEW at \in Nat, InPage(cursor, at), ~cursor.over
    PROVE  /\ PageRows(cursor.rows, at) \in Nat
           /\ Len(cursor.data) = PageRows(cursor.rows, at) * cursor.size
           /\ \E m \in Nat : /\ m <= PageRows(cursor.rows, at) /\ Advance = m * cursor.size
                             /\ Len(cursor.delivered) = at + m - 1
<1>1. PICK rows \in Nat, size \in Nat \ {0} : rows = cursor.rows /\ size = cursor.size
  BY DEF Cursors
<1>2. PICK P \in Nat : P = PageRows(rows, at)
  BY <1>1, PageRowsTyped DEF InPage
<1>3. Len(cursor.data) = P * size
  <2>1. Len(Page(rows, at, size)) = P * size
    BY <1>2, PageTyped
  <2> QED BY <1>1, <2>1 DEF InPage
<1>4. \E m \in Nat : m <= P /\ Advance = m * size /\ Len(cursor.delivered) = at + m - 1
  <2>1. CASE cursor.idx = -1 /\ at = 1 /\ Len(cursor.delivered) = 0
    <3>1. Advance = 0 /\ 0 * size = 0 /\ 0 <= P /\ Len(cursor.delivered) = at + 0 - 1
      BY <1>2, <2>1 DEF Advance
    <3> QED BY <3>1
  <2>2. CASE \E m \in Nat : m < P /\ cursor.idx = m * size /\ Len(cursor.delivered) = at + m
    <3>1. PICK m \in Nat : m < P /\ cursor.idx = m * size /\ Len(cursor.delivered) = at + m
      BY <2>2
    <3>2. m * size \in Nat /\ (m + 1) * size = m * size + size
      BY RowsAndCells
    <3>3. Advance = (m + 1) * size
      BY <1>1, <3>1, <3>2 DEF Advance
    <3>4. m + 1 \in Nat /\ m + 1 <= P /\ Len(cursor.delivered) = at + (m + 1) - 1
      BY <3>1
    <3> QED BY <3>3, <3>4
  <2> QED BY <1>1, <1>2, <2>1, <2>2 DEF InPage
<1> QED BY <1>1, <1>2, <1>3, <1>4

(* Next, in the page. *)
LEMMA NextKeepsWhole ==
    ASSUME cursor \in Cursors, Whole(cursor), NEW at \in Nat, InPage(cursor, at), NextInPage
    PROVE  /\ cursor' \in Cursors /\ Whole(cursor)' /\ InPage(cursor', at)
           /\ cursor'.conn = cursor.conn /\ cursor'.id = cursor.id /\ cursor'.rows = cursor.rows
           /\ cursor'.over = cursor.over /\ cursor'.ended = cursor.ended /\ cursor'.closed = cursor.closed
           /\ cursor'.more = cursor.more
<1>0. ~cursor.over /\ Advance < Len(cursor.data)
      /\ cursor' = [cursor EXCEPT !.idx = Advance,
                        !.delivered = Append(@, SubSeq(cursor.data, Advance + 1, Advance + cursor.size))]
  BY DEF NextInPage, CursorInUse
<1>1. PICK rows \in Nat, size \in Nat \ {0} : rows = cursor.rows /\ size = cursor.size
  BY DEF Cursors
<1>2. PICK P \in Nat : P = PageRows(rows, at) /\ at + P <= rows + 1
  BY <1>1, PageRowsTyped DEF InPage
<1>3. PICK m \in Nat : Advance = m * size /\ Len(cursor.delivered) = at + m - 1
  BY <1>0, <1>1, AdvanceIs
<1>4. m < P
  <2>1. m * size < P * size
    BY <1>0, <1>1, <1>2, <1>3, AdvanceIs
  <2> QED BY <2>1, RowsAndCells
<1>5. PICK a \in Nat : a = m * size
  BY RowsAndCells
<1>6. SubSeq(cursor.data, a + 1, a + size) = Row(at + m, size)
  <2>1. SubSeq(Page(rows, at, size), m * size + 1, m * size + size) = Row(at + m, size)
    BY <1>2, <1>4, RowOfPage
  <2>2. cursor.data = Page(rows, at, size)
    BY <1>1 DEF InPage
  <2> QED BY <1>5, <2>1, <2>2
<1>7. PICK e : e = Append(cursor.delivered, Row(at + m, size)) /\ cursor' = [cursor EXCEPT !.idx = a, !.delivered = e]
  BY <1>0, <1>1, <1>3, <1>5, <1>6
<1>8. e \in Seq(Seq(Cells)) /\ Len(e) = at + m /\ \A r \in 1 .. Len(e) : e[r] = Row(r, size)
  <2>1. PICK d \in Seq(Seq(Cells)) : d = cursor.delivered
    BY DEF Cursors
  <2>2. Len(d) + 1 = at + m
    BY <1>3, <2>1
  <2>3. \A r \in 1 .. Len(d) : d[r] = Row(r, size)
    BY <1>1, <2>1 DEF Whole
  <2>4. e = Append(d, Row(Len(d) + 1, size))
    BY <1>7, <2>1, <2>2
  <2> HIDE <2>1
  <2> QED BY <2>2, <2>3, <2>4, RowDelivered
<1>9. cursor' = [conn |-> cursor.conn, id |-> cursor.id, size |-> cursor.size, data |-> cursor.data, idx |-> a,
                 more |-> cursor.more, rows |-> cursor.rows, delivered |-> e, ended |-> cursor.ended,
                 closed |-> cursor.closed, over |-> cursor.over]
  BY <1>7 DEF Cursors
<1>10. cursor' \in Cursors
  BY <1>5, <1>8, <1>9 DEF Cursors
<1>11. Whole(cursor)'
  <2>1. at + m <= rows
    BY <1>2, <1>4
  <2>2. ~cursor.ended
    BY <1>1, <1>3, <2>1 DEF Whole
  <2> QED BY <1>1, <1>8, <1>9, <2>1, <2>2 DEF Whole
<1>12. InPage(cursor', at)
  <2>1. \E n \in Nat : n < P /\ cursor'.idx = n * size /\ Len(cursor'.delivered) = at + n
    BY <1>4, <1>5, <1>8, <1>9
  <2> QED BY <1>0, <1>1, <1>2, <1>9, <2>1 DEF InPage
<1> QED BY <1>9, <1>10, <1>11, <1>12

(* Next, behind the page: all of its rows were handed out. *)
LEMMA PageConsumed ==
    ASSUME cursor \in Cursors, Whole(cursor), NEW at \in Nat, InPage(cursor, at), ~cursor.over,
           Advance >= Len(cursor.data)
    PROVE  /\ cursor.more => Len(cursor.delivered) = at + PageSize - 1
           /\ ~cursor.more => Len(cursor.delivered) = cursor.rows
<1>1. PICK rows \in Nat, size \in Nat \ {0} : rows = cursor.rows /\ size = cursor.size
  BY DEF Cursors
<1>2. PICK P \in Nat : /\ P = PageRows(rows, at) /\ at + P <= rows + 1
                       /\ MoreAfter(rows, at) => P = PageSize
                       /\ ~MoreAfter(rows, at) => at + P = rows + 1
  BY <1>1, PageRowsTyped DEF InPage
<1>3. PICK m \in Nat : m <= P /\ Advance = m * size /\ Len(cursor.delivered) = at + m - 1
  BY <1>1, <1>2, AdvanceIs
<1>4. ~(m < P)
  <2>1. ASSUME m < P
        PROVE  FALSE
    <3>1. m * size + size <= P * size
      BY <2>1, RowsAndCells
    <3>2. m * size >= P * size
      BY <1>1, <1>2, <1>3, AdvanceIs
    <3>3. m * size \in Nat /\ P * size \in Nat
      BY RowsAndCells
    <3> QED BY <3>1, <3>2, <3>3
  <2> QED BY <2>1
<1>5. m = P
  BY <1>3, <1>4
<1>6. cursor.more = MoreAfter(rows, at)
  BY <1>1 DEF InPage
<1> QED BY <1>1, <1>2, <1>3, <1>5, <1>6, SessionAssumption

(* A cursor that is over stays whole, whatever else is set. *)
LEMMA OverKeepsWhole ==
    ASSUME cursor \in Cursors, Whole(cursor), NEW at \in Nat, InPage(cursor, at),
           NEW idx \in Int, NEW more \in BOOLEAN, NEW ended \in BOOLEAN, NEW closed \in BOOLEAN,
           ended => cursor.ended \/ Len(cursor.delivered) = cursor.rows,
           cursor' = [cursor EXCEPT !.idx = idx, !.more = more, !.ended = ended, !.closed = closed, !.over = TRUE]
    PROVE  /\ cursor' \in Cursors /\ Whole(cursor)' /\ InPage(cursor', at)
           /\ cursor'.conn = cursor.conn /\ cursor'.id = cursor.id /\ cursor'.rows = cursor.rows
           /\ cursor'.more = more /\ cursor'.ended = ended /\ cursor'.closed = closed /\ cursor'.over
<1>1. cursor' = [conn |-> cursor.conn, id |-> cursor.id, size |-> cursor.size, data |-> cursor.data, idx |-> idx,
                 more |-> more, rows |-> cursor.rows, delivered |-> cursor.delivered, ended |-> ended,
                 closed |-> closed, over |-> TRUE]
  BY DEF Cursors
<1>2. cursor' \in Cursors
  BY <1>1 DEF Cursors
<1>3. Whole(cursor)'
  BY <1>1 DEF Whole
<1>4. InPage(cursor', at)
  BY <1>1 DEF InPage
<1> QED BY <1>1, <1>2, <1>3, <1>4

-----------------------------------------------------------------------------
(* The two sides of a cursor: what the node keeps of it is the page behind *)
(* the one the client reads, and it keeps nothing when the client will not *)
(* ask for it any more.  A request for a page is under way only when every *)
(* row of the page before was handed out.                                  *)

Held == Holds(conns[cursor.conn], cursor.id)

Pending == pc \in {"call", "sent"}

Followed(at) ==
    /\ pc # "panicked" /\ ~cursor.over => \A k \in Held : k.rows = cursor.rows /\ k.at = at + PageSize
    /\ Pending /\ call.op = "nextPage" => Len(cursor.delivered) = at + PageSize - 1

Iterated ==
    /\ cursor \in Cursors /\ Whole(cursor)
    /\ cursor.id < conns[cursor.conn].nextId
    /\ cursor.ended \/ cursor.closed => cursor.over
    /\ cursor.ended \/ cursor.closed \/ (~cursor.over /\ ~cursor.more) => Held = {}
    /\ \E at \in Nat : InPage(cursor, at) /\ Followed(at)
    /\ Pending /\ call.op \in CursorOps => ~cursor.over /\ cursor.more

Iterates ==
    /\ \A i \in 1 .. Len(conns) : Orderly(conns[i])
    /\ cursor # None => Iterated
    /\ pc = "sent" /\ sent.op \in CursorOps => sent.conn = cursor.conn

LEMMA CursorTyped ==
    ASSUME TypeOK, cursor # None
    PROVE  cursor.conn \in 1 .. Len(conns) /\ conns[cursor.conn] \in Connections
           /\ conns[cursor.conn].nextId \in Nat
<1>1. cursor.conn \in 1 .. Len(conns) /\ conns \in Seq(Connections)
  BY DEF TypeOK, ConnectionsTyped, BoundTyped
<1>2. conns[cursor.conn] \in Connections
  BY <1>1
<1> QED BY <1>1, <1>2 DEF Connections

(* Steps that leave the cursor alone, and the node with no more of it. *)
LEMMA CursorLeft ==
    ASSUME TypeOK, Iterates, UNCHANGED cursor,
           \A i \in 1 .. Len(conns') : Orderly(conns'[i]),
           cursor # None => cursor.id < conns'[cursor.conn].nextId /\ Held' \subseteq Held,
           pc = "panicked" => pc' = "panicked",
           Pending' /\ call'.op \in CursorOps => Pending /\ call'.op = call.op,
           pc' = "sent" /\ sent'.op \in CursorOps => sent'.conn = cursor.conn
    PROVE  Iterates'
<1>1. ASSUME cursor # None
      PROVE  Iterated'
  <2>1. Iterated
    BY <1>1 DEF Iterates
  <2>2. PICK at \in Nat : InPage(cursor, at) /\ Followed(at)
    BY <2>1 DEF Iterated
  <2>3. "nextPage" \in CursorOps
    BY DEF CursorOps
  <2>4. Followed(at)'
    BY <1>1, <2>2, <2>3 DEF Followed
  <2>5. InPage(cursor, at)' /\ Whole(cursor)'
    BY <2>1, <2>2 DEF InPage, Whole, Iterated
  <2> QED BY <1>1, <2>1, <2>4, <2>5 DEF Iterated
<1> QED BY <1>1 DEF Iterates

LEMMA ConnsLeft ==
    ASSUME TypeOK, Iterates, UNCHANGED <<conns, cursor>>
    PROVE  /\ \A i \in 1 .. Len(conns') : Orderly(conns'[i])
           /\ cursor # None => cursor.id < conns'[cursor.conn].nextId /\ Held' \subseteq Held
  BY DEF Iterates, Iterated, Held

(* What the node's execution of the request under way leaves of all that. *)
LEMMA NodeExecutesKeeps ==
    ASSUME TypeOK, Iterates, pc = "sent", NEW e \in Executed(sent.conn, sent.op), NodeExecutes(e)
    PROVE  /\ sent.conn \in 1 .. Len(conns) /\ Len(conns') = Len(conns)
           /\ conns'[sent.conn] = e.conn
           /\ \A i \in 1 .. Len(conns') : Orderly(conns'[i])
           /\ cursor # None => cursor.id < conns'[cursor.conn].nextId
           /\ cursor # None /\ sent.op \notin CursorOps => Holds(conns'[cursor.conn], cursor.id) = Held
<1>1. sent.conn \in 1 .. Len(conns) /\ conns[sent.conn] \in Connections /\ conns \in Seq(Connections)
  BY DEF TypeOK, ConnectionsTyped, CallTyped
<1>2. conns' = [conns EXCEPT ![sent.conn] = e.conn]
  BY DEF NodeExecutes
<1>3. /\ Len(conns') = Len(conns) /\ conns'[sent.conn] = e.conn
      /\ \A i \in 1 .. Len(conns) : i # sent.conn => conns'[i] = conns[i]
  BY <1>1, <1>2
<1>4. Orderly(conns[sent.conn])
  BY <1>1 DEF Iterates
<1>5. /\ Orderly(e.conn) /\ conns[sent.conn].nextId <= e.conn.nextId
      /\ sent.op \notin CursorOps =>
            \A id \in Nat : id < conns[sent.conn].nextId => Holds(e.conn, id) = Holds(conns[sent.conn], id)
  BY <1>1, <1>4, ExecutedKeeps
<1>6. \A i \in 1 .. Len(conns') : Orderly(conns'[i])
  BY <1>3, <1>5 DEF Iterates
<1>7. ASSUME cursor # None
      PROVE  /\ cursor.id < conns'[cursor.conn].nextId
             /\ sent.op \notin CursorOps => Holds(conns'[cursor.conn], cursor.id) = Held
  <2>1. cursor.id \in Nat /\ cursor.id < conns[cursor.conn].nextId /\ cursor.conn \in 1 .. Len(conns)
    BY <1>7, CursorTyped DEF Iterates, Iterated, Cursors
  <2>2. CASE cursor.conn = sent.conn
    <3>1. e.conn \in Connections
      BY <1>1, ExecutedTyped
    <3>2. e.conn.nextId \in Nat /\ conns[sent.conn].nextId \in Nat
      BY <1>1, <3>1 DEF Connections
    <3> QED BY <1>3, <1>5, <2>1, <2>2, <3>2 DEF Held
  <2>3. CASE cursor.conn # sent.conn
    BY <1>3, <2>1, <2>3 DEF Held
  <2> QED BY <2>2, <2>3
<1> QED BY <1>1, <1>3, <1>6, <1>7

(* A query's answer. *)
LEMMA QueryAnswered ==
    ASSUME TypeOK, Iterates, pc = "sent", sent.op \in {"scan", "sql"}, pc' = "idle",
           NEW e \in Executed(sent.conn, sent.op), NodeExecutes(e), ClientReads(e.reply)
    PROVE  Iterates'
<1>1. /\ sent.conn \in 1 .. Len(conns) /\ conns'[sent.conn] = e.conn
      /\ \A i \in 1 .. Len(conns') : Orderly(conns'[i])
  BY NodeExecutesKeeps
<1>2. conns[sent.conn] \in Connections /\ Orderly(conns[sent.conn]) /\ sent.conn \in Nat
  BY <1>1 DEF TypeOK, ConnectionsTyped, Iterates
<1>3. /\ conns[sent.conn].nextId < e.conn.nextId
      /\ e.reply.id = conns[sent.conn].nextId /\ e.reply.at = 1 /\ e.reply.rows \in 0 .. MaxRows
      /\ Holds(e.conn, e.reply.id) = NodeCursor(e.reply.id, e.reply.rows, 1)
  BY <1>2, ExecutedKeeps
<1>4. PICK id \in Nat, rows \in Nat : id = e.reply.id /\ rows = e.reply.rows
  BY <1>2, <1>3, SessionAssumption DEF Connections
<1>5. cursor' = ReadData(NewCursor(sent.conn, id, sent.op), rows, 1)
  BY <1>3, <1>4 DEF ClientReads
<1>6. /\ cursor' \in Cursors /\ Whole(cursor)' /\ InPage(cursor', 1)
      /\ cursor'.conn = sent.conn /\ cursor'.id = id /\ cursor'.rows = rows /\ ~cursor'.over
      /\ ~cursor'.ended /\ ~cursor'.closed /\ cursor'.more = MoreAfter(rows, 1)
  BY <1>2, <1>5, QueryReads
<1>7. Held' = NodeCursor(id, rows, 1)
  BY <1>1, <1>3, <1>4, <1>6 DEF Held
<1>8. Followed(1)'
  <2>1. ASSUME NEW k \in Held'
        PROVE  k.rows = cursor'.rows /\ k.at = 1 + PageSize
    BY <1>6, <1>7, <2>1, NodeCursorIs
  <2> QED BY <2>1 DEF Followed, Pending
<1>9. ~cursor'.more => Held' = {}
  BY <1>6, <1>7, NodeCursorOne
<1>10. Iterated'
  <2>1. \E at \in Nat : InPage(cursor, at)' /\ Followed(at)'
    BY <1>6, <1>8 DEF InPage
  <2> QED BY <1>1, <1>3, <1>4, <1>6, <1>9, <2>1 DEF Iterated, Pending
<1> QED BY <1>1, <1>10 DEF Iterates

(* The answer to a request for the next page. *)
LEMMA PageAnswered ==
    ASSUME TypeOK, Iterates, pc = "sent", sent.op = "nextPage", pc' = "idle",
           NEW e \in Executed(sent.conn, sent.op), NodeExecutes(e), ClientReads(e.reply)
    PROVE  Iterates'
<1>1. /\ sent.conn \in 1 .. Len(conns) /\ conns'[sent.conn] = e.conn
      /\ \A i \in 1 .. Len(conns') : Orderly(conns'[i])
      /\ cursor # None => cursor.id < conns'[cursor.conn].nextId
  BY NodeExecutesKeeps
<1>2. conns[sent.conn] \in Connections /\ Orderly(conns[sent.conn])
  BY <1>1 DEF TypeOK, ConnectionsTyped, Iterates
<1>3. sent.op \in CursorOps /\ call.op = "nextPage" /\ cursor # None
  BY DEF CursorOps, TypeOK, CallTyped
<1>4. Iterated /\ sent.conn = cursor.conn
  BY <1>3 DEF Iterates
<1>5. ~cursor.over /\ cursor.more /\ ~cursor.ended /\ ~cursor.closed
  BY <1>3, <1>4 DEF Iterated, Pending
<1>6. PICK at \in Nat : InPage(cursor, at) /\ Followed(at)
  BY <1>4 DEF Iterated
<1>7. MoreAfter(cursor.rows, at) /\ Len(cursor.delivered) = at + PageSize - 1
  BY <1>3, <1>5, <1>6 DEF InPage, Followed, Pending
<1>8. /\ e.reply \in Held
      /\ Holds(e.conn, cursor.id) = NodeCursor(cursor.id, e.reply.rows, e.reply.at)
  BY <1>2, <1>4, ExecutedKeeps DEF Held
<1>9. e.reply.rows = cursor.rows /\ e.reply.at = at + PageSize
  BY <1>5, <1>6, <1>8 DEF Followed
<1>10. PICK b \in Nat : b = at + PageSize
  BY SessionAssumption
<1>11. PICK read : /\ read = [ReadData(cursor, cursor.rows, at + PageSize) EXCEPT !.idx = 0]
                   /\ cursor' = [read EXCEPT !.delivered = Append(@, SubSeq(read.data, 1, read.size))]
  BY <1>9 DEF ClientReads
<1>12. /\ cursor' \in Cursors /\ Whole(cursor)' /\ InPage(cursor', b)
       /\ cursor'.conn = cursor.conn /\ cursor'.id = cursor.id /\ cursor'.rows = cursor.rows
       /\ cursor'.over = cursor.over /\ cursor'.ended = cursor.ended /\ cursor'.closed = cursor.closed
       /\ cursor'.more = MoreAfter(cursor.rows, b)
  BY <1>4, <1>5, <1>6, <1>7, <1>10, <1>11, NextPageReads DEF Iterated
<1>13. Held' = NodeCursor(cursor.id, cursor.rows, b)
  BY <1>1, <1>4, <1>8, <1>9, <1>10, <1>12 DEF Held
<1>14. Followed(b)'
  <2>1. ASSUME NEW k \in Held'
        PROVE  k.rows = cursor'.rows /\ k.at = b + PageSize
    BY <1>12, <1>13, <2>1, NodeCursorIs
  <2> QED BY <2>1 DEF Followed, Pending
<1>15. ~cursor'.more => Held' = {}
  BY <1>12, <1>13, NodeCursorOne
<1>16. Iterated'
  <2>1. InPage(cursor, b)' /\ Followed(b)'
    BY <1>12, <1>14 DEF InPage
  <2> QED BY <1>1, <1>3, <1>5, <1>10, <1>12, <1>15, <2>1 DEF Iterated, Pending
<1> QED BY <1>1, <1>16 DEF Iterates

(* The answer to a request to close the cursor. *)
LEMMA CloseAnswered ==
    ASSUME TypeOK, Iterates, pc = "sent", sent.op = "closeCursor", pc' = "idle",
           NEW e \in Executed(sent.conn, sent.op), NodeExecutes(e), ClientReads(e.reply)
    PROVE  Iterates'
<1>1. /\ sent.conn \in 1 .. Len(conns) /\ conns'[sent.conn] = e.conn
      /\ \A i \in 1 .. Len(conns') : Orderly(conns'[i])
      /\ cursor # None => cursor.id < conns'[cursor.conn].nextId
  BY NodeExecutesKeeps
<1>2. conns[sent.conn] \in Connections /\ Orderly(conns[sent.conn])
  BY <1>1 DEF TypeOK, ConnectionsTyped, Iterates
<1>3. sent.op \in CursorOps /\ cursor # None
  BY DEF CursorOps, TypeOK, CallTyped
<1>4. Iterated /\ sent.conn = cursor.conn
  BY <1>3 DEF Iterates
<1>5. PICK at \in Nat : InPage(cursor, at)
  BY <1>4 DEF Iterated
<1>6. cursor' = [cursor EXCEPT !.more = FALSE, !.closed = TRUE, !.over = TRUE]
  BY DEF ClientReads
<1>7. cursor' = [cursor EXCEPT !.idx = cursor.idx, !.more = FALSE, !.ended = cursor.ended, !.closed = TRUE,
                               !.over = TRUE]
  BY <1>4, <1>6 DEF Iterated, Cursors
<1>8. cursor.idx \in Int /\ FALSE \in BOOLEAN /\ TRUE \in BOOLEAN /\ cursor.ended \in BOOLEAN
  BY <1>4 DEF Iterated, Cursors
<1>9. /\ cursor' \in Cursors /\ Whole(cursor)' /\ InPage(cursor', at)
      /\ cursor'.conn = cursor.conn /\ cursor'.id = cursor.id /\ cursor'.rows = cursor.rows
      /\ cursor'.ended = cursor.ended /\ cursor'.over
  BY <1>4, <1>5, <1>7, <1>8, OverKeepsWhole DEF Iterated
<1>10. Held' = {}
  <2>1. Holds(e.conn, cursor.id) = {}
    BY <1>2, ExecutedKeeps
  <2> QED BY <1>1, <1>4, <1>9, <2>1 DEF Held
<1>11. InPage(cursor, at)' /\ Followed(at)'
  BY <1>9 DEF InPage, Followed, Pending
<1>12. Iterated'
  BY <1>1, <1>3, <1>9, <1>10, <1>11 DEF Iterated, Pending
<1> QED BY <1>1, <1>12 DEF Iterates

(* A call about the cursor that ends with an error: a page is never read   *)
(* after that, and a cursor is forgotten.                                  *)
LEMMA CursorCallFails ==
    ASSUME TypeOK, Iterates, Pending, call.op \in CursorOps, CallFails,
           \A i \in 1 .. Len(conns') : Orderly(conns'[i]),
           cursor # None => cursor.id < conns'[cursor.conn].nextId
    PROVE  Iterates'
<1>1. cursor # None
  BY DEF TypeOK, CallTyped, Pending
<1>2. Iterated
  BY <1>1 DEF Iterates
<1>3. ~cursor.over /\ cursor.more /\ ~cursor.ended /\ ~cursor.closed
  BY <1>2 DEF Iterated
<1>4. PICK at \in Nat : InPage(cursor, at)
  BY <1>2 DEF Iterated
<1>5. CASE call.op = "nextPage"
  <2>1. pc' = "panicked" /\ cursor' = cursor
    BY <1>5 DEF CallFails
  <2>2. InPage(cursor, at)' /\ Followed(at)' /\ Whole(cursor)'
    BY <1>2, <1>4, <2>1 DEF InPage, Whole, Followed, Pending, Iterated
  <2>3. Iterated'
    BY <1>1, <1>2, <1>3, <2>1, <2>2 DEF Iterated, Pending
  <2> QED BY <2>1, <2>3 DEF Iterates
<1>6. CASE call.op = "closeCursor"
  <2>1. pc' = "idle" /\ cursor' = [cursor EXCEPT !.more = FALSE, !.over = TRUE]
    BY <1>6 DEF CallFails, Return
  <2>2. cursor' = [cursor EXCEPT !.idx = cursor.idx, !.more = FALSE, !.ended = cursor.ended,
                                 !.closed = cursor.closed, !.over = TRUE]
    BY <1>2, <2>1 DEF Iterated, Cursors
  <2>3. cursor.idx \in Int /\ FALSE \in BOOLEAN /\ cursor.closed \in BOOLEAN /\ cursor.ended \in BOOLEAN
    BY <1>2 DEF Iterated, Cursors
  <2>4. /\ cursor' \in Cursors /\ Whole(cursor)' /\ InPage(cursor', at)
        /\ cursor'.conn = cursor.conn /\ cursor'.id = cursor.id /\ cursor'.rows = cursor.rows
        /\ cursor'.ended = cursor.ended /\ cursor'.closed = cursor.closed /\ cursor'.over
    BY <1>2, <1>4, <2>2, <2>3, OverKeepsWhole DEF Iterated
  <2>5. InPage(cursor, at)' /\ Followed(at)'
    BY <2>1, <2>4 DEF InPage, Followed, Pending
  <2>6. Iterated'
    BY <1>1, <1>3, <2>1, <2>4, <2>5 DEF Iterated, Pending
  <2> QED BY <2>1, <2>6 DEF Iterates
<1> QED BY <1>5, <1>6 DEF CursorOps

LEMMA IteratesStep ==
    ASSUME TypeOK, Iterates, [Next]_vars
    PROVE  Iterates'
<1>1. ASSUME NEW op \in Operations \ CursorOps, Call(op)
      PROVE  Iterates'
  <2>1. UNCHANGED <<conns, cursor>> /\ pc = "idle" /\ pc' = "call" /\ call'.op = op
    BY <1>1 DEF Call
  <2> QED BY <1>1, <2>1, ConnsLeft, CursorLeft
<1>2. ASSUME NEW n \in Nodes, Connect(n)
      PROVE  Iterates'
  BY <1>2, ConnsLeft, CursorLeft DEF Connect, Iterates, Pending
<1>3. CASE HandshakeAccepted
  <2>1. PICK c : conns' = Append(conns, c) /\ c.cursors = {} /\ UNCHANGED <<pc, call, sent, cursor>>
    <3>1. PICK c : /\ c = [node |-> hs.node, shares |-> hs.shares,
                           context |-> Updated(hs.context, Granted(hs.node, hs.context).features),
                           granted |-> Granted(hs.node, hs.context),
                           open |-> TRUE, nextId |-> 1, txs |-> {}, cursors |-> {}]
                   /\ conns' = Append(conns, c)
      BY <1>3 DEF HandshakeAccepted
    <3>2. c.cursors = {}
      BY <3>1
    <3> QED BY <1>3, <3>1, <3>2 DEF HandshakeAccepted
  <2>2. conns \in Seq(Connections)
    BY DEF TypeOK, ConnectionsTyped
  <2>3. /\ Len(conns') = Len(conns) + 1 /\ conns'[Len(conns) + 1] = c
        /\ \A i \in 1 .. Len(conns) : conns'[i] = conns[i]
    BY <2>1, <2>2
  <2>4. Orderly(c)
    BY <2>1 DEF Orderly
  <2>5. \A i \in 1 .. Len(conns') : Orderly(conns'[i])
    BY <2>2, <2>3, <2>4 DEF Iterates
  <2>6. cursor # None => cursor.id < conns'[cursor.conn].nextId /\ Held' \subseteq Held
    BY <2>1, <2>3, CursorTyped DEF Held, Iterates, Iterated
  <2> QED BY <2>1, <2>5, <2>6, CursorLeft DEF Iterates, Pending
<1>4. CASE HandshakeRefused \/ HandshakeBroken
  <2>1. UNCHANGED <<conns, cursor>> /\ (UNCHANGED <<pc, call, sent>> \/ (pc = "call" /\ pc' = "idle"))
    BY <1>4 DEF HandshakeRefused, HandshakeBroken, HandshakeFails, Return
  <2>2. CASE UNCHANGED <<pc, call, sent>>
    BY <2>1, <2>2, ConnsLeft, CursorLeft DEF Iterates, Pending
  <2>3. CASE pc = "call" /\ pc' = "idle"
    BY <2>1, <2>3, ConnsLeft, CursorLeft DEF Pending
  <2> QED BY <2>1, <2>2, <2>3
<1>5. CASE Send
  <2>1. UNCHANGED <<conns, cursor>> /\ pc = "call"
    BY <1>5 DEF Send
  <2>2. CASE pc' = "idle"
    BY <2>1, <2>2, ConnsLeft, CursorLeft DEF Pending
  <2>3. CASE pc' = "sent" /\ UNCHANGED call /\ sent'.conn = ChannelOf(call.op) /\ sent'.op = call.op
    <3>1. sent'.op \in CursorOps => sent'.conn = cursor.conn
      BY <2>3 DEF ChannelOf, CursorOps, CacheOps
    <3> QED BY <2>1, <2>3, <3>1, ConnsLeft, CursorLeft DEF Pending
  <2>4. \/ pc' = "idle"
        \/ pc' = "sent" /\ UNCHANGED call /\ sent'.conn = ChannelOf(call.op) /\ sent'.op = call.op
    BY <1>5 DEF Send, Return
  <2> QED BY <2>2, <2>3, <2>4
<1>6. CASE NodeAnswers
  <2>1. PICK e \in Executed(sent.conn, sent.op) : NodeExecutes(e) /\ ClientReads(e.reply)
    BY <1>6 DEF NodeAnswers
  <2>2. pc = "sent" /\ pc' = "idle"
    BY <1>6 DEF NodeAnswers, Return
  <2>3. CASE sent.op \in {"scan", "sql"}
    BY <2>1, <2>2, <2>3, QueryAnswered
  <2>4. CASE sent.op = "nextPage"
    BY <2>1, <2>2, <2>4, PageAnswered
  <2>5. CASE sent.op = "closeCursor"
    BY <2>1, <2>2, <2>5, CloseAnswered
  <2>6. CASE sent.op \notin {"scan", "sql", "nextPage", "closeCursor"}
    <3>1. UNCHANGED cursor /\ sent.op \notin CursorOps
      BY <2>1, <2>6 DEF ClientReads, CursorOps
    <3>2. /\ \A i \in 1 .. Len(conns') : Orderly(conns'[i])
          /\ cursor # None => cursor.id < conns'[cursor.conn].nextId /\ Held' \subseteq Held
      BY <2>1, <2>2, <3>1, NodeExecutesKeeps DEF Held
    <3> QED BY <2>2, <3>1, <3>2, CursorLeft DEF Pending
  <2> QED BY <2>3, <2>4, <2>5, <2>6
<1>7. CASE RequestFails
  <2>1. pc = "sent" /\ CallFails /\ Pending /\ sent.op = call.op
    BY <1>7 DEF RequestFails, Pending, TypeOK, CallTyped
  <2>2. /\ \A i \in 1 .. Len(conns') : Orderly(conns'[i])
        /\ cursor # None => cursor.id < conns'[cursor.conn].nextId
        /\ cursor # None /\ sent.op \notin CursorOps => Holds(conns'[cursor.conn], cursor.id) = Held
    <3>1. CASE UNCHANGED conns
      BY <3>1 DEF Iterates, Iterated, Held
    <3>2. ASSUME NEW e \in Executed(sent.conn, sent.op), NodeExecutes(e)
          PROVE  /\ \A i \in 1 .. Len(conns') : Orderly(conns'[i])
                 /\ cursor # None => cursor.id < conns'[cursor.conn].nextId
                 /\ cursor # None /\ sent.op \notin CursorOps => Holds(conns'[cursor.conn], cursor.id) = Held
      BY <2>1, <3>2, NodeExecutesKeeps
    <3> QED BY <1>7, <3>1, <3>2 DEF RequestFails
  <2>3. CASE call.op \in CursorOps
    BY <2>1, <2>2, <2>3, CursorCallFails
  <2>4. CASE call.op \notin CursorOps
    <3>1. UNCHANGED cursor /\ pc' = "idle"
      BY <2>1, <2>4 DEF CallFails, CursorOps, Return
    <3> QED BY <2>1, <2>2, <2>4, <3>1, CursorLeft DEF Pending, Held
  <2> QED BY <2>3, <2>4
<1>8. CASE RequestRetried
  BY <1>8, ConnsLeft, CursorLeft DEF RequestRetried, Pending
<1>9. CASE CallOnClosed
  <2>1. UNCHANGED conns /\ pc = "call" /\ CallFails /\ Pending
    BY <1>9 DEF CallOnClosed, Pending
  <2>2. CASE call.op \in CursorOps
    BY <2>1, <2>2, CursorCallFails DEF Iterates, Iterated
  <2>3. CASE call.op \notin CursorOps
    <3>1. UNCHANGED cursor /\ pc' = "idle"
      BY <2>1, <2>3 DEF CallFails, CursorOps, Return
    <3> QED BY <2>1, <3>1, ConnsLeft, CursorLeft DEF Pending
  <2> QED BY <2>2, <2>3
<1>10. CASE ConnectionLost
  <2>1. current \in 1 .. Len(conns) /\ conns \in Seq(Connections) /\ conns[current] \in Connections
    BY <1>10 DEF ConnectionLost, Open, TypeOK, ConnectionsTyped
  <2>2. PICK c : /\ c = [conns[current] EXCEPT !.open = FALSE, !.txs = {}, !.cursors = {}]
                 /\ conns' = [conns EXCEPT ![current] = c]
    BY <1>10, <2>1 DEF ConnectionLost
  <2>3. c.cursors = {} /\ c.nextId = conns[current].nextId /\ c \in Connections
    BY <2>1, <2>2 DEF Connections
  <2>4. /\ Len(conns') = Len(conns) /\ conns'[current] = c
        /\ \A i \in 1 .. Len(conns) : i # current => conns'[i] = conns[i]
    <3>1. c \in Connections /\ conns' = [conns EXCEPT ![current] = c]
      BY <2>2, <2>3
    <3> QED BY <2>1, <3>1
  <2>5. \A i \in 1 .. Len(conns') : Orderly(conns'[i])
    BY <2>3, <2>4 DEF Orderly, Iterates
  <2>6. UNCHANGED <<cursor, pc, call, sent>>
    BY <1>10 DEF ConnectionLost
  <2>7. cursor # None => cursor.id < conns'[cursor.conn].nextId /\ Held' \subseteq Held
    BY <2>3, <2>4, <2>6, CursorTyped DEF Held, Holds, Iterates, Iterated
  <2> QED BY <2>5, <2>6, <2>7, CursorLeft DEF Iterates, Pending
<1>11. CASE NextInPage
  <2>1. cursor # None /\ pc = "idle" /\ UNCHANGED <<conns, pc, call, sent>>
    BY <1>11 DEF NextInPage, CursorInUse
  <2>2. Iterated
    BY <2>1 DEF Iterates
  <2>3. PICK at \in Nat : InPage(cursor, at) /\ Followed(at)
    BY <2>2 DEF Iterated
  <2>4. /\ cursor' \in Cursors /\ Whole(cursor)' /\ InPage(cursor', at)
        /\ cursor'.conn = cursor.conn /\ cursor'.id = cursor.id /\ cursor'.rows = cursor.rows
        /\ cursor'.over = cursor.over /\ cursor'.ended = cursor.ended /\ cursor'.closed = cursor.closed
        /\ cursor'.more = cursor.more
    BY <1>11, <2>2, <2>3, NextKeepsWhole DEF Iterated
  <2>5. Held' = Held
    BY <2>1, <2>4 DEF Held
  <2>6. InPage(cursor, at)' /\ Followed(at)'
    BY <2>1, <2>3, <2>4, <2>5 DEF InPage, Followed, Pending
  <2>7. Iterated'
    BY <2>1, <2>2, <2>4, <2>5, <2>6 DEF Iterated, Pending
  <2> QED BY <2>1, <2>7 DEF Iterates
<1>12. CASE NextEnds
  <2>1. cursor # None /\ pc = "idle" /\ UNCHANGED <<conns, pc, call, sent>>
        /\ ~cursor.over /\ ~cursor.more /\ Advance >= Len(cursor.data)
        /\ cursor' = [cursor EXCEPT !.idx = Advance, !.ended = TRUE, !.over = TRUE]
    BY <1>12 DEF NextEnds, CursorInUse
  <2>2. Iterated /\ Held = {}
    BY <2>1 DEF Iterates, Iterated
  <2>3. PICK at \in Nat : InPage(cursor, at) /\ Followed(at)
    BY <2>2 DEF Iterated
  <2>4. Len(cursor.delivered) = cursor.rows
    BY <2>1, <2>2, <2>3, PageConsumed DEF Iterated
  <2>5. Advance \in Int /\ TRUE \in BOOLEAN /\ cursor.more \in BOOLEAN /\ cursor.closed \in BOOLEAN
    BY <2>2 DEF Iterated, Cursors, Advance
  <2>6. cursor' = [cursor EXCEPT !.idx = Advance, !.more = cursor.more, !.ended = TRUE,
                                 !.closed = cursor.closed, !.over = TRUE]
    BY <2>1, <2>2 DEF Iterated, Cursors
  <2>7. /\ cursor' \in Cursors /\ Whole(cursor)' /\ InPage(cursor', at)
        /\ cursor'.conn = cursor.conn /\ cursor'.id = cursor.id /\ cursor'.rows = cursor.rows /\ cursor'.over
    BY <2>2, <2>3, <2>4, <2>5, <2>6, OverKeepsWhole DEF Iterated
  <2>8. Held' = Held
    BY <2>1, <2>7 DEF Held
  <2>9. InPage(cursor, at)' /\ Followed(at)'
    BY <2>1, <2>7 DEF InPage, Followed, Pending
  <2>10. Iterated'
    BY <2>1, <2>2, <2>7, <2>8, <2>9 DEF Iterated, Pending
  <2> QED BY <2>1, <2>10 DEF Iterates
<1>13. CASE NextNeedsPage
  <2>1. cursor # None /\ ~cursor.over /\ cursor.more /\ Advance >= Len(cursor.data)
        /\ pc' = "call" /\ call'.op = "nextPage" /\ UNCHANGED <<conns, cursor>> /\ pc = "idle"
    BY <1>13 DEF NextNeedsPage, CursorInUse, Call
  <2>2. Iterated
    BY <2>1 DEF Iterates
  <2>3. PICK at \in Nat : InPage(cursor, at) /\ Followed(at)
    BY <2>2 DEF Iterated
  <2>4. Len(cursor.delivered) = at + PageSize - 1
    BY <2>1, <2>2, <2>3, PageConsumed DEF Iterated
  <2>5. InPage(cursor, at)' /\ Followed(at)' /\ Whole(cursor)'
    BY <2>1, <2>2, <2>3, <2>4 DEF InPage, Followed, Held, Whole, Iterated
  <2>6. Iterated'
    BY <2>1, <2>2, <2>5 DEF Iterated, Held
  <2> QED BY <2>1, <2>6 DEF Iterates
<1>14. CASE Close
  <2>1. CASE cursor.more /\ Call("closeCursor")
    <3>1. cursor # None /\ ~cursor.over /\ cursor.more
          /\ pc' = "call" /\ call'.op = "closeCursor" /\ UNCHANGED <<conns, cursor>> /\ pc = "idle"
      BY <1>14, <2>1 DEF Close, CursorInUse, Call
    <3>2. Iterated
      BY <3>1 DEF Iterates
    <3>3. PICK at \in Nat : InPage(cursor, at) /\ Followed(at)
      BY <3>2 DEF Iterated
    <3>4. InPage(cursor, at)' /\ Followed(at)' /\ Whole(cursor)'
      BY <3>1, <3>2, <3>3 DEF InPage, Followed, Held, Whole, Iterated
    <3>5. Iterated'
      BY <3>1, <3>2, <3>4 DEF Iterated, Held
    <3> QED BY <3>1, <3>5 DEF Iterates
  <2>2. CASE /\ ~cursor.more /\ pc = "idle" /\ cursor # None /\ ~cursor.over
             /\ cursor' = [cursor EXCEPT !.closed = TRUE, !.over = TRUE]
             /\ UNCHANGED <<conns, pc, call, sent>>
    <3>1. Iterated /\ Held = {}
      BY <2>2 DEF Iterates, Iterated
    <3>2. PICK at \in Nat : InPage(cursor, at) /\ Followed(at)
      BY <3>1 DEF Iterated
    <3>3. cursor.idx \in Int /\ TRUE \in BOOLEAN /\ cursor.more \in BOOLEAN /\ cursor.ended \in BOOLEAN
      BY <3>1 DEF Iterated, Cursors
    <3>4. cursor' = [cursor EXCEPT !.idx = cursor.idx, !.more = cursor.more, !.ended = cursor.ended,
                                   !.closed = TRUE, !.over = TRUE]
      BY <2>2, <3>1 DEF Iterated, Cursors
    <3>5. /\ cursor' \in Cursors /\ Whole(cursor)' /\ InPage(cursor', at)
          /\ cursor'.conn = cursor.conn /\ cursor'.id = cursor.id /\ cursor'.rows = cursor.rows /\ cursor'.over
      BY <3>1, <3>2, <3>3, <3>4, OverKeepsWhole DEF Iterated
    <3>6. Held' = Held
      BY <2>2, <3>5 DEF Held
    <3>7. InPage(cursor, at)' /\ Followed(at)'
      BY <2>2, <3>5 DEF InPage, Followed, Pending
    <3>8. Iterated'
      BY <2>2, <3>1, <3>5, <3>6, <3>7 DEF Iterated, Pending
    <3> QED BY <2>2, <3>8 DEF Iterates
  <2> QED BY <1>14, <2>1, <2>2 DEF Close, CursorInUse
<1>15. CASE UNCHANGED vars
  BY <1>15, ConnsLeft, CursorLeft DEF vars, Iterates, Pending
<1> QED BY <1>1, <1>2, <1>3, <1>4, <1>5, <1>6, <1>7, <1>8, <1>9, <1>10, <1>11, <1>12, <1>13, <1>14,
           <1>15 DEF Next

LEMMA CursorInvariant == Spec => [](TypeOK /\ Iterates)
<1>1. Init => TypeOK /\ Iterates
  <2>1. Init => TypeOK
    BY InitTyped
  <2>2. Init => Iterates
    BY DEF Init, Iterates
  <2> QED BY <2>1, <2>2
<1>2. TypeOK /\ Iterates /\ [Next]_vars => (TypeOK /\ Iterates)'
  BY TypeStep, IteratesStep
<1> QED BY <1>1, <1>2, PTL DEF Spec

(* CursorFaithful: a cursor hands out the rows of its own result, whole,   *)
(* in order and none twice, and ends without an error only behind the last *)
(* of them, for any numbers of rows and columns and any size of a page.    *)
THEOREM CursorsAreFaithful == Spec => []CursorFaithful
<1>1. Iterates => CursorFaithful
  <2>1. SUFFICES ASSUME Iterates, cursor # None
                 PROVE  /\ cursor.delivered = [r \in 1 .. Len(cursor.delivered) |-> Row(r, cursor.size)]
                        /\ Len(cursor.delivered) <= cursor.rows
                        /\ cursor.ended => Len(cursor.delivered) = cursor.rows
    BY DEF CursorFaithful
  <2>2. Whole(cursor) /\ cursor.delivered \in Seq(Seq(Cells))
    BY <2>1 DEF Iterates, Iterated, Cursors
  <2>3. cursor.delivered = [r \in 1 .. Len(cursor.delivered) |-> cursor.delivered[r]]
    BY <2>2
  <2> QED BY <2>2, <2>3 DEF Whole
<1> QED BY <1>1, CursorInvariant, PTL

(* CursorReleased: a node keeps no cursor that was read to its end or      *)
(* whose Close returned nil, although Close asks the node only for a       *)
(* cursor of which the client was told that it has more.                   *)
THEOREM CursorsAreReleased == Spec => []CursorReleased
<1>1. Iterates => CursorReleased
  BY DEF Iterates, Iterated, CursorReleased, Held, Holds
<1> QED BY <1>1, CursorInvariant, PTL
=============================================================================
