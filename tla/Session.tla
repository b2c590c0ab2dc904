------------------------------- MODULE Session -------------------------------
(***************************************************************************)
(* What a client and its nodes agree about: the handshake                  *)
(* (channel.go, protocol_context.go), what a request may hold on the       *)
(* connection it goes over (cache.go, client.go, cluster.go), the          *)
(* connection a transaction and a cursor are bound to (transactions.go,    *)
(* cursor_base.go).  One goroutine calls; other goroutines and the nodes   *)
(* are the environment: they reconnect, lose connections and answer.       *)
(* Which address is tried and how often is ReliableChannel's business.     *)
(***************************************************************************)
EXTENDS Integers, FiniteSets, Sequences

CONSTANTS
    Nodes,           \* addresses
    Speaks,          \* node -> minor versions it accepts (1.0 .. 1.8)
    Latest,          \* node -> the version it proposes instead
    Offers,          \* node -> the features it has
    ConfigVersion,   \* WithProtocolContext: the version ...
    ConfigFeatures,  \* ... and the features asked for
    HasUser,         \* WithCredentials
    MaxConns,        \* bound on the connections made
    MaxIds,          \* bound on the resources a connection hands out
    MaxRows, PageSize, Columns  \* of a query's result

Features == {"clusterStates", "clusterGroups", "queryPartitions"}
Versions == 0 .. 8

ASSUME SessionAssumption ==
    /\ Speaks \in [Nodes -> SUBSET Versions]
    /\ \A n \in Nodes : Latest[n] \in Speaks[n] /\ Offers[n] \subseteq Features
    /\ ConfigVersion \in Versions /\ ConfigFeatures \subseteq Features
    /\ HasUser \in BOOLEAN
    /\ MaxConns \in Nat /\ MaxIds \in Nat /\ MaxRows \in Nat
    /\ PageSize \in Nat \ {0} /\ Columns \in Nat \ {0}

VARIABLES
    cfg,      \* clientConfiguration.protocolContext: one object, shared
    conns,    \* the connections made, and what their nodes hold for them
    current,  \* reliableChannel.currCh: index into conns, 0 before the first
    hs,       \* the handshake under way
    pc,       \* the goroutine: "idle", "call", "sent" or "panicked"
    call,     \* the operation it performs
    sent,     \* the request under way
    tx,       \* its transaction: connection and id
    scope,    \* where nodes executed the cache operations called in tx
    cursor    \* its cursor

vars == <<cfg, conns, current, hs, pc, call, sent, tx, scope, cursor>>

None == [none |-> TRUE]

-----------------------------------------------------------------------------
(* protocol_context.go *)

SupportsAuthorization(c) == c.version >= 1
SupportsQueryEntityPrecisionAndScale(c) == c.version >= 2
SupportsTransactions(c) == c.version >= 5
SupportsExpiryPolicy(c) == c.version >= 6
SupportsClusterApi(c) == c.version >= 6
SupportsBitmapFeatures(c) == c.version >= 7
SupportsAttributeFeature(c, f) == f \in c.features

NewProtocolContext(version, features) ==
    [version |-> version, features |-> IF version >= 7 THEN features ELSE {}]

SupportedVersions == 0 .. 7

(* A connection that made its handshake with the configuration's own       *)
(* context shares that object with every later one that does.              *)
ProtocolContext(i) == IF conns[i].shares THEN cfg ELSE conns[i].context

-----------------------------------------------------------------------------
(* Operations: what is refused before anything is sent, and what is sent.  *)

CacheOps == {"cacheOp", "cacheOpExpiring", "scan"}
CreateOps == {"create"}
CursorOps == {"nextPage", "closeCursor"}
Operations == CacheOps \cup CreateOps \cup CursorOps
    \cup {"sql", "clusterNodes", "clusterState", "startTx", "endTx"}

InTx == tx # None

(* Mutant: the transaction in the context does not choose the channel. *)
AlwaysCurrent(op) == IF op \in CursorOps THEN cursor.conn ELSE current

(* Cache.channel, startTx, closeTx, baseCursor.ch and Client.SqlQuery      *)
ChannelOf(op) ==
    CASE op \in CursorOps -> cursor.conn
      [] op = "endTx" \/ (op \in CacheOps /\ InTx) -> tx.conn
      [] OTHER -> current

(* Operations a lost connection does not end: reliableChannel tries again. *)
Reliable(op) == op \notin CursorOps \cup {"startTx", "endTx"} /\ ~(op \in CacheOps /\ InTx)

(* checkClusterApiSupportedByServer: no version has the feature and not    *)
(* the API, so nothing is ever refused here.                               *)
ClusterApiRefused(c) == ~SupportsClusterApi(c) /\ SupportsAttributeFeature(c, "clusterStates")

WriteFails(op, c) ==
    CASE op = "cacheOpExpiring" -> ~SupportsExpiryPolicy(c)
      [] op = "startTx" -> ~SupportsTransactions(c)
      [] op = "clusterNodes" -> ~SupportsAttributeFeature(c, "clusterGroups")
      [] op = "clusterState" -> \/ ClusterApiRefused(c)
                                \/ ~SupportsAttributeFeature(c, "clusterStates")
      [] OTHER -> FALSE

(* Mutant: the partitions are written whatever the node knows. *)
PartitionsAlways(op, c, m) == IF op = "sql" THEN {"partitions"} ELSE {}

(* The optional parts of a request, in the context c of its connection and *)
(* the one m that marshaller.protocolContext gives the configuration.      *)
PartsOf(op, c, m) ==
    UNION { IF InTx /\ op \in CacheOps \cup {"sql"} THEN {"transaction"} ELSE {},
            IF op = "cacheOpExpiring" THEN {"expiry"} ELSE {},
            IF op = "sql" /\ SupportsAttributeFeature(c, "queryPartitions")
                THEN {"partitions"} ELSE {},
            IF op = "create" /\ SupportsExpiryPolicy(m) THEN {"configExpiry"} ELSE {},
            IF op = "create" /\ SupportsQueryEntityPrecisionAndScale(m)
                THEN {"precision"} ELSE {} }

-----------------------------------------------------------------------------
Return == pc' = "idle" /\ call' = None /\ sent' = None

Open(i) == i # 0 /\ conns[i].open
CursorInUse == cursor # None /\ ~cursor.over

Call(op) ==
    /\ pc = "idle"
    /\ op \in {"scan", "sql"} => ~CursorInUse
    /\ op = "startTx" => ~InTx
    /\ op = "endTx" => InTx
    /\ pc' = "call" /\ call' = [op |-> op]
    /\ UNCHANGED <<cfg, conns, current, hs, sent, tx, scope, cursor>>

(* createTcpChannel: by currentChannel for whoever finds the connection closed. *)
Connect(n) ==
    /\ pc # "panicked" /\ hs = None /\ ~Open(current) /\ Len(conns) < MaxConns
    /\ cfg.version \in SupportedVersions
    /\ hs' = [node |-> n, shares |-> TRUE, context |-> cfg]
    /\ UNCHANGED <<cfg, conns, current, pc, call, sent, tx, scope, cursor>>

(* The node accepts the version, and answers with the features it shares.  *)
Granted(n, c) ==
    [version |-> c.version, features |-> c.features \cap Offers[n]]

(* Mutant: the features asked for count as granted. *)
AskedAreGranted(c, answer) == c

(* updateAttributeFeatures *)
Updated(c, answer) ==
    IF SupportsBitmapFeatures(c) THEN [c EXCEPT !.features = answer] ELSE c

HandshakeAccepted ==
    /\ hs # None /\ hs.context.version \in Speaks[hs.node]
    /\ LET granted == Granted(hs.node, hs.context)
           context == Updated(hs.context, granted.features)
       IN  /\ conns' = Append(conns, [node |-> hs.node, shares |-> hs.shares,
                                      context |-> context, granted |-> granted,
                                      open |-> TRUE, nextId |-> 1,
                                      txs |-> {}, cursors |-> {}])
           /\ cfg' = IF hs.shares THEN context ELSE cfg
    /\ current' = Len(conns')
    /\ hs' = None
    /\ UNCHANGED <<pc, call, sent, tx, scope, cursor>>

(* createTcpChannel fails: what it was for fails with it, or tries again.  *)
HandshakeFails ==
    /\ hs' = None
    /\ IF pc = "call" THEN Return \/ UNCHANGED <<pc, call, sent>>
       ELSE UNCHANGED <<pc, call, sent>>
    /\ UNCHANGED <<conns, current, tx, scope, cursor>>

(* The node's version is tried next, with no features, whatever it is.     *)
HandshakeRefused ==
    /\ hs # None /\ hs.context.version \notin Speaks[hs.node]
    /\ LET client == hs.context
           server == NewProtocolContext(Latest[hs.node], {})
       IN  IF \/ client.version = server.version
              \/ client.version \notin SupportedVersions
              \/ ~SupportsAuthorization(client) /\ HasUser
           THEN HandshakeFails /\ UNCHANGED cfg
           ELSE /\ hs' = [node |-> hs.node, shares |-> FALSE, context |-> server]
                /\ UNCHANGED <<cfg, conns, current, pc, call, sent, tx, scope, cursor>>

(* An answer without the node's id fails when its features are read.       *)
AnswerCutShort ==
    /\ hs.shares /\ hs.context.version \in Speaks[hs.node]
    /\ cfg' = Updated(hs.context, Granted(hs.node, hs.context).features)

(* AuthFailed, a broken answer, a timeout or a lost connection.            *)
HandshakeBroken ==
    /\ hs # None /\ HandshakeFails
    /\ UNCHANGED cfg \/ AnswerCutShort

-----------------------------------------------------------------------------
(* send0: the request writer, and the request on its way *)

Send ==
    /\ pc = "call" /\ Open(ChannelOf(call.op))
    /\ LET i == ChannelOf(call.op)
           c == ProtocolContext(i)
       IN  IF WriteFails(call.op, c)
           THEN Return
           ELSE /\ pc' = "sent"
                /\ sent' = [conn |-> i, op |-> call.op,
                            parts |-> PartsOf(call.op, c, ProtocolContext(current))]
                /\ UNCHANGED call
    /\ UNCHANGED <<cfg, conns, current, hs, tx, scope, cursor>>

(* The rows from at on: a page and what it leaves.  Cells, as they travel. *)
Row(r, size) == [j \in 1 .. size |-> <<r, j>>]
MoreAfter(rows, at) == at + PageSize <= rows
PageRows(rows, at) == IF MoreAfter(rows, at) THEN PageSize ELSE rows - at + 1
Page(rows, at, size) ==
    [c \in 1 .. PageRows(rows, at) * size |-> <<at + ((c - 1) \div size), ((c - 1) % size) + 1>>]

(* readData *)
ReadData(cur, rows, at) ==
    [cur EXCEPT !.data = Page(rows, at, cur.size), !.more = MoreAfter(rows, at),
                !.rows = rows]

(* newScanCursor, newSqlQueryCursor and readDataColumns *)
NewCursor(i, id, op) ==
    [conn |-> i, id |-> id, size |-> IF op = "scan" THEN 2 ELSE Columns,
     data |-> <<>>, idx |-> -1, more |-> FALSE, rows |-> 0,
     delivered |-> <<>>, ended |-> FALSE, closed |-> FALSE, over |-> FALSE]

NodeCursor(id, rows, at) ==
    IF MoreAfter(rows, at) THEN {[id |-> id, rows |-> rows, at |-> at + PageSize]} ELSE {}

(* What executing a request may make of the node's side c of a connection, *)
(* and what it answers.                                                    *)
OpensCursor(c) ==
    {[conn |-> [c EXCEPT !.nextId = @ + 1,
                         !.cursors = @ \cup NodeCursor(c.nextId, rows, 1)],
      reply |-> [id |-> c.nextId, rows |-> rows, at |-> 1]] :
        rows \in {rows \in 0 .. MaxRows : c.nextId <= MaxIds}}

StartsTx(c) ==
    {[conn |-> [c EXCEPT !.nextId = @ + 1, !.txs = @ \cup {id}], reply |-> [id |-> id]] :
        id \in {id \in {c.nextId} : id <= MaxIds}}

EndsTx(c) == {[conn |-> [c EXCEPT !.txs = @ \ {tx.id}], reply |-> None]}

ReadsPage(c) ==
    {[conn |-> [c EXCEPT !.cursors = (@ \ {k}) \cup NodeCursor(k.id, k.rows, k.at)],
      reply |-> k] : k \in {k \in c.cursors : k.id = cursor.id}}

ClosesCursor(c) ==
    {[conn |-> [c EXCEPT !.cursors = {k \in @ : k.id # cursor.id}], reply |-> None]}

Executed(i, op) ==
    CASE op \in {"scan", "sql"} -> OpensCursor(conns[i])
      [] op = "startTx"         -> StartsTx(conns[i])
      [] op = "endTx"           -> EndsTx(conns[i])
      [] op = "nextPage"        -> ReadsPage(conns[i])
      [] op = "closeCursor"     -> ClosesCursor(conns[i])
      [] OTHER                  -> {[conn |-> conns[i], reply |-> None]}

(* Where the effect of a cache operation goes: the request's flag says it. *)
ExecutedIn == <<sent.conn, IF "transaction" \in sent.parts THEN tx.id ELSE 0>>

NodeExecutes(e) ==
    /\ Open(sent.conn)
    /\ conns' = [conns EXCEPT ![sent.conn] = e.conn]
    /\ scope' = IF sent.op = "endTx" THEN {}
                ELSE IF sent.op \in CacheOps /\ InTx THEN scope \cup {ExecutedIn} ELSE scope

(* The response readers of the operations *)
ClientReads(reply) ==
    /\ tx' = CASE sent.op = "startTx" -> [conn |-> sent.conn, id |-> reply.id]
                [] sent.op = "endTx" -> None
                [] OTHER -> tx
    /\ cursor' =
         CASE sent.op \in {"scan", "sql"} ->
                ReadData(NewCursor(sent.conn, reply.id, sent.op), reply.rows, reply.at)
           [] sent.op = "nextPage" ->
                LET read == [ReadData(cursor, reply.rows, reply.at) EXCEPT !.idx = 0]
                IN  [read EXCEPT !.delivered = Append(@, SubSeq(read.data, 1, read.size))]
           [] sent.op = "closeCursor" ->
                [cursor EXCEPT !.more = FALSE, !.closed = TRUE, !.over = TRUE]
           [] OTHER -> cursor

NodeAnswers ==
    /\ pc = "sent"
    /\ \E e \in Executed(sent.conn, sent.op) : NodeExecutes(e) /\ ClientReads(e.reply)
    /\ Return
    /\ UNCHANGED <<cfg, current, hs>>

(* An operation ends with an error: the node's, a timeout's or that of a   *)
(* lost connection.  Next then goes on and reads the page from no input;   *)
(* Close forgets the cursor all the same; RunInTransaction returns.        *)
CallFails ==
    /\ IF call.op = "nextPage"
       THEN pc' = "panicked" /\ UNCHANGED <<call, sent>>
       ELSE Return
    /\ cursor' = IF call.op = "closeCursor"
                 THEN [cursor EXCEPT !.more = FALSE, !.over = TRUE] ELSE cursor
    /\ tx' = IF call.op = "endTx" THEN None ELSE tx

(* ... after the node executed it, unheard, or before.                     *)
RequestFails ==
    /\ pc = "sent" /\ CallFails
    /\ \/ UNCHANGED conns /\ scope' = IF call.op = "endTx" THEN {} ELSE scope
       \/ \E e \in Executed(sent.conn, sent.op) : NodeExecutes(e)
    /\ UNCHANGED <<cfg, current, hs>>

(* reliableChannel.send: the next attempt.                                 *)
RequestRetried ==
    /\ pc = "sent" /\ ~Open(sent.conn) /\ Reliable(call.op)
    /\ pc' = "call" /\ sent' = None
    /\ UNCHANGED <<cfg, conns, current, hs, call, tx, scope, cursor>>

(* A call over the connection of a cursor or a transaction, closed before. *)
CallOnClosed ==
    /\ pc = "call" /\ ~Open(ChannelOf(call.op))
    /\ call.op \in CursorOps \cup {"endTx"} \/ (call.op \in CacheOps /\ InTx)
    /\ CallFails
    /\ scope' = IF call.op = "endTx" THEN {} ELSE scope
    /\ UNCHANGED <<cfg, conns, current, hs>>

ConnectionLost ==
    /\ Open(current)
    /\ conns' = [conns EXCEPT ![current].open = FALSE,
                              ![current].txs = {}, ![current].cursors = {}]
    /\ UNCHANGED <<cfg, current, hs, pc, call, sent, tx, scope, cursor>>

-----------------------------------------------------------------------------
(* baseCursor.Next and Scan: a row of the page, or the next page *)

(* Mutant: the first call moves on like every other. *)
FirstRowSkipped == IF cursor.idx < 0 THEN cursor.size ELSE cursor.idx + cursor.size

Advance == IF cursor.idx < 0 THEN 0 ELSE cursor.idx + cursor.size

NextInPage ==
    /\ pc = "idle" /\ CursorInUse
    /\ Advance < Len(cursor.data)
    /\ cursor' = [cursor EXCEPT !.idx = Advance,
                     !.delivered = Append(@, SubSeq(cursor.data, Advance + 1, Advance + cursor.size))]
    /\ UNCHANGED <<cfg, conns, current, hs, pc, call, sent, tx, scope>>

NextEnds ==
    /\ pc = "idle" /\ CursorInUse
    /\ Advance >= Len(cursor.data) /\ ~cursor.more
    /\ cursor' = [cursor EXCEPT !.idx = Advance, !.ended = TRUE, !.over = TRUE]
    /\ UNCHANGED <<cfg, conns, current, hs, pc, call, sent, tx, scope>>

NextNeedsPage ==
    /\ CursorInUse
    /\ Advance >= Len(cursor.data) /\ cursor.more
    /\ Call("nextPage")

(* Mutant: hasMore is reset before it is looked at. *)
CloseForgets ==
    /\ CursorInUse /\ pc = "idle"
    /\ cursor' = [cursor EXCEPT !.more = FALSE, !.closed = TRUE, !.over = TRUE]
    /\ UNCHANGED <<cfg, conns, current, hs, pc, call, sent, tx, scope>>

(* Close asks the node only for a cursor that has more.                    *)
Close ==
    /\ CursorInUse
    /\ \/ cursor.more /\ Call("closeCursor")
       \/ /\ ~cursor.more /\ pc = "idle"
          /\ cursor' = [cursor EXCEPT !.closed = TRUE, !.over = TRUE]
          /\ UNCHANGED <<cfg, conns, current, hs, pc, call, sent, tx, scope>>

-----------------------------------------------------------------------------
Init ==
    /\ cfg = NewProtocolContext(ConfigVersion, ConfigFeatures)
    /\ conns = <<>> /\ current = 0 /\ hs = None
    /\ pc = "idle" /\ call = None /\ sent = None
    /\ tx = None /\ scope = {} /\ cursor = None

Next ==
    \/ \E op \in Operations \ CursorOps : Call(op)
    \/ \E n \in Nodes : Connect(n)
    \/ HandshakeAccepted \/ HandshakeRefused \/ HandshakeBroken
    \/ Send \/ NodeAnswers \/ RequestFails \/ RequestRetried \/ CallOnClosed
    \/ ConnectionLost
    \/ NextInPage \/ NextEnds \/ NextNeedsPage \/ Close

Spec == Init /\ [][Next]_vars

-----------------------------------------------------------------------------
Contexts == [version : Versions, features : SUBSET Features]
Parts == {"transaction", "expiry", "partitions", "configExpiry", "precision"}
NodeCursors == [id : Nat, rows : Nat, at : Nat]
Connections == [node : Nodes, shares : BOOLEAN, context : Contexts, granted : Contexts,
                open : BOOLEAN, nextId : Nat, txs : SUBSET Nat, cursors : SUBSET NodeCursors]

ConnectionsTyped == cfg \in Contexts /\ conns \in Seq(Connections) /\ current \in 0 .. Len(conns)

HandshakeTyped == hs # None => hs.node \in Nodes /\ hs.shares \in BOOLEAN /\ hs.context \in Contexts

CallTyped ==
    /\ pc \in {"idle", "call", "sent", "panicked"}
    /\ pc \in {"call", "sent"} =>
          /\ call.op \in Operations
          /\ call.op \in CursorOps => cursor # None
          /\ call.op = "endTx" => InTx
          /\ call.op = "startTx" => ~InTx
    /\ pc = "sent" => sent.conn \in 1 .. Len(conns) /\ sent.op = call.op /\ sent.parts \subseteq Parts

BoundTyped ==
    /\ InTx => tx.conn \in 1 .. Len(conns) /\ tx.id \in Nat
    /\ cursor # None => "conn" \in DOMAIN cursor /\ cursor.conn \in 1 .. Len(conns)

(* Every variable stays in its type, and what a request needs is there:    *)
(* the cursor it is about, the transaction it ends.                        *)
TypeOK == ConnectionsTyped /\ HandshakeTyped /\ CallTyped /\ BoundTyped

(* The context by which requests to a connection are written and its       *)
(* answers read is the one its handshake ended with, although connections  *)
(* share one mutable object and a later handshake replaces its features.   *)
ConnectionHonest ==
    \A i \in 1 .. Len(conns) : conns[i].open => ProtocolContext(i) = conns[i].granted

(* Nothing is sent that the node behind the connection does not expect,    *)
(* and nothing it expects is left out, whichever node failover ended at:   *)
(* optional parts and operations need their version or feature, positional *)
(* parts are there exactly when the node reads them.  One thing may arrive *)
(* where it is not expected: a query takes the id of its transaction over  *)
(* whichever connection is current (client.go:260), to a node that has no  *)
(* such transaction, or has no transactions at all.  That is so only when  *)
(* the connection of the transaction, and the transaction, are gone.       *)
RequestsUnderstood ==
    pc = "sent" /\ Open(sent.conn) =>
        LET g == conns[sent.conn].granted
        IN  /\ "expiry" \in sent.parts => g.version >= 6
            /\ "transaction" \in sent.parts =>
                   \/ sent.conn = tx.conn /\ g.version >= 5
                   \/ sent.op = "sql" /\ InTx /\ ~Open(tx.conn)
            /\ sent.op = "startTx" => g.version >= 5
            /\ sent.op = "clusterNodes" => "clusterGroups" \in g.features
            /\ sent.op = "clusterState" => "clusterStates" \in g.features
            /\ sent.op = "sql" =>
                   ("partitions" \in sent.parts <=> "queryPartitions" \in g.features)
            /\ sent.op = "create" =>
                   /\ "configExpiry" \in sent.parts <=> g.version >= 6
                   /\ "precision" \in sent.parts <=> g.version >= 2

(* Every cache operation called inside RunInTransaction is executed by the *)
(* node that has the transaction, in that transaction, or not at all: not  *)
(* on the connection the client failed over to, whose ids are the same.    *)
InOneTransaction == InTx => scope \subseteq {<<tx.conn, tx.id>>}

(* What a cursor hands out are whole rows of its own result, in order, and *)
(* Next ends the iteration without an error only behind the last of them.  *)
CursorFaithful ==
    cursor # None =>
        /\ cursor.delivered = [r \in 1 .. Len(cursor.delivered) |-> Row(r, cursor.size)]
        /\ Len(cursor.delivered) <= cursor.rows
        /\ cursor.ended => Len(cursor.delivered) = cursor.rows

(* A cursor that was read to its end, or whose first Close returned nil,   *)
(* is not kept by the node.                                                *)
CursorReleased ==
    cursor # None /\ (cursor.ended \/ cursor.closed) =>
        \A k \in conns[cursor.conn].cursors : k.id # cursor.id

=============================================================================
