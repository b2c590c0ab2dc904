----------------------------- MODULE TcpChannel -----------------------------
(***************************************************************************)
(* One connection to a node after its handshake (tcpChannel, channel.go):  *)
(* any number of goroutines in send0, the writeLoop and readLoop           *)
(* goroutines, at most one user of close, whoever runs beginClose, and the *)
(* node at the other end of the socket.                                    *)
(*                                                                         *)
(* A request is its id.  Frames and their boundaries are abstracted: the   *)
(* socket carries whole requests and whole responses.  The value a         *)
(* response carries is abstracted to its class, a member of Replies.       *)
(***************************************************************************)
EXTENDS Naturals, Sequences

CONSTANTS Reqs,          \* the requests (ids) that goroutines may send
          NoReq,         \* no id taken yet
          Deadlined,     \* those whose context has a deadline
          QueueCap,      \* capacity of pendingCh
          Replies,       \* the classes of response the node may give
          CanClose,      \* the user may call close
          CloseDeadline, \* close is called with a deadline
          CanFail,       \* the connection may fail
          CloseAndFail   \* ... also when the user closes

ASSUME ChannelAssumption ==
    /\ NoReq \notin Reqs
    /\ Deadlined \subseteq Reqs
    /\ QueueCap \in Nat \ {0}
    /\ Replies \subseteq {"result", "serverError", "broken"}
    /\ {CanClose, CloseDeadline, CanFail, CloseAndFail} \subseteq BOOLEAN

VARIABLES
    closed,      \* ch.closed
    closeErr,    \* ch.closeErr: "none" or "io"
    doneCh,      \* ch.doneCh is closed
    sockOpen,    \* ch.socket is open on this side
    pending,     \* keys of ch.pendingRequests
    queue,       \* ch.pendingCh
    pc,          \* where each goroutine is in send0
    expired,     \* the contexts that are done
    reqErr,      \* req.err
    reqDone,     \* req.doneCh is closed
    reqData,     \* req.responseData
    answer,      \* what responseReader was called with
    wpc, wid,    \* writeLoop: where it is, the id it took
    wbuf,        \* requests in the bufio.Writer
    rpc, acc,    \* readLoop: where it is, the packets of its last read
    closer,      \* who won the CAS of beginClose
    bpc,         \* where beginClose is
    mustVisit,   \* requests its Range must not miss
    upc,         \* the user's close
    wire,        \* requests on their way to the node
    reply,       \* the node's response to each request it executed
    inbox,       \* responses the socket holds
    peerUp       \* the connection works

callVars  == <<pc, expired, answer>>
reqVars   == <<reqErr, reqDone, reqData>>
writeVars == <<wpc, wid, wbuf>>
readVars  == <<rpc, acc>>
closeVars == <<closed, closer, bpc>>
doneVars  == <<closeErr, doneCh, sockOpen, mustVisit>>
netVars   == <<wire, reply, inbox, peerUp>>
vars == <<callVars, reqVars, pending, queue, writeVars, readVars, closeVars,
          doneVars, upc, netVars>>

Answers == {"none", "result", "serverError", "writerError", "closedError",
            "timeout", "clientError", "connError", "torn"}

TypeOK ==
    /\ closed \in BOOLEAN /\ doneCh \in BOOLEAN
    /\ sockOpen \in BOOLEAN /\ peerUp \in BOOLEAN
    /\ closeErr \in {"none", "io"}
    /\ pending \subseteq Reqs
    /\ queue \in Seq(Reqs) /\ Len(queue) <= QueueCap
    /\ pc \in [Reqs -> {"idle", "store", "enqueue", "select", "reread",
                        "delete", "done"}]
    /\ expired \subseteq Deadlined
    /\ reqErr \in [Reqs -> {"nil", "conn"}]
    /\ reqDone \in [Reqs -> BOOLEAN]
    /\ reqData \in [Reqs -> Replies \cup {"none"}]
    /\ answer \in [Reqs -> Answers]
    /\ wpc \in {"take", "load", "write", "closing", "exited"}
    /\ wid \in Reqs \cup {NoReq}
    /\ wpc \in {"load", "write"} => wid \in Reqs
    /\ wbuf \subseteq Reqs
    /\ rpc \in {"check", "read", "packets", "answer", "closing", "exited"}
    /\ acc \in Seq(Reqs)
    /\ rpc = "answer" => acc # <<>>
    /\ closer \in {"none", "writer", "reader", "user"}
    /\ bpc \in {"idle", "store", "range", "socket", "done"}
    /\ mustVisit \subseteq Reqs
    /\ upc \in {"idle", "closing", "waiting", "returned", "timedOut"}
    /\ wire \subseteq Reqs
    /\ reply \in [Reqs -> Replies \cup {"none"}]
    /\ inbox \in Seq(Reqs)

Init ==
    /\ closed = FALSE /\ closeErr = "none" /\ doneCh = FALSE
    /\ sockOpen = TRUE /\ peerUp = TRUE
    /\ pending = {} /\ queue = <<>>
    /\ pc = [r \in Reqs |-> "idle"] /\ expired = {}
    /\ reqErr = [r \in Reqs |-> "nil"]
    /\ reqDone = [r \in Reqs |-> FALSE]
    /\ reqData = [r \in Reqs |-> "none"]
    /\ answer = [r \in Reqs |-> "none"]
    /\ wpc = "take" /\ wid = NoReq /\ wbuf = {}
    /\ rpc = "check" /\ acc = <<>>
    /\ closer = "none" /\ bpc = "idle" /\ mustVisit = {}
    /\ upc = "idle"
    /\ wire = {} /\ reply = [r \in Reqs |-> "none"] /\ inbox = <<>>

-----------------------------------------------------------------------------
(* send0, one goroutine per request.                                       *)

Goto(r, from, to) == /\ pc[r] = from
                     /\ pc' = [pc EXCEPT ![r] = to]

Answer(r, a) == answer' = [answer EXCEPT ![r] = a]

callUnchanged == UNCHANGED <<writeVars, readVars, closeVars, doneVars, upc, netVars>>

(* The closed check lets the request in. *)
Begin(r) == /\ ~closed
            /\ Goto(r, "idle", "store")
            /\ UNCHANGED <<expired, answer, reqVars, pending, queue>>
            /\ callUnchanged

(* The closed check refuses it, or its requestWriter fails. *)
Refuse(r) == /\ Goto(r, "idle", "done")
             /\ \/ closed /\ Answer(r, "closedError")
                \/ ~closed /\ Answer(r, "writerError")
             /\ UNCHANGED <<expired, reqVars, pending, queue>>
             /\ callUnchanged

StorePending(r) == /\ Goto(r, "store", "enqueue")
                   /\ pending' = pending \cup {r}
                   /\ UNCHANGED <<expired, answer, reqVars, queue>>
                   /\ callUnchanged

(* pendingCh <- reqId blocks while the channel is full. *)
Enqueue(r) == /\ Len(queue) < QueueCap
              /\ Goto(r, "enqueue", "select")
              /\ queue' = Append(queue, r)
              /\ UNCHANGED <<expired, answer, reqVars, pending>>
              /\ callUnchanged

(* processCloseError: the connection's error wins over the default one. *)
CloseErrorOr(default) == IF closeErr = "io" THEN "connError" ELSE default

(* Mutant: the deadline is looked at only once the channel is closed. *)
SelectDeadlineIfClosed(r) == /\ r \in expired /\ closed
                             /\ Goto(r, "select", "delete")
                             /\ Answer(r, CloseErrorOr("timeout"))
                             /\ UNCHANGED <<expired, reqVars, pending, queue>>
                             /\ callUnchanged

SelectDeadline(r) == /\ r \in expired
                     /\ Goto(r, "select", "delete")
                     /\ Answer(r, CloseErrorOr("timeout"))
                     /\ UNCHANGED <<expired, reqVars, pending, queue>>
                     /\ callUnchanged

SelectClosed(r) == /\ doneCh
                   /\ Goto(r, "select", "delete")
                   /\ Answer(r, CloseErrorOr("clientError"))
                   /\ UNCHANGED <<expired, reqVars, pending, queue>>
                   /\ callUnchanged

(* Mutant: an error of the node is reported as a ClientConnectionError. *)
EveryErrorIsConnection(d) == IF d # "result" THEN "connError" ELSE d

ReplyAnswer(d) == IF d = "broken" THEN "connError" ELSE d

SelectAnswered(r) == /\ reqDone[r] /\ reqErr[r] = "nil"
                     /\ Goto(r, "select", "delete")
                     /\ Answer(r, ReplyAnswer(reqData[r]))
                     /\ UNCHANGED <<expired, reqVars, pending, queue>>
                     /\ callUnchanged

(* req.err is read twice, the second time as the argument of responseReader;  *)
(* the reader may have cleared it between the two reads, and then responseReader *)
(* gets neither an input nor a usable error.                               *)
SelectFailed(r) == /\ reqDone[r] /\ reqErr[r] = "conn"
                   /\ Goto(r, "select", "reread")
                   /\ UNCHANGED <<expired, answer, reqVars, pending, queue>>
                   /\ callUnchanged

RereadError(r) == /\ Goto(r, "reread", "delete")
                  /\ Answer(r, IF reqErr[r] = "conn" THEN "connError" ELSE "torn")
                  /\ UNCHANGED <<expired, reqVars, pending, queue>>
                  /\ callUnchanged

(* Mutant: the deferred Delete is forgotten. *)
KeepPending(r) == /\ Goto(r, "delete", "done")
                  /\ UNCHANGED <<expired, answer, reqVars, pending, queue>>
                  /\ callUnchanged

(* The deferred pendingRequests.Delete. *)
DeletePending(r) == /\ Goto(r, "delete", "done")
                    /\ pending' = pending \ {r}
                    /\ UNCHANGED <<expired, answer, reqVars, queue>>
                    /\ callUnchanged

Send(r) == \/ StorePending(r) \/ Enqueue(r)
           \/ SelectDeadline(r) \/ SelectClosed(r)
           \/ SelectAnswered(r) \/ SelectFailed(r) \/ RereadError(r)
           \/ DeletePending(r)

(* Mutant: a request without a deadline gets one. *)
ExpireAny(r) == /\ r \notin expired
                /\ pc[r] \in {"store", "enqueue", "select"}
                /\ expired' = expired \cup {r}
                /\ UNCHANGED <<pc, answer, reqVars, pending, queue>>
                /\ callUnchanged

(* The context set up by setContextDeadline runs out. *)
Expire(r) == /\ r \in Deadlined \ expired
             /\ pc[r] \in {"store", "enqueue", "select"}
             /\ expired' = expired \cup {r}
             /\ UNCHANGED <<pc, answer, reqVars, pending, queue>>
             /\ callUnchanged

-----------------------------------------------------------------------------
(* beginClose.  The goroutine that wins the CAS runs it, the others return *)
(* at once.  safeClose sets req.err, closes req.doneCh and the key is      *)
(* deleted: Visit does the three in one step, because what another         *)
(* goroutine can do between them it could also do before or after.         *)

BeginClose(who) == IF closed
                   THEN UNCHANGED closeVars
                   ELSE closed' = TRUE /\ closer' = who /\ bpc' = "store"

(* who is back from beginClose. *)
CloseReturned(who) == closer = who => bpc = "done"

beginUnchanged == UNCHANGED <<closed, closer, callVars, queue, writeVars,
                              readVars, upc, netVars>>

StoreCloseErr == /\ bpc = "store" /\ bpc' = "range"
                 /\ closeErr' = IF closer = "user" THEN "none" ELSE "io"
                 /\ mustVisit' = pending
                 /\ UNCHANGED <<doneCh, sockOpen, reqVars, pending>>
                 /\ beginUnchanged

(* Range may or may not meet a key stored after it has started. *)
Visit(r) == /\ bpc = "range" /\ r \in pending
            /\ reqErr' = [reqErr EXCEPT ![r] = "conn"]
            /\ reqDone' = [reqDone EXCEPT ![r] = TRUE]
            /\ pending' = pending \ {r}
            /\ UNCHANGED <<reqData, bpc, doneVars>>
            /\ beginUnchanged

(* Mutant: doneCh is closed before the error is stored. *)
CloseDoneChFirst == \/ /\ bpc = "store" /\ ~doneCh
                       /\ doneCh' = TRUE
                       /\ UNCHANGED <<closeErr, sockOpen, mustVisit, reqVars, pending, bpc>>
                       /\ beginUnchanged
                    \/ /\ bpc = "range" /\ bpc' = "socket"
                       /\ mustVisit \cap pending = {} /\ mustVisit' = {}
                       /\ UNCHANGED <<closeErr, doneCh, sockOpen, reqVars, pending>>
                       /\ beginUnchanged

(* Mutant: doneCh is not closed. *)
CloseWithoutDoneCh == /\ bpc = "range" /\ bpc' = "socket"
                      /\ mustVisit \cap pending = {} /\ mustVisit' = {}
                      /\ UNCHANGED <<closeErr, doneCh, sockOpen, reqVars, pending>>
                      /\ beginUnchanged

CloseDoneCh == /\ bpc = "range" /\ bpc' = "socket"
               /\ mustVisit \cap pending = {}
               /\ doneCh' = TRUE /\ mustVisit' = {}
               /\ UNCHANGED <<closeErr, sockOpen, reqVars, pending>>
               /\ beginUnchanged

CloseSocket == /\ bpc = "socket" /\ bpc' = "done"
               /\ sockOpen' = FALSE
               /\ UNCHANGED <<closeErr, doneCh, mustVisit, reqVars, pending>>
               /\ beginUnchanged

BeginCloseStep == \/ StoreCloseErr \/ CloseDoneCh \/ CloseSocket
                  \/ \E r \in Reqs : Visit(r)

-----------------------------------------------------------------------------
(* writeLoop.                                                              *)

writeUnchanged == UNCHANGED <<callVars, reqVars, pending, readVars, doneVars, upc,
                              reply, inbox, peerUp>>

(* Mutant: the id is looked at and stays in the queue. *)
PeekId == /\ wpc = "take" /\ queue # <<>>
          /\ wpc' = "load" /\ wid' = Head(queue)
          /\ UNCHANGED <<wbuf, queue, closeVars, wire>>
          /\ writeUnchanged

TakeId == /\ wpc = "take" /\ queue # <<>>
          /\ wpc' = "load" /\ wid' = Head(queue) /\ queue' = Tail(queue)
          /\ UNCHANGED <<wbuf, closeVars, wire>>
          /\ writeUnchanged

(* A request that was deleted meanwhile is skipped, without a flush. *)
LoadRequest == /\ wpc = "load"
               /\ IF wid \in pending
                  THEN wpc' = "write" /\ wid' = wid
                  ELSE wpc' = "take" /\ wid' = NoReq
               /\ UNCHANGED <<wbuf, queue, closeVars, wire>>
               /\ writeUnchanged

(* Mutant: no flush when nothing is queued. *)
OutgoingWithoutFlush == {{}, wbuf, wbuf \cup {wid}}

(* What reaches the socket of the buffered requests and this one: all of   *)
(* it when nothing is queued behind it (Flush), else what the bufio.Writer *)
(* has no room for.                                                        *)
Outgoing == IF queue = <<>> THEN {wbuf \cup {wid}}
                            ELSE {{}, wbuf, wbuf \cup {wid}}

Write == /\ wpc = "write" /\ wpc' = "take"
         /\ \E out \in Outgoing :
               /\ out # {} => sockOpen
               /\ wbuf' = (wbuf \cup {wid}) \ out
               /\ wire' = IF peerUp THEN wire \cup out ELSE wire
         /\ wid' = NoReq
         /\ UNCHANGED <<queue, closeVars>>
         /\ writeUnchanged

(* A write or a flush fails, possibly after a part of the data has left. *)
WriteFails == /\ wpc = "write" /\ wpc' = "closing"
              /\ ~sockOpen \/ ~peerUp
              /\ \E out \in SUBSET (wbuf \cup {wid}) :
                    wire' = IF peerUp THEN wire \cup out ELSE wire
              /\ BeginClose("writer")
              /\ wbuf' = {} /\ wid' = NoReq
              /\ UNCHANGED queue
              /\ writeUnchanged

WriterExits == /\ \/ wpc = "take" /\ doneCh
                  \/ wpc = "closing" /\ CloseReturned("writer")
               /\ wpc' = "exited"
               /\ UNCHANGED <<wid, wbuf, queue, closeVars, wire>>
               /\ writeUnchanged

Writer == TakeId \/ LoadRequest \/ Write \/ WriteFails \/ WriterExits

-----------------------------------------------------------------------------
(* readLoop.                                                               *)

readUnchanged == UNCHANGED <<callVars, pending, queue, writeVars, doneVars, upc,
                             wire, reply, peerUp>>

CheckClosed == /\ rpc = "check"
               /\ rpc' = IF closed THEN "closing" ELSE "read"
               /\ UNCHANGED <<acc, reqVars, closeVars, inbox>>
               /\ readUnchanged

ReadData == /\ rpc = "read" /\ sockOpen
            /\ \E n \in 1..Len(inbox) :
                  /\ acc' = SubSeq(inbox, 1, n)
                  /\ inbox' = SubSeq(inbox, n + 1, Len(inbox))
            /\ rpc' = "packets"
            /\ UNCHANGED <<reqVars, closeVars>>
            /\ readUnchanged

(* The read deadline of one second. *)
ReadTimesOut == /\ rpc = "read" /\ sockOpen
                /\ rpc' = "check"
                /\ UNCHANGED <<acc, reqVars, closeVars, inbox>>
                /\ readUnchanged

(* A read error, a packet without a response id or an illegal packet size. *)
ReadFails == /\ \/ rpc = "read" /\ (~sockOpen \/ ~peerUp)
                \/ rpc = "packets" /\ ~peerUp
             /\ rpc' = "closing"
             /\ BeginClose("reader")
             /\ UNCHANGED <<acc, reqVars, inbox>>
             /\ readUnchanged

(* The response of a request that is no longer pending is dropped. *)
LoadPending == /\ rpc = "packets" /\ acc # <<>>
               /\ IF Head(acc) \in pending
                  THEN rpc' = "answer" /\ acc' = acc
                  ELSE rpc' = rpc /\ acc' = Tail(acc)
               /\ UNCHANGED <<reqVars, closeVars, inbox>>
               /\ readUnchanged

(* Mutant: a response goes to some pending request, not to the one with its id. *)
DeliverToAny == /\ rpc = "answer" /\ rpc' = "packets"
                /\ \E r \in pending \cup {Head(acc)} :
                      /\ reqData' = [reqData EXCEPT ![r] = reply[Head(acc)]]
                      /\ reqErr' = [reqErr EXCEPT ![r] = "nil"]
                      /\ reqDone' = [reqDone EXCEPT ![r] = TRUE]
                /\ acc' = Tail(acc)
                /\ UNCHANGED <<closeVars, inbox>>
                /\ readUnchanged

(* responseData, then safeClose(req, nil): err is reset even when beginClose *)
(* has set it, and closing a closed doneCh is recovered from.              *)
Deliver == /\ rpc = "answer" /\ rpc' = "packets"
           /\ LET r == Head(acc)
              IN /\ reqData' = [reqData EXCEPT ![r] = reply[r]]
                 /\ reqErr' = [reqErr EXCEPT ![r] = "nil"]
                 /\ reqDone' = [reqDone EXCEPT ![r] = TRUE]
           /\ acc' = Tail(acc)
           /\ UNCHANGED <<closeVars, inbox>>
           /\ readUnchanged

NextRead == /\ rpc = "packets" /\ acc = <<>>
            /\ rpc' = "check"
            /\ UNCHANGED <<acc, reqVars, closeVars, inbox>>
            /\ readUnchanged

ReaderExits == /\ rpc = "closing" /\ CloseReturned("reader")
               /\ rpc' = "exited"
               /\ UNCHANGED <<acc, reqVars, closeVars, inbox>>
               /\ readUnchanged

Reader == \/ CheckClosed \/ ReadData \/ ReadTimesOut \/ ReadFails
          \/ LoadPending \/ Deliver \/ NextRead \/ ReaderExits

-----------------------------------------------------------------------------
(* close, called by the user of the channel.                               *)

userUnchanged == UNCHANGED <<callVars, reqVars, pending, queue, writeVars, readVars,
                             doneVars, netVars>>

UserCloses == /\ CanClose /\ (CloseAndFail \/ peerUp)
              /\ upc = "idle" /\ upc' = "closing"
              /\ BeginClose("user")
              /\ userUnchanged

UserWaits == /\ upc = "closing" /\ CloseReturned("user")
             /\ upc' = "waiting"
             /\ UNCHANGED closeVars
             /\ userUnchanged

(* Mutant: only writeLoop is in the wait group. *)
WriterExited == wpc = "exited"

(* closeWg.Wait: both goroutines are gone. *)
LoopsExited == wpc = "exited" /\ rpc = "exited"

UserReturns == /\ upc = "waiting" /\ LoopsExited
               /\ upc' = "returned"
               /\ UNCHANGED closeVars
               /\ userUnchanged

UserGivesUp == /\ upc = "waiting" /\ CloseDeadline
               /\ upc' = "timedOut"
               /\ UNCHANGED closeVars
               /\ userUnchanged

User == UserWaits \/ UserReturns \/ UserGivesUp

-----------------------------------------------------------------------------
(* The node and the network.  The node executes the requests it gets in    *)
(* any order, each once, and answers while the connection works.           *)

netUnchanged == UNCHANGED <<callVars, reqVars, pending, queue, writeVars, readVars,
                            closeVars, doneVars, upc>>

Serve(r) == /\ r \in wire
            /\ wire' = wire \ {r}
            /\ \E c \in Replies : reply' = [reply EXCEPT ![r] = c]
            /\ inbox' = IF sockOpen /\ peerUp THEN Append(inbox, r) ELSE inbox
            /\ UNCHANGED peerUp
            /\ netUnchanged

ConnectionFails == /\ CanFail /\ (CloseAndFail \/ upc = "idle")
                   /\ peerUp
                   /\ peerUp' = FALSE
                   /\ UNCHANGED <<wire, reply, inbox>>
                   /\ netUnchanged

-----------------------------------------------------------------------------
Next == \/ \E r \in Reqs : \/ Begin(r) \/ Refuse(r) \/ Send(r) \/ Expire(r)
                           \/ Serve(r)
        \/ BeginCloseStep \/ Writer \/ Reader
        \/ UserCloses \/ User \/ ConnectionFails

Spec == Init /\ [][Next]_vars

(* The Go scheduler runs every goroutine that can run, a socket reports    *)
(* the error of a broken connection, and deadlines pass.  A read that      *)
(* finds data returns it, unless its deadline passes first; that cannot    *)
(* happen every time.  Nothing is assumed of the node, of the network and  *)
(* of the users.                                                           *)
Fairness == /\ \A r \in Reqs : WF_vars(Send(r)) /\ WF_vars(Expire(r))
            /\ WF_vars(BeginCloseStep) /\ WF_vars(Writer) /\ WF_vars(User)
            /\ WF_vars(Reader) /\ SF_vars(ReadData) /\ SF_vars(ReadFails)

FairSpec == Spec /\ Fairness

(* The node, too, answers every request it gets. *)
ServedSpec == FairSpec /\ \A r \in Reqs : WF_vars(Serve(r))

-----------------------------------------------------------------------------
(* Correctness.                                                            *)

(* The fate of a request, as its caller can tell it from the answer. *)
Fate(r) ==
    CASE answer[r] = "none"                           -> IF pc[r] = "idle" THEN "new" ELSE "sent"
      [] answer[r] \in {"result", "serverError"}      -> "replied"
      [] answer[r] \in {"writerError", "closedError"} -> "refused"
      [] answer[r] = "timeout"                        -> "timedOut"
      [] answer[r] \in {"clientError", "connError", "torn"} -> "lost"

Executed == {r \in Reqs : reply[r] # "none"}

Promise == INSTANCE RequestChannel WITH fate <- [r \in Reqs |-> Fate(r)],
                                        executed <- Executed,
                                        open <- ~closed

(* send0, writeLoop, readLoop and beginClose together keep the promise of  *)
(* RequestChannel: one fate per request, a reply only for what the node    *)
(* executed, no execution of a refused request, an answer given up only    *)
(* after a deadline, a close or an undecodable response.                   *)
KeepsPromise == Promise!Spec

(* A connection lost by an I/O error is never reported as a plain          *)
(* ClientError, for which reliableChannel would not retry: beginClose has  *)
(* stored closeErr before any goroutine in the select of send0 can see     *)
(* that the channel is closed.                                             *)
LossIsConnectionError ==
    \A r \in Reqs : answer[r] = "clientError" => closer = "user"

(* A ClientConnectionError means a closed channel (or a response that      *)
(* could not be decoded): the retry of reliableChannel replaces the        *)
(* channel only if isClosed.                                               *)
ConnectionErrorMeansClosed ==
    \A r \in Reqs : answer[r] = "connError" => closed \/ reply[r] = "broken"

(* close returns only when both loops are gone and the socket is closed,   *)
(* whoever won the CAS, and then nobody waits for a node that will not     *)
(* answer: every goroutine in the select of send0 has doneCh to leave by.  *)
CloseIsComplete ==
    upc = "returned" => /\ LoopsExited /\ closed /\ ~sockOpen
                        /\ \A r \in Reqs : pc[r] = "select" => doneCh

(* pendingRequests holds only requests whose goroutine is still in send0,  *)
(* however timeouts, late responses and beginClose interleave with it.     *)
PendingIsInFlight ==
    \A r \in pending : pc[r] \in {"enqueue", "select", "reread", "delete"}

(* responseReader gets an input or an error, never neither (send0 reads    *)
(* req.err while readLoop and beginClose may write it).                    *)
NoTornAnswer == \A r \in Reqs : answer[r] # "torn"

(* A request sent with a deadline is answered (send0 selects on ctx.Done). *)
DeadlineHonoured ==
    \A r \in Deadlined : pc[r] = "store" ~> pc[r] = "done"

(* Once the channel is closed, every goroutine in send0 gets out of it,    *)
(* with or without a deadline (beginClose and doneCh).                     *)
CloseReleasesCallers ==
    \A r \in Reqs : closed /\ pc[r] # "idle" ~> pc[r] = "done"

(* close comes back, whoever runs beginClose, even without a deadline.     *)
CloseTerminates == upc = "closing" ~> upc \in {"returned", "timedOut"}

(* Over a connection that works and a node that answers, every request     *)
(* that is sent is answered (writeLoop flushes what it has buffered).      *)
EveryRequestAnswered == \A r \in Reqs : pc[r] = "store" ~> pc[r] = "done"

-----------------------------------------------------------------------------
(* The inductive invariant behind the safety properties.                   *)

(* beginClose stores the error, then closes doneCh, then the socket. *)
CloseOrder ==
    /\ closed <=> bpc # "idle"
    /\ closed <=> closer # "none"
    /\ closeErr = "io" <=> closer \in {"writer", "reader"} /\ bpc # "store"
    /\ doneCh <=> bpc \in {"socket", "done"}
    /\ sockOpen <=> bpc # "done"

(* Who is past its call of beginClose finds the channel closed, by itself  *)
(* or by somebody else.                                                    *)
ClosersPast ==
    /\ wpc \in {"closing", "exited"} => closed
    /\ closer = "writer" => wpc \in {"closing", "exited"}
    /\ rpc \in {"closing", "exited"} => closed
    /\ upc # "idle" => closed
    /\ wpc = "exited" => CloseReturned("writer")
    /\ rpc = "exited" => CloseReturned("reader")
    /\ upc \in {"waiting", "returned", "timedOut"} => CloseReturned("user")
    /\ upc = "returned" => LoopsExited

Refused(r) == answer[r] \in {"writerError", "closedError"}

Queued(r) == pc[r] \in {"select", "reread", "delete", "done"} /\ ~Refused(r)

(* An answer goes with the place its goroutine has reached. *)
AnswerPlace ==
    \A r \in Reqs : answer[r] = "none" <=> pc[r] \notin {"delete", "done"}

(* Why a caller was given an error. *)
ErrorReasons ==
    \A r \in Reqs : /\ reqErr[r] = "conn" => closed
                    /\ pc[r] = "reread" => closed
                    /\ answer[r] = "timeout" => r \in Deadlined
                    /\ answer[r] = "torn" => closed
                    /\ answer[r] \in {"result", "serverError"} => reply[r] # "none"

(* A request is in one place on its way to the node, and nowhere once the  *)
(* node has executed it.                                                   *)
OneCopy ==
    /\ \A i \in 1..Len(queue) :
          /\ queue[i] \notin {wid} \cup wbuf \cup wire
          /\ reply[queue[i]] = "none" /\ Queued(queue[i])
          /\ \A j \in 1..Len(queue) : queue[i] = queue[j] => i = j
    /\ wid \in Reqs => /\ wid \notin wbuf \cup wire
                       /\ reply[wid] = "none" /\ Queued(wid)
    /\ wbuf \cap wire = {}
    /\ \A r \in wbuf \cup wire : reply[r] = "none" /\ Queued(r)
    /\ \A r \in Reqs : reply[r] # "none" => Queued(r)

(* Only responses of the node travel back, and a request without an error  *)
(* is done only with its own response.                                     *)
GenuineReplies ==
    /\ \A i \in 1..Len(inbox) : reply[inbox[i]] # "none"
    /\ \A i \in 1..Len(acc) : reply[acc[i]] # "none"
    /\ \A r \in Reqs : /\ reqData[r] # "none" => reqData[r] = reply[r]
                       /\ reqDone[r] /\ reqErr[r] = "nil" => reqData[r] # "none"

(* Everything that holds in every reachable state, and that each step      *)
(* keeps.                                                                  *)
Inv == /\ TypeOK /\ CloseOrder /\ ClosersPast /\ AnswerPlace /\ ErrorReasons
       /\ OneCopy /\ GenuineReplies /\ PendingIsInFlight
       /\ LossIsConnectionError /\ ConnectionErrorMeansClosed
=============================================================================
