---------------------------- MODULE Transaction ----------------------------
(***************************************************************************)
(* RunInTransaction (transactions.go) with its closure, over the tcpChannel *)
(* the transaction was started on, and the transaction on the node.        *)
(*                                                                         *)
(* The closure puts one entry, may fail or panic.  A request is answered,  *)
(* times out or is lost with the channel, as RequestChannel promises, or   *)
(* its answer is torn, neither a response nor an error, as TcpChannel      *)
(* shows; what timed out may still be executed by the node, or never.      *)
(***************************************************************************)
CONSTANTS HasDeadline,    \* the user's context has a deadline
          RequestTimeout, \* WithRequestTimeout is set, also for Background
          TxTimeout,      \* the node may time the transaction out
          CanFail         \* the connection may fail

ASSUME TransactionAssumption ==
    {HasDeadline, RequestTimeout, TxTimeout, CanFail} \subseteq BOOLEAN

VARIABLES
    pc, asked,  \* where RunInTransaction is, the request it sent last
    ctxDone,    \* the user's context is done
    txSess,     \* startTx has returned a session
    txErr,      \* the closure: "none" yet, "nil", "error" or "panic"
    putAnswer,  \* how the put in the closure was answered
    closeAnswer, \* how the last close was, unless the closure panicked
    result,     \* what RunInTransaction returned
    alive,      \* the tcpChannel is open
    inflight,   \* requests the node has not executed
    commits,    \* the flag an end request has been written with
    replies,    \* the node's responses, by request
    tx,         \* the transaction on the node
    written     \* the put is part of the transaction

callVars == <<pc, asked, txSess, txErr, putAnswer, closeAnswer, result, commits>>
nodeVars == <<tx, written, replies>>
vars == <<callVars, ctxDone, alive, inflight, nodeVars>>

(* The requests RunInTransaction and its closure may send: the second end  *)
(* is the retry, the third the one of the deferred function.               *)
Ends == {"end", "endAgain", "endDeferred"}

Requests == {"start", "put"} \cup Ends

(* What a responseReader may be called with: a response of the node, an    *)
(* error, or, torn, a nil response and a nil error.                        *)
AnswerClasses == {"ok", "serverError", "timeout", "connError", "torn"}

TypeOK ==
    /\ pc \in {"begin", "wait", "body", "close", "again", "deferred", "returned"}
    /\ asked \in Requests \cup {"none"}
    /\ ctxDone \in BOOLEAN /\ txSess \in BOOLEAN
    /\ alive \in BOOLEAN /\ written \in BOOLEAN
    /\ txErr \in {"none", "nil", "error", "panic"}
    /\ {putAnswer, closeAnswer} \subseteq AnswerClasses \cup {"none"}
    /\ result \in {"none", "startFailed", "nil", "txError", "commitFailed",
                   "rollbackFailed", "panic"}
    /\ inflight \subseteq Requests
    /\ commits \in [Ends -> BOOLEAN]
    /\ replies \in [Requests -> {"none", "ok", "serverError"}]
    /\ tx \in {"none", "active", "committed", "rolledBack"}
    /\ result = "none" <=> pc # "returned"

Init ==
    /\ pc = "begin" /\ asked = "none" /\ ctxDone = FALSE /\ txSess = FALSE /\ txErr = "none"
    /\ putAnswer = "none" /\ closeAnswer = "none" /\ result = "none" /\ alive = TRUE
    /\ inflight = {} /\ commits = [q \in Ends |-> FALSE]
    /\ replies = [q \in Requests |-> "none"]
    /\ tx = "none" /\ written = FALSE

-----------------------------------------------------------------------------
(* One request over txSess.ch.                                             *)

Context(q) == IF q \in {"endAgain", "endDeferred"} THEN "background" ELSE "user"

TimedOut(q) == RequestTimeout \/ (Context(q) = "user" /\ ctxDone)

SendRequest(q) == /\ pc' = "wait" /\ asked' = q
                  /\ inflight' = IF alive THEN inflight \cup {q} ELSE inflight
                  /\ UNCHANGED <<ctxDone, alive, nodeVars>>

(* closeTx writes its argument into the request it sends. *)
SendEnd(q, committed) == /\ SendRequest(q)
                         /\ commits' = [commits EXCEPT ![q] = committed]

(* Its responseReader is called with a.  The answer is torn when the       *)
(* channel's failure has ended the request and a late response clears its  *)
(* error between the two looks at it.                                      *)
Answered(q, a) == /\ pc = "wait" /\ asked = q /\ UNCHANGED asked
                  /\ \/ a = replies[q] /\ a # "none"
                     \/ a = "timeout" /\ alive /\ TimedOut(q)
                     \/ a = "connError" /\ ~alive
                     \/ a = "torn" /\ ~alive /\ replies[q] # "none"
                  /\ UNCHANGED <<ctxDone, alive, inflight, commits, nodeVars>>

Return(res) == pc' = "returned" /\ result' = res

-----------------------------------------------------------------------------
StartTx == /\ pc = "begin"
           /\ \/ /\ SendRequest("start") /\ UNCHANGED result
              \* no channel, or the protocol has no transactions
              \/ /\ Return("startFailed")
                 /\ UNCHANGED <<asked, ctxDone, alive, inflight, nodeVars>>
           /\ UNCHANGED <<txSess, txErr, putAnswer, closeAnswer, commits>>

(* Without an answer there is no session to close.  The reader of a torn   *)
(* one dereferences the nil response, and nothing is deferred yet.         *)
TxStarted == /\ \E a \in AnswerClasses :
                   /\ Answered("start", a)
                   /\ IF a = "ok"
                      THEN pc' = "body" /\ txSess' = TRUE /\ UNCHANGED result
                      ELSE /\ Return(IF a = "torn" THEN "panic" ELSE "startFailed")
                           /\ UNCHANGED txSess
             /\ UNCHANGED <<txErr, putAnswer, closeAnswer>>

Put == /\ pc = "body" /\ putAnswer = "none"
       /\ SendRequest("put")
       /\ UNCHANGED <<txSess, txErr, putAnswer, closeAnswer, result, commits>>

(* A torn answer is no error to the closure.                               *)
PutReturns == /\ \E a \in AnswerClasses : Answered("put", a) /\ putAnswer' = a
              /\ pc' = "body"
              /\ UNCHANGED <<txSess, txErr, closeAnswer, result>>

(* The closure may pass on the error of its put, or not. *)
BodyReturns == /\ pc = "body" /\ pc' = "close"
               /\ txErr' \in {"nil", "error"}
               /\ UNCHANGED <<asked, txSess, putAnswer, closeAnswer, result, commits,
                              ctxDone, alive, inflight, nodeVars>>

BodyPanics == /\ pc = "body" /\ pc' = "deferred"
              /\ txErr' = "panic"
              /\ UNCHANGED <<asked, txSess, putAnswer, closeAnswer, result, commits,
                             ctxDone, alive, inflight, nodeVars>>

(* shouldCommit. *)
ShouldCommit == txErr = "nil"

CloseTx == /\ pc = "close"
           /\ SendEnd("end", ShouldCommit)
           /\ UNCHANGED <<txSess, txErr, putAnswer, closeAnswer, result>>

(* Mutant: an error of the retried close is taken for a closed transaction. *)
RetryTrusted(a) == Return(IF txErr = "nil" THEN "nil" ELSE "txError")

(* The reader of closeTx keeps an error only: a torn answer is a success. *)
Succeeded(a) == a \in {"ok", "torn"}

Closed(a) == Return(CASE Succeeded(a) /\ txErr = "nil"   -> "nil"
                      [] Succeeded(a) /\ txErr = "error" -> "txError"
                      [] ~Succeeded(a) /\ txErr = "nil"  -> "commitFailed"
                      [] OTHER                           -> "rollbackFailed")

(* A close that timed out is sent again, with a context of its own. *)
TxClosed == /\ \E a \in AnswerClasses :
                  /\ Answered("end", a) /\ closeAnswer' = a
                  /\ IF a = "timeout" THEN pc' = "again" /\ UNCHANGED result ELSE Closed(a)
            /\ UNCHANGED <<txSess, txErr, putAnswer>>

(* Mutant: the second close commits whatever the closure has returned.     *)
CommitsAgain == /\ pc = "again"
                /\ SendEnd("endAgain", TRUE)
                /\ UNCHANGED <<txSess, txErr, putAnswer, closeAnswer, result>>

CloseTxAgain == /\ pc = "again"
                /\ SendEnd("endAgain", ShouldCommit)
                /\ UNCHANGED <<txSess, txErr, putAnswer, closeAnswer, result>>

TxClosedAgain == /\ \E a \in AnswerClasses :
                       Answered("endAgain", a) /\ Closed(a) /\ closeAnswer' = a
                 /\ UNCHANGED <<txSess, txErr, putAnswer>>

(* Mutant: nothing is deferred. *)
NotDeferred == /\ pc = "deferred"
               /\ Return("panic")
               /\ UNCHANGED <<asked, txSess, txErr, putAnswer, closeAnswer, commits,
                              ctxDone, alive, inflight, nodeVars>>

(* The deferred function, when the closure has panicked. *)
CloseDeferred == /\ pc = "deferred"
                 /\ SendEnd("endDeferred", FALSE)
                 /\ UNCHANGED <<txSess, txErr, putAnswer, closeAnswer, result>>

DeferredClosed == /\ \E a \in AnswerClasses : Answered("endDeferred", a)
                  /\ Return("panic")
                  /\ UNCHANGED <<txSess, txErr, putAnswer, closeAnswer>>

Caller == \/ StartTx \/ TxStarted \/ Put \/ PutReturns \/ BodyReturns \/ BodyPanics
          \/ CloseTx \/ TxClosed \/ CloseTxAgain \/ TxClosedAgain
          \/ CloseDeferred \/ DeferredClosed

ContextDone == /\ HasDeadline /\ ~ctxDone /\ pc # "returned"
               /\ ctxDone' = TRUE
               /\ UNCHANGED <<callVars, alive, inflight, nodeVars>>

-----------------------------------------------------------------------------
(* The node.                                                               *)

Execute(q) ==
    /\ q \in inflight
    /\ inflight' = inflight \ {q}
    /\ CASE q = "start" -> /\ tx' = "active" /\ UNCHANGED written
                           /\ replies' = [replies EXCEPT ![q] = "ok"]
         [] q = "put"   -> /\ written' = (tx = "active") /\ UNCHANGED tx
                           /\ \E a \in IF tx = "active" THEN {"ok", "serverError"} ELSE {"serverError"} :
                                 replies' = [replies EXCEPT ![q] = a]
         [] OTHER       -> /\ tx' = IF tx # "active" THEN tx
                                    ELSE IF commits[q] THEN "committed" ELSE "rolledBack"
                           /\ replies' = [replies EXCEPT ![q] =
                                            IF tx = "active" THEN "ok" ELSE "serverError"]
                           /\ UNCHANGED written
    /\ UNCHANGED <<callVars, ctxDone, alive>>

NodeRollsBack == /\ tx = "active" /\ (TxTimeout \/ ~alive)
                 /\ tx' = "rolledBack"
                 /\ UNCHANGED <<callVars, ctxDone, alive, inflight, written, replies>>

ConnectionFails == /\ CanFail /\ alive
                   /\ alive' = FALSE
                   /\ UNCHANGED <<callVars, ctxDone, inflight, nodeVars>>

Next == \/ Caller \/ ContextDone
        \/ \E q \in Requests : Execute(q)
        \/ NodeRollsBack \/ ConnectionFails

Spec == Init /\ [][Next]_vars

-----------------------------------------------------------------------------
(* Correctness.                                                            *)

(* RunInTransaction returns what became of the transaction: nil only if it *)
(* was committed with the put that was answered, the closure's own error   *)
(* only if it was rolled back.  The exception is a commit whose answer is  *)
(* torn, which the reader of closeTx takes for success: then nil says no   *)
(* more than that the transaction has ended, and the node may have rolled  *)
(* it back.  A put whose own answer is torn may have failed on the node.   *)
OutcomeTrue ==
    /\ result = "nil" => \/ tx = "committed" /\ (putAnswer = "ok" => written)
                         \/ tx = "rolledBack" /\ closeAnswer = "torn"
    /\ result = "txError" => tx = "rolledBack"

(* A transaction whose closure failed or panicked is never committed, by   *)
(* none of the closes that may be on their way, the first one, executed    *)
(* late, its retry or the deferred one, each with a flag of its own.       *)
FailedNeverCommitted == txErr # "nil" => tx # "committed"

(* Over a connection that works RunInTransaction leaves no transaction it  *)
(* has had a session for active behind on the node, once the node has      *)
(* executed what it was sent, also when the closure panics or closeTx      *)
(* times out.                                                              *)
NothingLeftActive == txSess /\ pc = "returned" /\ alive /\ inflight = {} => tx # "active"

(* The commit is retried after a timeout, so that a transaction whose only *)
(* trouble was the deadline of its context ends without an error           *)
(* (RunInTransaction).                                                     *)
RetriedCommitReported == tx = "committed" => result # "commitFailed"
=============================================================================
