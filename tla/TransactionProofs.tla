-------------------------- MODULE TransactionProofs --------------------------
(***************************************************************************)
(* The safety of RunInTransaction, for every combination of deadlines,     *)
(* timeouts and failures.                                                  *)
(***************************************************************************)
EXTENDS Transaction, TLAPS

(* The requests that may have been sent when q is the last.                *)
Sent(q) == CASE q = "none"     -> {}
             [] q = "start"    -> {"start"}
             [] q = "put"      -> {"start", "put"}
             [] q = "end"      -> {"start", "put", "end"}
             [] q = "endAgain" -> {"start", "put", "end", "endAgain"}
             [] OTHER          -> {"start", "put", "endDeferred"}

(* Which request was the last, and what is known of the closure, wherever  *)
(* RunInTransaction is.                                                    *)
Control ==
    /\ pc = "begin" => asked = "none"
    /\ pc = "wait" => asked # "none" /\ (asked = "put" => putAnswer = "none")
    /\ pc = "body" => asked \in {"start", "put"} /\ (putAnswer = "none" => asked = "start")
    /\ pc \in {"close", "deferred"} => asked \in {"start", "put"}
    /\ pc = "again" => asked = "end"
    /\ pc = "returned" /\ txSess => asked \in Ends
    /\ txSess <=> asked \notin {"none", "start"} \/ pc \in {"body", "close", "deferred"}
    /\ txErr = "none" <=> asked \notin Ends /\ pc \notin {"close", "deferred"}
    /\ pc = "close" \/ asked \in {"end", "endAgain"} => txErr \in {"nil", "error"}
    /\ pc = "deferred" \/ asked = "endDeferred" => txErr = "panic"

(* A request is sent once, executed once, and answered then.               *)
SentOnce ==
    /\ \A q \in Requests : q \notin Sent(asked) => q \notin inflight /\ replies[q] = "none"
    /\ \A q \in inflight : replies[q] = "none"
    /\ alive /\ asked # "none" => asked \in inflight \/ replies[asked] # "none"
    /\ txSess => "start" \notin inflight /\ replies["start"] # "none"

(* Every close that was sent carries what the closure has come to.         *)
FlagsTrue == \A q \in Ends : q \in Sent(asked) => commits[q] = (txErr = "nil")

(* What an answer to a request tells of the transaction on the node.       *)
AnswersTell ==
    /\ \A q \in Ends : replies[q] # "none" => tx # "active"
    /\ \A q \in Ends : replies[q] = "ok" => tx = IF commits[q] THEN "committed" ELSE "rolledBack"
    /\ replies["start"] # "none" => tx # "none"
    /\ replies["put"] = "ok" => written
    /\ putAnswer = "ok" => replies["put"] = "ok"

(* RunInTransaction returns without an error of its own only when the node *)
(* has answered the last close, and has answered that it was done unless   *)
(* that answer was torn.                                                   *)
ResultAnswered ==
    /\ result = "nil" => txErr = "nil"
    /\ result = "txError" => txErr = "error"
    /\ result \in {"nil", "txError"} =>
          /\ asked \in Ends /\ replies[asked] # "none"
          /\ closeAnswer # "torn" => replies[asked] = "ok"

(* The inductive invariant: an answer in hand, and with it the result,     *)
(* speaks of the transaction only because every request is sent and        *)
(* executed at most once, and the closure's outcome is settled before the  *)
(* first close, whose flag and that of every later one it is.              *)
IInv == /\ TypeOK /\ Control /\ SentOnce /\ FlagsTrue
        /\ FailedNeverCommitted /\ AnswersTell /\ ResultAnswered

-----------------------------------------------------------------------------
(* The first states: nothing was sent.                                     *)
LEMMA InitInvariant == Init => IInv
  BY DEF Init, IInv, TypeOK, Control, SentOnce, FlagsTrue, FailedNeverCommitted, AnswersTell,
         ResultAnswered, Requests, AnswerClasses, Sent, Ends

(* The first request is sent, or none.                                     *)
LEMMA StartTxKeeps == IInv /\ StartTx => IInv'
<1> SUFFICES ASSUME IInv, StartTx PROVE IInv'
  OBVIOUS
<1> USE DEF IInv, StartTx, SendRequest, Return, callVars, nodeVars, Requests
<1>1. TypeOK'
  <2>1. CASE SendRequest("start") /\ UNCHANGED result
    BY <2>1 DEF TypeOK
  <2>2. CASE Return("startFailed") /\ UNCHANGED <<asked, ctxDone, alive, inflight, nodeVars>>
    BY <2>2 DEF TypeOK
  <2> QED BY <2>1, <2>2
<1>2. Control'
  BY DEF Control, Ends
<1>3. SentOnce'
  BY DEF SentOnce, Control, Sent, Ends
<1>4. ResultAnswered'
  BY DEF ResultAnswered, TypeOK
<1>5. FailedNeverCommitted' /\ AnswersTell'
  <2>1. FailedNeverCommitted'
    BY DEF FailedNeverCommitted
  <2>2. AnswersTell'
    BY DEF AnswersTell
  <2> QED BY <2>1, <2>2
<1>6. FlagsTrue'
  BY DEF FlagsTrue, Control, Sent, Ends
<1> QED BY <1>1, <1>2, <1>3, <1>4, <1>5, <1>6

(* There is a session only behind an answer.                               *)
LEMMA TxStartedKeeps == IInv /\ TxStarted => IInv'
<1> SUFFICES ASSUME IInv, TxStarted PROVE IInv'
  OBVIOUS
<1> USE DEF IInv, TxStarted, Answered, AnswerClasses, Return, callVars, nodeVars, Requests
<1>1. TypeOK'
  <2>1. PICK a \in AnswerClasses :
            /\ Answered("start", a)
            /\ IF a = "ok" THEN pc' = "body" /\ txSess' = TRUE /\ UNCHANGED result
               ELSE /\ Return(IF a = "torn" THEN "panic" ELSE "startFailed")
                    /\ UNCHANGED txSess
    OBVIOUS
  <2>2. CASE a = "ok"
    BY <2>1, <2>2 DEF TypeOK
  <2>3. CASE a # "ok"
    BY <2>1, <2>3 DEF TypeOK
  <2> QED BY <2>2, <2>3
<1>2. Control' /\ SentOnce' /\ FlagsTrue' /\ FailedNeverCommitted' /\ AnswersTell' /\ ResultAnswered'
  <2>1. Control'
    BY DEF Control
  <2>2. SentOnce'
    BY DEF SentOnce
  <2>3. FailedNeverCommitted'
    BY DEF FailedNeverCommitted
  <2>4. AnswersTell'
    BY DEF AnswersTell
  <2>5. ResultAnswered'
    BY DEF ResultAnswered
  <2>6. FlagsTrue'
    BY DEF FlagsTrue
  <2> QED BY <2>1, <2>2, <2>3, <2>4, <2>5, <2>6
<1> QED BY <1>1, <1>2

(* The put is sent once.                                                   *)
LEMMA PutKeeps == IInv /\ Put => IInv'
<1> SUFFICES ASSUME IInv, Put PROVE IInv'
  OBVIOUS
<1> USE DEF IInv, Put, SendRequest, callVars, nodeVars, Requests
<1>1. Control'
  BY DEF Control, Ends
<1>2. SentOnce'
  BY DEF SentOnce, Control, Sent, Ends
<1>3. ResultAnswered'
  BY DEF ResultAnswered, TypeOK
<1>4. TypeOK' /\ FailedNeverCommitted' /\ AnswersTell'
  <2>1. TypeOK'
    BY DEF TypeOK
  <2>2. FailedNeverCommitted'
    BY DEF FailedNeverCommitted
  <2>3. AnswersTell'
    BY DEF AnswersTell
  <2> QED BY <2>1, <2>2, <2>3
<1>5. FlagsTrue'
  BY DEF FlagsTrue, Control, Sent, Ends
<1> QED BY <1>1, <1>2, <1>3, <1>4, <1>5

(* Its answer is the one the node gave, or none.                           *)
LEMMA PutReturnsKeeps == IInv /\ PutReturns => IInv'
<1> SUFFICES ASSUME IInv, PutReturns PROVE IInv'
  OBVIOUS
<1> USE DEF IInv, PutReturns, Answered, AnswerClasses, callVars, nodeVars, Requests
<1>1. TypeOK' /\ Control' /\ SentOnce' /\ FlagsTrue' /\ FailedNeverCommitted' /\ AnswersTell' /\ ResultAnswered'
  <2>1. TypeOK'
    BY DEF TypeOK
  <2>2. Control'
    BY DEF Control
  <2>3. SentOnce'
    BY DEF SentOnce
  <2>4. FailedNeverCommitted'
    BY DEF FailedNeverCommitted
  <2>5. AnswersTell'
    BY DEF AnswersTell
  <2>6. ResultAnswered'
    BY DEF ResultAnswered
  <2>7. FlagsTrue'
    BY DEF FlagsTrue
  <2> QED BY <2>1, <2>2, <2>3, <2>4, <2>5, <2>6, <2>7
<1> QED BY <1>1

(* Nothing has asked the node to end the transaction yet.                  *)
LEMMA BodyReturnsKeeps == IInv /\ BodyReturns => IInv'
<1> SUFFICES ASSUME IInv, BodyReturns PROVE IInv'
  OBVIOUS
<1> USE DEF IInv, BodyReturns, callVars, nodeVars, Requests
<1>1. FailedNeverCommitted'
  BY DEF FailedNeverCommitted, Control, Ends
<1>2. AnswersTell'
  BY DEF AnswersTell, Control, SentOnce, Ends, Sent
<1>3. ResultAnswered'
  BY DEF ResultAnswered, TypeOK
<1>4. TypeOK' /\ Control' /\ SentOnce' /\ FlagsTrue'
  <2>1. TypeOK'
    BY DEF TypeOK
  <2>2. Control'
    BY DEF Control
  <2>3. SentOnce'
    BY DEF SentOnce
  <2>4. FlagsTrue'
    BY DEF FlagsTrue, Control, Sent, Ends
  <2> QED BY <2>1, <2>2, <2>3, <2>4
<1> QED BY <1>1, <1>2, <1>3, <1>4

(* Nor when the closure panics.                                            *)
LEMMA BodyPanicsKeeps == IInv /\ BodyPanics => IInv'
<1> SUFFICES ASSUME IInv, BodyPanics PROVE IInv'
  OBVIOUS
<1> USE DEF IInv, BodyPanics, callVars, nodeVars, Requests
<1>1. FailedNeverCommitted'
  BY DEF FailedNeverCommitted, Control, Ends
<1>2. AnswersTell'
  BY DEF AnswersTell, Control, Ends
<1>3. ResultAnswered'
  BY DEF ResultAnswered, TypeOK
<1>4. TypeOK' /\ Control' /\ SentOnce' /\ FlagsTrue'
  <2>1. TypeOK'
    BY DEF TypeOK
  <2>2. Control'
    BY DEF Control
  <2>3. SentOnce'
    BY DEF SentOnce
  <2>4. FlagsTrue'
    BY DEF FlagsTrue, Control, Sent, Ends
  <2> QED BY <2>1, <2>2, <2>3, <2>4
<1> QED BY <1>1, <1>2, <1>3, <1>4

(* The first close.                                                        *)
LEMMA CloseTxKeeps == IInv /\ CloseTx => IInv'
<1> SUFFICES ASSUME IInv, CloseTx PROVE IInv'
  OBVIOUS
<1> USE DEF IInv, CloseTx, SendRequest, SendEnd, ShouldCommit, callVars, nodeVars, Requests
<1>0. /\ commits' \in [Ends -> BOOLEAN] /\ commits'["end"] = (txErr = "nil")
      /\ \A e \in Ends \ {"end"} : commits'[e] = commits[e]
      /\ replies["end"] = "none"
  BY DEF TypeOK, SentOnce, Control, Sent, Ends
<1>1. Control'
  BY DEF Control, Ends
<1>2. SentOnce'
  BY DEF SentOnce, Control, Sent, Ends
<1>3. ResultAnswered'
  BY DEF ResultAnswered, TypeOK
<1>4. TypeOK' /\ FailedNeverCommitted' /\ AnswersTell'
  <2>1. TypeOK'
    BY <1>0 DEF TypeOK
  <2>2. FailedNeverCommitted'
    BY DEF FailedNeverCommitted
  <2>3. AnswersTell'
    BY <1>0 DEF AnswersTell
  <2> QED BY <2>1, <2>2, <2>3
<1>5. FlagsTrue'
  BY <1>0 DEF FlagsTrue, Control, Sent, Ends
<1> QED BY <1>1, <1>2, <1>3, <1>4, <1>5

(* What it is answered with is the result, unless it timed out.            *)
LEMMA TxClosedKeeps == IInv /\ TxClosed => IInv'
<1> SUFFICES ASSUME IInv, TxClosed PROVE IInv'
  OBVIOUS
<1> USE DEF IInv, TxClosed, Answered, AnswerClasses, Closed, Succeeded, Return, callVars, nodeVars, Requests
<1>1. ResultAnswered'
  BY DEF ResultAnswered, TypeOK, Ends
<1>2. TypeOK' /\ Control' /\ SentOnce' /\ FlagsTrue' /\ FailedNeverCommitted' /\ AnswersTell'
  <2>1. TypeOK'
    BY DEF TypeOK
  <2>2. Control'
    BY DEF Control
  <2>3. SentOnce'
    BY DEF SentOnce
  <2>4. FailedNeverCommitted'
    BY DEF FailedNeverCommitted
  <2>5. AnswersTell'
    BY DEF AnswersTell
  <2>6. FlagsTrue'
    BY DEF FlagsTrue
  <2> QED BY <2>1, <2>2, <2>3, <2>4, <2>5, <2>6
<1> QED BY <1>1, <1>2

(* The second close.                                                       *)
LEMMA CloseTxAgainKeeps == IInv /\ CloseTxAgain => IInv'
<1> SUFFICES ASSUME IInv, CloseTxAgain PROVE IInv'
  OBVIOUS
<1> USE DEF IInv, CloseTxAgain, SendRequest, SendEnd, ShouldCommit, callVars, nodeVars, Requests
<1>0. /\ commits' \in [Ends -> BOOLEAN] /\ commits'["endAgain"] = (txErr = "nil")
      /\ \A e \in Ends \ {"endAgain"} : commits'[e] = commits[e]
      /\ replies["endAgain"] = "none"
  BY DEF TypeOK, SentOnce, Control, Sent, Ends
<1>1. Control'
  BY DEF Control, Ends
<1>2. SentOnce'
  BY DEF SentOnce, Control, Sent, Ends
<1>3. ResultAnswered'
  BY DEF ResultAnswered, TypeOK
<1>4. TypeOK' /\ FailedNeverCommitted' /\ AnswersTell'
  <2>1. TypeOK'
    BY <1>0 DEF TypeOK
  <2>2. FailedNeverCommitted'
    BY DEF FailedNeverCommitted
  <2>3. AnswersTell'
    BY <1>0 DEF AnswersTell
  <2> QED BY <2>1, <2>2, <2>3
<1>5. FlagsTrue'
  BY <1>0 DEF FlagsTrue, Control, Sent, Ends
<1> QED BY <1>1, <1>2, <1>3, <1>4, <1>5

(* What it is answered with is the result.                                 *)
LEMMA TxClosedAgainKeeps == IInv /\ TxClosedAgain => IInv'
<1> SUFFICES ASSUME IInv, TxClosedAgain PROVE IInv'
  OBVIOUS
<1> USE DEF IInv, TxClosedAgain, Answered, AnswerClasses, Closed, Succeeded, Return, callVars, nodeVars, Requests
<1>1. ResultAnswered'
  BY DEF ResultAnswered, TypeOK, Ends
<1>2. TypeOK' /\ Control' /\ SentOnce' /\ FlagsTrue' /\ FailedNeverCommitted' /\ AnswersTell'
  <2>1. TypeOK'
    BY DEF TypeOK
  <2>2. Control'
    BY DEF Control
  <2>3. SentOnce'
    BY DEF SentOnce
  <2>4. FailedNeverCommitted'
    BY DEF FailedNeverCommitted
  <2>5. AnswersTell'
    BY DEF AnswersTell
  <2>6. FlagsTrue'
    BY DEF FlagsTrue
  <2> QED BY <2>1, <2>2, <2>3, <2>4, <2>5, <2>6
<1> QED BY <1>1, <1>2

(* The close of the deferred function.                                     *)
LEMMA CloseDeferredKeeps == IInv /\ CloseDeferred => IInv'
<1> SUFFICES ASSUME IInv, CloseDeferred PROVE IInv'
  OBVIOUS
<1> USE DEF IInv, CloseDeferred, SendRequest, SendEnd, ShouldCommit, callVars, nodeVars, Requests
<1>0. /\ commits' \in [Ends -> BOOLEAN] /\ commits'["endDeferred"] = FALSE
      /\ \A e \in Ends \ {"endDeferred"} : commits'[e] = commits[e]
      /\ replies["endDeferred"] = "none"
  BY DEF TypeOK, SentOnce, Control, Sent, Ends
<1>1. Control'
  BY DEF Control, Ends
<1>2. SentOnce'
  BY DEF SentOnce, Control, Sent, Ends
<1>3. ResultAnswered'
  BY DEF ResultAnswered, TypeOK
<1>4. TypeOK' /\ FailedNeverCommitted' /\ AnswersTell'
  <2>1. TypeOK'
    BY <1>0 DEF TypeOK
  <2>2. FailedNeverCommitted'
    BY DEF FailedNeverCommitted
  <2>3. AnswersTell'
    BY <1>0 DEF AnswersTell
  <2> QED BY <2>1, <2>2, <2>3
<1>5. FlagsTrue'
  BY <1>0 DEF FlagsTrue, Control, Sent, Ends
<1> QED BY <1>1, <1>2, <1>3, <1>4, <1>5

(* Its answer is not part of the result.                                   *)
LEMMA DeferredClosedKeeps == IInv /\ DeferredClosed => IInv'
<1> SUFFICES ASSUME IInv, DeferredClosed PROVE IInv'
  OBVIOUS
<1> USE DEF IInv, DeferredClosed, Answered, AnswerClasses, Return, callVars, nodeVars, Requests
<1>1. Control'
  BY DEF Control, Ends
<1>2. TypeOK' /\ SentOnce' /\ FlagsTrue' /\ FailedNeverCommitted' /\ AnswersTell' /\ ResultAnswered'
  <2>1. TypeOK'
    BY DEF TypeOK
  <2>2. SentOnce'
    BY DEF SentOnce
  <2>3. FailedNeverCommitted'
    BY DEF FailedNeverCommitted
  <2>4. AnswersTell'
    BY DEF AnswersTell
  <2>5. ResultAnswered'
    BY DEF ResultAnswered
  <2>6. FlagsTrue'
    BY DEF FlagsTrue
  <2> QED BY <2>1, <2>2, <2>3, <2>4, <2>5, <2>6
<1> QED BY <1>1, <1>2

(* The deadline passes.                                                    *)
LEMMA ContextDoneKeeps == IInv /\ ContextDone => IInv'
<1> SUFFICES ASSUME IInv, ContextDone PROVE IInv'
  OBVIOUS
<1> USE DEF IInv, ContextDone, callVars, nodeVars, Requests
<1>1. TypeOK' /\ Control' /\ SentOnce' /\ FlagsTrue' /\ FailedNeverCommitted' /\ AnswersTell' /\ ResultAnswered'
  <2>1. TypeOK'
    BY DEF TypeOK
  <2>2. Control'
    BY DEF Control
  <2>3. SentOnce'
    BY DEF SentOnce
  <2>4. FailedNeverCommitted'
    BY DEF FailedNeverCommitted
  <2>5. AnswersTell'
    BY DEF AnswersTell
  <2>6. ResultAnswered'
    BY DEF ResultAnswered
  <2>7. FlagsTrue'
    BY DEF FlagsTrue
  <2> QED BY <2>1, <2>2, <2>3, <2>4, <2>5, <2>6, <2>7
<1> QED BY <1>1

(* The node rolls back only what is still active.                          *)
LEMMA NodeRollsBackKeeps == IInv /\ NodeRollsBack => IInv'
<1> SUFFICES ASSUME IInv, NodeRollsBack PROVE IInv'
  OBVIOUS
<1> USE DEF IInv, NodeRollsBack, callVars, nodeVars, Requests
<1>1. TypeOK' /\ Control' /\ SentOnce' /\ FlagsTrue' /\ FailedNeverCommitted' /\ AnswersTell' /\ ResultAnswered'
  <2>1. TypeOK'
    BY DEF TypeOK
  <2>2. Control'
    BY DEF Control
  <2>3. SentOnce'
    BY DEF SentOnce
  <2>4. FailedNeverCommitted'
    BY DEF FailedNeverCommitted
  <2>5. AnswersTell'
    BY DEF AnswersTell
  <2>6. ResultAnswered'
    BY DEF ResultAnswered
  <2>7. FlagsTrue'
    BY DEF FlagsTrue
  <2> QED BY <2>1, <2>2, <2>3, <2>4, <2>5, <2>6, <2>7
<1> QED BY <1>1

(* The node keeps what it has done.                                        *)
LEMMA ConnectionFailsKeeps == IInv /\ ConnectionFails => IInv'
<1> SUFFICES ASSUME IInv, ConnectionFails PROVE IInv'
  OBVIOUS
<1> USE DEF IInv, ConnectionFails, callVars, nodeVars, Requests
<1>1. TypeOK'
  <2>1. alive' \in BOOLEAN /\ result' = result /\ pc' = pc
    OBVIOUS
  <2> QED BY <2>1 DEF TypeOK
<1>2. Control' /\ SentOnce' /\ FlagsTrue' /\ FailedNeverCommitted' /\ AnswersTell' /\ ResultAnswered'
  <2>1. Control'
    BY DEF Control
  <2>2. SentOnce'
    BY DEF SentOnce
  <2>3. FailedNeverCommitted'
    BY DEF FailedNeverCommitted
  <2>4. AnswersTell'
    BY DEF AnswersTell
  <2>5. ResultAnswered'
    BY DEF ResultAnswered
  <2>6. FlagsTrue'
    BY DEF FlagsTrue
  <2> QED BY <2>1, <2>2, <2>3, <2>4, <2>5, <2>6
<1> QED BY <1>1, <1>2

(* A request is executed at most once, and what its execution does to the  *)
(* transaction is what its answer tells.                                   *)
LEMMA ExecuteKeeps == ASSUME IInv, NEW q \in Requests, Execute(q) PROVE IInv'
<1> USE DEF IInv, callVars, nodeVars, Requests
<1>0. /\ UNCHANGED <<callVars, ctxDone, alive>> /\ q \in inflight /\ inflight' = inflight \ {q}
      /\ replies[q] = "none" /\ q \in Sent(asked) /\ (asked = "none" => FALSE)
  BY DEF Execute, SentOnce, Sent
<1>1. CASE q = "start"
  <2>1. tx' = "active" /\ written' = written /\ replies' = [replies EXCEPT ![q] = "ok"]
    BY <1>1 DEF Execute
  <2>2. ~txSess /\ asked = "start"
    BY <1>0, <1>1 DEF SentOnce, Control, TypeOK
  <2>3. TypeOK'
    BY <1>0, <2>1 DEF TypeOK
  <2>4. Control' /\ FailedNeverCommitted' /\ ResultAnswered'
    BY <1>0, <2>1, <2>2 DEF TypeOK, Control, FailedNeverCommitted, ResultAnswered, Ends
  <2>5. SentOnce'
    BY <1>0, <1>1, <2>1, <2>2 DEF TypeOK, SentOnce, Sent
  <2>6. AnswersTell'
    BY <1>0, <1>1, <2>1, <2>2 DEF TypeOK, AnswersTell, SentOnce, Sent, Ends
  <2>7. FlagsTrue'
    BY <1>0, <1>1, <2>1, <2>2 DEF TypeOK, FlagsTrue, Sent
  <2> QED BY <2>3, <2>4, <2>5, <2>6, <2>7
<1>2. CASE q = "put"
  <2>1. PICK a \in {"ok", "serverError"} :
            /\ a = "ok" => tx = "active"
            /\ written' = (tx = "active") /\ tx' = tx /\ replies' = [replies EXCEPT ![q] = a]
    BY <1>2 DEF Execute
  <2>3. TypeOK'
    <3>1. written' \in BOOLEAN
      BY <2>1
    <3> QED BY <1>0, <2>1, <3>1 DEF TypeOK
  <2>4. Control' /\ FailedNeverCommitted' /\ ResultAnswered'
    BY <1>0, <1>2, <2>1 DEF TypeOK, Control, FailedNeverCommitted, ResultAnswered, Ends
  <2>5. SentOnce'
    BY <1>0, <1>2, <2>1 DEF TypeOK, SentOnce, Sent
  <2>6. AnswersTell'
    BY <1>0, <1>2, <2>1 DEF TypeOK, AnswersTell, SentOnce, Sent, Ends
  <2>7. FlagsTrue'
    BY <1>0, <1>2, <2>1 DEF TypeOK, FlagsTrue, Sent
  <2> QED BY <2>3, <2>4, <2>5, <2>6, <2>7
<1>3. CASE q \in Ends
  <2>1. /\ tx' = IF tx # "active" THEN tx ELSE IF commits[q] THEN "committed" ELSE "rolledBack"
        /\ replies' = [replies EXCEPT ![q] = IF tx = "active" THEN "ok" ELSE "serverError"]
        /\ written' = written
    BY <1>3 DEF Execute, Ends
  <2>2. txErr # "none"
    BY <1>0, <1>3 DEF Control, Sent, Ends, TypeOK
  <2>3. TypeOK'
    BY <1>0, <2>1 DEF TypeOK
  <2>4. Control' /\ FailedNeverCommitted' /\ ResultAnswered'
    BY <1>0, <1>3, <2>1 DEF TypeOK, Control, FlagsTrue, FailedNeverCommitted, ResultAnswered, Ends
  <2>5. SentOnce'
    BY <1>0, <1>3, <2>1 DEF TypeOK, SentOnce, Sent, Ends
  <2>6. AnswersTell'
    <3>1. \A e \in Ends : replies'[e] # "none" => tx' # "active"
      BY <1>0, <2>1 DEF TypeOK, AnswersTell, Ends
    <3>2. ASSUME NEW e \in Ends, replies'[e] = "ok"
          PROVE  tx' = IF commits[e] THEN "committed" ELSE "rolledBack"
      BY <3>2, <1>0, <1>3, <2>1 DEF TypeOK, AnswersTell, Ends
    <3>3. /\ replies'["put"] = replies["put"]
          /\ replies'["start"] # "none" => tx' # "none"
      BY <1>3, <2>1 DEF TypeOK, AnswersTell, Ends
    <3> QED BY <1>0, <2>1, <3>1, <3>2, <3>3 DEF AnswersTell
  <2>7. FlagsTrue'
    BY <1>0, <1>3, <2>1 DEF TypeOK, FlagsTrue, Sent, Ends
  <2> QED BY <2>3, <2>4, <2>5, <2>6, <2>7
<1> QED BY <1>1, <1>2, <1>3 DEF Ends

(* A step of nobody. *)
LEMMA StutterKeeps == IInv /\ UNCHANGED vars => IInv'
  BY DEF IInv, vars, callVars, nodeVars, TypeOK, Control, SentOnce, FlagsTrue, FailedNeverCommitted,
         AnswersTell, ResultAnswered, Sent

(* Every step of the caller, the node and the connection. *)
LEMMA StepKeeps == IInv /\ [Next]_vars => IInv'
<1>1. ASSUME IInv, Caller PROVE IInv'
  BY <1>1, StartTxKeeps, TxStartedKeeps, PutKeeps, PutReturnsKeeps, BodyReturnsKeeps, BodyPanicsKeeps,
     CloseTxKeeps, TxClosedKeeps, CloseTxAgainKeeps, TxClosedAgainKeeps, CloseDeferredKeeps,
     DeferredClosedKeeps DEF Caller
<1> QED BY <1>1, ContextDoneKeeps, ExecuteKeeps, NodeRollsBackKeeps, ConnectionFailsKeeps, StutterKeeps DEF Next

-----------------------------------------------------------------------------
(* Wherever a run of RunInTransaction is, however it is interleaved with   *)
(* the node, its last request, the answers and the transaction agree.      *)
THEOREM Invariance == Spec => []IInv
<1> QED BY InitInvariant, StepKeeps, PTL DEF Spec

(* RunInTransaction returns what became of the transaction, unless the     *)
(* answer to its last close was torn: then a nil result says only that the *)
(* transaction has ended.                                                  *)
THEOREM OutcomeReported == Spec => []OutcomeTrue
<1>1. IInv => OutcomeTrue
  <2> SUFFICES ASSUME IInv, result \in {"nil", "txError"} PROVE OutcomeTrue
    BY DEF OutcomeTrue
  <2>1. /\ asked \in Ends /\ replies[asked] # "none" /\ tx # "active"
        /\ txErr = IF result = "nil" THEN "nil" ELSE "error"
        /\ commits[asked] = (txErr = "nil")
    BY DEF IInv, ResultAnswered, AnswersTell, FlagsTrue, Sent, Ends
  <2>2. tx \in {"committed", "rolledBack"}
    BY <2>1 DEF IInv, TypeOK, Control, SentOnce, AnswersTell, Ends
  <2>3. CASE closeAnswer = "torn"
    BY <2>1, <2>2, <2>3 DEF IInv, OutcomeTrue, FailedNeverCommitted, AnswersTell
  <2>4. CASE closeAnswer # "torn"
    <3>1. replies[asked] = "ok"
      BY <2>4 DEF IInv, ResultAnswered
    <3> QED BY <2>1, <3>1 DEF IInv, OutcomeTrue, AnswersTell
  <2> QED BY <2>3, <2>4
<1> QED BY <1>1, Invariance, PTL

(* A transaction whose closure failed or panicked is never committed,      *)
(* whichever of its closes arrives.                                        *)
THEOREM FailureNotCommitted == Spec => []FailedNeverCommitted
<1>1. IInv => FailedNeverCommitted
  BY DEF IInv
<1> QED BY <1>1, Invariance, PTL

(* No transaction the caller had a session for stays active behind a       *)
(* connection that works.                                                  *)
THEOREM NothingLeft == Spec => []NothingLeftActive
<1>1. IInv => NothingLeftActive
  <2> SUFFICES ASSUME IInv, txSess, pc = "returned", alive, inflight = {} PROVE tx # "active"
    BY DEF NothingLeftActive
  <2>1. asked \in Ends /\ replies[asked] # "none"
    BY DEF IInv, Control, SentOnce, Ends
  <2> QED BY <2>1 DEF IInv, AnswersTell
<1> QED BY <1>1, Invariance, PTL
=============================================================================
