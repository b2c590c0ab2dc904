-------------------------- MODULE TcpChannelProofs --------------------------
(***************************************************************************)
(* Proofs about TcpChannel, for any number of requests, any capacity of    *)
(* pendingCh and any choice of the other constants.                        *)
(***************************************************************************)
EXTENDS TcpChannel, TLAPS

USE ChannelAssumption
USE DEF callVars, reqVars, writeVars, readVars, closeVars, doneVars, netVars, vars,
        callUnchanged, beginUnchanged, writeUnchanged, readUnchanged,
        userUnchanged, netUnchanged, Goto, Answer

-----------------------------------------------------------------------------
(* Every step of the specification keeps the variables in their types.     *)
LEMMA TypeStep == TypeOK /\ [Next]_vars => TypeOK'
<1> SUFFICES ASSUME TypeOK, [Next]_vars PROVE TypeOK'
    OBVIOUS
<1> USE DEF TypeOK, Answers
<1>1. ASSUME NEW r \in Reqs, Begin(r) \/ StorePending(r) \/ DeletePending(r) \/ SelectFailed(r)
      PROVE  TypeOK'
  <2>1. CASE Begin(r)
    BY <2>1 DEF Begin
  <2>2. CASE StorePending(r)
    BY <2>2 DEF StorePending
  <2>3. CASE DeletePending(r)
    BY <2>3 DEF DeletePending
  <2>4. CASE SelectFailed(r)
    BY <2>4 DEF SelectFailed
  <2>5. QED
    BY <1>1, <2>1, <2>2, <2>3, <2>4
<1>2. ASSUME NEW r \in Reqs, Refuse(r) PROVE TypeOK'
  <2>1. PICK a \in {"closedError", "writerError"} : answer' = [answer EXCEPT ![r] = a]
    BY <1>2 DEF Refuse
  <2>2. answer' \in [Reqs -> Answers] /\ pc' \in [Reqs -> {"idle", "store", "enqueue",
                                     "select", "reread", "delete", "done"}]
    BY <1>2, <2>1 DEF Refuse
  <2>3. QED
    BY <1>2, <2>2 DEF Refuse
<1>3. ASSUME NEW r \in Reqs, Enqueue(r) PROVE TypeOK'
    BY <1>3 DEF Enqueue
<1>4. ASSUME NEW r \in Reqs, SelectDeadline(r) PROVE TypeOK'
    BY <1>4 DEF SelectDeadline, CloseErrorOr
<1>5. ASSUME NEW r \in Reqs, SelectClosed(r) PROVE TypeOK'
    BY <1>5 DEF SelectClosed, CloseErrorOr
<1>6. ASSUME NEW r \in Reqs, RereadError(r) PROVE TypeOK'
    BY <1>6 DEF RereadError
<1>7. ASSUME NEW r \in Reqs, SelectAnswered(r) PROVE TypeOK'
  <2>1. ReplyAnswer(reqData[r]) \in Answers
    BY DEF ReplyAnswer
  <2>2. QED
    BY <1>7, <2>1 DEF SelectAnswered
<1>8. ASSUME NEW r \in Reqs, Expire(r) PROVE TypeOK'
    BY <1>8 DEF Expire
<1>9. ASSUME NEW r \in Reqs, Visit(r) PROVE TypeOK'
    BY <1>9 DEF Visit
<1>10. ASSUME NEW r \in Reqs, Serve(r) PROVE TypeOK'
    BY <1>10 DEF Serve
<1>11. CASE StoreCloseErr \/ CloseDoneCh \/ CloseSocket
  <2>1. doneCh' \in BOOLEAN /\ sockOpen' \in BOOLEAN
    BY <1>11, Zenon DEF StoreCloseErr, CloseDoneCh, CloseSocket
  <2>2. QED
    BY <1>11, <2>1 DEF StoreCloseErr, CloseDoneCh, CloseSocket
<1>12. CASE TakeId
    BY <1>12 DEF TakeId
<1>13. CASE LoadRequest \/ WriterExits
    BY <1>13 DEF LoadRequest, WriterExits
<1>14. CASE Write
    BY <1>14 DEF Write, Outgoing
<1>15. CASE WriteFails
  <2>1. closed' \in BOOLEAN
    BY <1>15, Zenon DEF WriteFails, BeginClose
  <2>2. QED
    BY <1>15, <2>1 DEF WriteFails, BeginClose
<1>16. CASE CheckClosed \/ ReadTimesOut \/ NextRead \/ ReaderExits
    BY <1>16 DEF CheckClosed, ReadTimesOut, NextRead, ReaderExits
<1>17. CASE ReadData
    BY <1>17 DEF ReadData
<1>18. CASE ReadFails
  <2>1. closed' \in BOOLEAN
    BY <1>18, Zenon DEF ReadFails, BeginClose
  <2>2. QED
    BY <1>18, <2>1 DEF ReadFails, BeginClose
<1>19. CASE LoadPending
  <2>1. acc' \in Seq(Reqs) /\ rpc' \in {"packets", "answer"}
    <3>1. CASE Head(acc) \in pending
      BY <1>19, <3>1 DEF LoadPending
    <3>2. CASE Head(acc) \notin pending
      <4>1. acc # <<>> /\ acc' = Tail(acc) /\ rpc' = "packets"
        BY <1>19, <3>2 DEF LoadPending
      <4>2. Tail(acc) \in Seq(Reqs)
        BY <4>1
      <4>3. QED
        BY <4>1, <4>2
    <3>3. QED
      BY <3>1, <3>2
  <2>2. rpc' = "answer" => acc' # <<>>
    BY <1>19 DEF LoadPending
  <2>3. QED
    BY <1>19, <2>1, <2>2 DEF LoadPending
<1>20. CASE Deliver
    BY <1>20 DEF Deliver
<1>21. CASE UserCloses
  <2>1. closed' \in BOOLEAN
    BY <1>21, Zenon DEF UserCloses, BeginClose
  <2>2. QED
    BY <1>21, <2>1 DEF UserCloses, BeginClose
<1>22. CASE User
    BY <1>22 DEF User, UserWaits, UserReturns, UserGivesUp
<1>23. CASE ConnectionFails
  <2>1. peerUp' \in BOOLEAN
    BY <1>23, Zenon DEF ConnectionFails
  <2>2. QED
    BY <1>23, <2>1 DEF ConnectionFails
<1>24. CASE UNCHANGED vars
    BY <1>24
<1>25. QED
    BY <1>1, <1>2, <1>3, <1>4, <1>5, <1>6, <1>7, <1>8, <1>9, <1>10, <1>11, <1>12,
       <1>13, <1>14, <1>15, <1>16, <1>17, <1>18, <1>19, <1>20, <1>21, <1>22, <1>23,
       <1>24
       DEF Next, Send, BeginCloseStep, Writer, Reader

-----------------------------------------------------------------------------
(* What the steps of each process leave alone.                             *)

Caller(r) == Begin(r) \/ Refuse(r) \/ Send(r) \/ Expire(r)

UserStep == UserCloses \/ User

NetStep == ConnectionFails \/ \E r \in Reqs : Serve(r)

(* who calls beginClose: it wins the CAS, or does not touch its state. *)
Calls(who) == \/ UNCHANGED closeVars
              \/ ~closed /\ closed' = TRUE /\ closer' = who /\ bpc' = "store"

(* A step of the specification is a step of one process. *)
LEMMA OneProcess ==
    [Next]_vars => \/ \E r \in Reqs : Caller(r)
                   \/ BeginCloseStep \/ Writer \/ Reader \/ UserStep \/ NetStep
                   \/ UNCHANGED vars
BY Zenon DEF Next, Caller, UserStep, NetStep

(* A goroutine in send0 touches only its own request and the queue. *)
LEMMA CallerFrame ==
    ASSUME NEW r \in Reqs, Caller(r)
    PROVE  UNCHANGED <<writeVars, readVars, closeVars, doneVars, upc, netVars, reqVars>>
BY DEF Caller, Send, Begin, Refuse, Expire, StorePending, Enqueue, SelectDeadline,
       SelectClosed, SelectAnswered, SelectFailed, RereadError, DeletePending

(* beginClose touches neither the callers, the loops nor the network. *)
LEMMA BeginCloseFrame ==
    BeginCloseStep => UNCHANGED <<closed, closer, callVars, queue, writeVars, readVars,
                                  upc, netVars, reqData>>
BY DEF BeginCloseStep, StoreCloseErr, CloseDoneCh, CloseSocket, Visit

(* writeLoop touches its own state, the queue, the wire and, when it fails, *)
(* the start of beginClose.                                                *)
LEMMA WriterFrame ==
    Writer => /\ UNCHANGED <<callVars, reqVars, pending, readVars, doneVars, upc,
                            reply, inbox, peerUp>>
              /\ Calls("writer")
BY DEF Writer, TakeId, LoadRequest, Write, WriteFails, WriterExits, BeginClose, Calls

(* readLoop touches its own state, the requests it answers, the inbox and, *)
(* when it fails, the start of beginClose.                                 *)
LEMMA ReaderFrame ==
    Reader => /\ UNCHANGED <<callVars, pending, queue, writeVars, doneVars, upc,
                            wire, reply, peerUp>>
              /\ Calls("reader")
BY DEF Reader, CheckClosed, ReadData, ReadTimesOut, ReadFails, LoadPending, Deliver,
       NextRead, ReaderExits, BeginClose, Calls

(* close touches its own state and the start of beginClose. *)
LEMMA UserFrame ==
    UserStep => /\ UNCHANGED <<callVars, reqVars, pending, queue, writeVars, readVars,
                              doneVars, netVars>>
                /\ Calls("user")
BY DEF UserStep, UserCloses, User, UserWaits, UserReturns, UserGivesUp, BeginClose, Calls

(* The node and the network touch only what is outside the client. *)
LEMMA NetFrame ==
    NetStep => UNCHANGED <<callVars, reqVars, pending, queue, writeVars, readVars,
                           closeVars, doneVars, upc>>
BY DEF NetStep, ConnectionFails, Serve

-----------------------------------------------------------------------------
(* beginClose works in the order CloseOrder says: the error, doneCh, the   *)
(* socket.                                                                 *)
LEMMA CloseOrderStep == TypeOK /\ CloseOrder /\ [Next]_vars => CloseOrder'
<1> SUFFICES ASSUME TypeOK, CloseOrder, [Next]_vars PROVE CloseOrder'
    OBVIOUS
<1> USE DEF CloseOrder
<1>1. ASSUME NEW r \in Reqs, Caller(r) PROVE CloseOrder'
    BY <1>1, CallerFrame
<1>2. CASE BeginCloseStep
  <2>1. CASE StoreCloseErr
    BY <2>1 DEF StoreCloseErr, TypeOK
  <2>2. CASE CloseDoneCh
    BY <2>2 DEF CloseDoneCh
  <2>3. CASE CloseSocket
    BY <2>3 DEF CloseSocket
  <2>4. ASSUME NEW r \in Reqs, Visit(r) PROVE CloseOrder'
    BY <2>4 DEF Visit
  <2>5. QED
    BY <1>2, <2>1, <2>2, <2>3, <2>4 DEF BeginCloseStep
<1>3. ASSUME NEW who \in {"writer", "reader", "user"}, Calls(who), UNCHANGED doneVars
      PROVE  CloseOrder'
    BY <1>3 DEF Calls
<1>4. CASE Writer \/ Reader \/ UserStep
    BY <1>3, <1>4, WriterFrame, ReaderFrame, UserFrame
<1>5. CASE NetStep
    BY <1>5, NetFrame
<1>6. CASE UNCHANGED vars
    BY <1>6
<1>7. QED
    BY <1>1, <1>2, <1>4, <1>5, <1>6, OneProcess

(* A goroutine past its call of beginClose finds the channel closed, and   *)
(* has run beginClose to its end if it won the CAS.                        *)
LEMMA ClosersPastStep ==
    TypeOK /\ CloseOrder /\ ClosersPast /\ [Next]_vars => ClosersPast'
<1> SUFFICES ASSUME TypeOK, CloseOrder, ClosersPast, [Next]_vars PROVE ClosersPast'
    OBVIOUS
<1> USE DEF ClosersPast, CloseReturned, LoopsExited
<1>1. ASSUME NEW r \in Reqs, Caller(r) PROVE ClosersPast'
    BY <1>1, CallerFrame
<1>2. CASE BeginCloseStep
  <2>1. bpc # "done"
    BY <1>2 DEF BeginCloseStep, StoreCloseErr, CloseDoneCh, CloseSocket, Visit
  <2>2. QED
    BY <1>2, <2>1, BeginCloseFrame
<1>3. CASE Writer
  <2>1. CASE TakeId \/ LoadRequest \/ Write
    BY <2>1 DEF TakeId, LoadRequest, Write
  <2>2. CASE WriteFails
    BY <2>2 DEF WriteFails, BeginClose, CloseOrder
  <2>3. CASE WriterExits
    BY <2>3 DEF WriterExits, CloseOrder
  <2>4. QED
    BY <1>3, <2>1, <2>2, <2>3 DEF Writer
<1>4. CASE Reader
  <2>1. CASE CheckClosed \/ ReadData \/ ReadTimesOut \/ LoadPending \/ Deliver \/ NextRead
    BY <2>1 DEF CheckClosed, ReadData, ReadTimesOut, LoadPending, Deliver, NextRead
  <2>2. CASE ReadFails
    BY <2>2 DEF ReadFails, BeginClose, CloseOrder
  <2>3. CASE ReaderExits
    BY <2>3 DEF ReaderExits
  <2>4. QED
    BY <1>4, <2>1, <2>2, <2>3 DEF Reader
<1>5. CASE UserStep
  <2>1. CASE UserCloses
    BY <2>1 DEF UserCloses, BeginClose, CloseOrder
  <2>2. CASE UserWaits \/ UserReturns \/ UserGivesUp
    BY <2>2 DEF UserWaits, UserReturns, UserGivesUp
  <2>3. QED
    BY <1>5, <2>1, <2>2 DEF UserStep, User
<1>6. CASE NetStep
    BY <1>6, NetFrame
<1>7. CASE UNCHANGED vars
    BY <1>7
<1>8. QED
    BY <1>1, <1>2, <1>3, <1>4, <1>5, <1>6, <1>7, OneProcess

-----------------------------------------------------------------------------
(* A request is answered exactly when its goroutine has left the select.   *)
LEMMA AnswerPlaceStep ==
    TypeOK /\ GenuineReplies /\ AnswerPlace /\ [Next]_vars => AnswerPlace'
<1> SUFFICES ASSUME TypeOK, GenuineReplies, AnswerPlace, [Next]_vars PROVE AnswerPlace'
    OBVIOUS
<1> USE DEF AnswerPlace
<1>1. ASSUME NEW r \in Reqs, Caller(r) PROVE AnswerPlace'
  <2> USE DEF TypeOK
  <2>1. CASE Begin(r) \/ StorePending(r) \/ Enqueue(r) \/ SelectFailed(r) \/ Expire(r)
    BY <2>1 DEF Begin, StorePending, Enqueue, SelectFailed, Expire
  <2>2. CASE Refuse(r) \/ DeletePending(r)
    BY <2>2 DEF Refuse, DeletePending
  <2>3. CASE SelectDeadline(r) \/ SelectClosed(r) \/ RereadError(r)
    BY <2>3 DEF SelectDeadline, SelectClosed, RereadError, CloseErrorOr
  <2>4. CASE SelectAnswered(r)
    <3>1. reqData[r] # "none"
      BY <2>4 DEF SelectAnswered, GenuineReplies
    <3>2. ReplyAnswer(reqData[r]) # "none"
      BY <3>1 DEF ReplyAnswer
    <3>3. QED
      BY <2>4, <3>2 DEF SelectAnswered
  <2>5. QED
    BY <1>1, <2>1, <2>2, <2>3, <2>4 DEF Caller, Send
<1>2. CASE BeginCloseStep \/ Writer \/ Reader \/ UserStep \/ NetStep \/ UNCHANGED vars
  <2>1. UNCHANGED <<pc, answer>>
    BY <1>2, BeginCloseFrame, WriterFrame, ReaderFrame, UserFrame, NetFrame
  <2>2. QED
    BY <2>1
<1>3. QED
    BY <1>1, <1>2, OneProcess

(* The deferred Delete leaves no request behind in pendingRequests. *)
LEMMA PendingStep ==
    TypeOK /\ PendingIsInFlight /\ [Next]_vars => PendingIsInFlight'
<1> SUFFICES ASSUME TypeOK, PendingIsInFlight, [Next]_vars PROVE PendingIsInFlight'
    OBVIOUS
<1> USE DEF PendingIsInFlight, TypeOK
<1>1. ASSUME NEW r \in Reqs, Caller(r) PROVE PendingIsInFlight'
  <2>1. CASE Begin(r) \/ Refuse(r) \/ Expire(r)
    BY <2>1 DEF Begin, Refuse, Expire
  <2>2. CASE StorePending(r) \/ Enqueue(r) \/ DeletePending(r)
    <3>1. CASE StorePending(r)
      BY <3>1 DEF StorePending
    <3>2. CASE Enqueue(r)
      BY <3>2 DEF Enqueue
    <3>3. CASE DeletePending(r)
      BY <3>3 DEF DeletePending
    <3>4. QED
      BY <2>2, <3>1, <3>2, <3>3
  <2>3. CASE SelectDeadline(r) \/ SelectClosed(r) \/ SelectAnswered(r) \/ SelectFailed(r)
             \/ RereadError(r)
    <3>1. pending' = pending
      BY <2>3 DEF SelectDeadline, SelectClosed, SelectAnswered, SelectFailed, RereadError
    <3>2. \E to \in {"delete", "reread"} : pc' = [pc EXCEPT ![r] = to]
      BY <2>3 DEF SelectDeadline, SelectClosed, SelectAnswered, SelectFailed, RereadError
    <3>3. QED
      BY <3>1, <3>2
  <2>4. QED
    BY <1>1, <2>1, <2>2, <2>3 DEF Caller, Send
<1>2. CASE BeginCloseStep
  <2>1. pending' \subseteq pending
    BY <1>2 DEF BeginCloseStep, StoreCloseErr, CloseDoneCh, CloseSocket, Visit
  <2>2. QED
    BY <1>2, <2>1, BeginCloseFrame
<1>3. CASE Writer \/ Reader \/ UserStep \/ NetStep \/ UNCHANGED vars
  <2>1. UNCHANGED <<pc, pending>>
    BY <1>3, WriterFrame, ReaderFrame, UserFrame, NetFrame
  <2>2. QED
    BY <2>1
<1>4. QED
    BY <1>1, <1>2, <1>3, OneProcess

-----------------------------------------------------------------------------
(* closed is never reset, and a request once executed keeps its response.  *)
LEMMA Monotonic ==
    OneCopy /\ TypeOK /\ [Next]_vars =>
        /\ closed => closed'
        /\ \A r \in Reqs : reply[r] # "none" => reply'[r] = reply[r]
<1> SUFFICES ASSUME OneCopy, TypeOK, [Next]_vars
             PROVE  /\ closed => closed'
                    /\ \A r \in Reqs : reply[r] # "none" => reply'[r] = reply[r]
    OBVIOUS
<1>1. CASE \E r \in Reqs : Caller(r)
    BY <1>1, CallerFrame
<1>2. CASE BeginCloseStep \/ UNCHANGED vars
    BY <1>2, BeginCloseFrame
<1>3. CASE Writer \/ Reader \/ UserStep
    BY <1>3, WriterFrame, ReaderFrame, UserFrame DEF Calls
<1>4. CASE NetStep
  <2>1. CASE ConnectionFails
    BY <2>1, <1>4, NetFrame DEF ConnectionFails
  <2>2. ASSUME NEW r \in Reqs, Serve(r)
        PROVE  \A q \in Reqs : reply[q] # "none" => reply'[q] = reply[q]
    BY <2>2 DEF Serve, OneCopy, TypeOK
  <2>3. QED
    BY <1>4, <2>1, <2>2, NetFrame DEF NetStep
<1>5. QED
    BY <1>1, <1>2, <1>3, <1>4, OneProcess

-----------------------------------------------------------------------------
(* Why callers get errors: the three invariants about error classes are    *)
(* inductive together.                                                     *)
ErrorClasses == ErrorReasons /\ LossIsConnectionError /\ ConnectionErrorMeansClosed

(* A step that answers nobody and sets no error keeps ErrorClasses. *)
LEMMA ErrorFrame ==
    ASSUME ErrorClasses, CloseOrder, closed => closed',
           closed => closer' = closer,
           \A r \in Reqs : reply[r] # "none" => reply'[r] = reply[r],
           UNCHANGED <<pc, answer>>,
           \A r \in Reqs : reqErr'[r] = "conn" => reqErr[r] = "conn" \/ closed
    PROVE  ErrorClasses'
<1> USE DEF ErrorClasses
<1>1. ErrorReasons'
    BY DEF ErrorReasons
<1>2. LossIsConnectionError'
    BY DEF LossIsConnectionError, CloseOrder
<1>3. ConnectionErrorMeansClosed'
    BY DEF ConnectionErrorMeansClosed
<1>4. QED
    BY <1>1, <1>2, <1>3

(* The errors given to callers keep their reasons. *)
LEMMA ErrorClassesStep ==
    /\ TypeOK /\ CloseOrder /\ GenuineReplies /\ OneCopy /\ ErrorClasses
    /\ [Next]_vars
    => ErrorClasses'
<1> SUFFICES ASSUME TypeOK, CloseOrder, GenuineReplies, OneCopy, ErrorClasses, [Next]_vars
             PROVE  ErrorClasses'
    OBVIOUS
<1>0. /\ closed => closed'
      /\ \A r \in Reqs : reply[r] # "none" => reply'[r] = reply[r]
    BY Monotonic
<1>1. ASSUME NEW r \in Reqs, Caller(r) PROVE ErrorClasses'
  <2>0. UNCHANGED <<closed, closer, reply, reqErr>>
    BY <1>1, CallerFrame
  <2>1. ASSUME NEW a \in Answers, answer' = [answer EXCEPT ![r] = a],
               a \in {"connError", "torn"} => closed \/ (a = "connError" /\ reply[r] = "broken"),
               a = "clientError" => closer = "user",
               a = "timeout" => r \in Deadlined,
               a \in {"result", "serverError"} => reply[r] # "none",
               NEW to \in {"delete", "done"}, pc' = [pc EXCEPT ![r] = to]
        PROVE  ErrorClasses'
    BY <2>0, <2>1 DEF ErrorClasses, ErrorReasons, LossIsConnectionError,
                      ConnectionErrorMeansClosed, TypeOK
  <2>2. CASE Begin(r) \/ StorePending(r) \/ Enqueue(r) \/ DeletePending(r) \/ Expire(r)
    <3>1. answer' = answer /\ \A q \in Reqs : pc'[q] = "reread" => pc[q] = "reread"
      BY <2>2 DEF Begin, StorePending, Enqueue, DeletePending, Expire, TypeOK
    <3>2. QED
      BY <3>1, <2>0 DEF ErrorClasses, ErrorReasons, LossIsConnectionError,
                        ConnectionErrorMeansClosed
  <2>3. CASE Refuse(r)
    <3>1. PICK a \in {"closedError", "writerError"} : answer' = [answer EXCEPT ![r] = a]
      BY <2>3 DEF Refuse
    <3>2. QED
      BY <2>1, <2>3, <3>1 DEF Refuse, Answers
  <2>4. CASE SelectDeadline(r)
    <3>1. PICK a \in {"connError", "timeout"} :
             answer' = [answer EXCEPT ![r] = a] /\ (a = "connError" => closeErr = "io")
      BY <2>4 DEF SelectDeadline, CloseErrorOr
    <3>2. r \in expired /\ pc' = [pc EXCEPT ![r] = "delete"]
      BY <2>4 DEF SelectDeadline
    <3>3. a \in Answers /\ (a = "connError" => closed) /\ r \in Deadlined
      BY <3>1, <3>2 DEF CloseOrder, TypeOK, Answers
    <3>4. QED
      BY <2>1, <3>1, <3>2, <3>3
  <2>5. CASE SelectClosed(r)
    <3>1. PICK a \in {"connError", "clientError"} :
             answer' = [answer EXCEPT ![r] = a] /\ (a = "connError" <=> closeErr = "io")
      BY <2>5 DEF SelectClosed, CloseErrorOr
    <3>2. closed /\ (closeErr # "io" => closer = "user")
      BY <2>5 DEF SelectClosed, CloseOrder, TypeOK
    <3>3. pc' = [pc EXCEPT ![r] = "delete"]
      BY <2>5 DEF SelectClosed
    <3>4. a \in Answers
      BY <3>1 DEF Answers
    <3>5. QED
      BY <2>1, <3>1, <3>2, <3>3, <3>4
  <2>6. CASE SelectAnswered(r)
    <3>1. reqData[r] \in Replies /\ reqData[r] = reply[r]
      BY <2>6 DEF SelectAnswered, GenuineReplies, TypeOK
    <3>2. PICK a \in {"result", "serverError", "connError"} :
             answer' = [answer EXCEPT ![r] = a] /\ (a = "connError" => reply[r] = "broken")
      BY <2>6, <3>1 DEF SelectAnswered, ReplyAnswer
    <3>3. reply[r] # "none"
      BY <3>1
    <3>4. a \in Answers
      BY <3>2 DEF Answers
    <3>5. pc' = [pc EXCEPT ![r] = "delete"]
      BY <2>6 DEF SelectAnswered
    <3>6. QED
      BY <2>1, <3>2, <3>3, <3>4, <3>5
  <2>7. CASE SelectFailed(r)
    <3>1. closed
      BY <2>7 DEF SelectFailed, ErrorClasses, ErrorReasons
    <3>2. QED
      BY <2>0, <2>7, <3>1 DEF SelectFailed, ErrorClasses, ErrorReasons,
                              LossIsConnectionError, ConnectionErrorMeansClosed, TypeOK
  <2>8. CASE RereadError(r)
    <3>1. closed
      BY <2>8 DEF RereadError, ErrorClasses, ErrorReasons
    <3>2. PICK a \in {"connError", "torn"} : answer' = [answer EXCEPT ![r] = a]
      BY <2>8 DEF RereadError
    <3>3. pc' = [pc EXCEPT ![r] = "delete"]
      BY <2>8 DEF RereadError
    <3>4. a \in Answers
      BY <3>2 DEF Answers
    <3>5. QED
      BY <2>1, <3>1, <3>2, <3>3, <3>4
  <2>9. QED
    BY <1>1, <2>2, <2>3, <2>4, <2>5, <2>6, <2>7, <2>8 DEF Caller, Send
<1>2. CASE BeginCloseStep
  <2>1. \A r \in Reqs : reqErr'[r] = "conn" => reqErr[r] = "conn" \/ closed
    BY <1>2 DEF BeginCloseStep, StoreCloseErr, CloseDoneCh, CloseSocket, Visit, CloseOrder
  <2>2. QED
    BY <1>0, <1>2, <2>1, ErrorFrame, BeginCloseFrame
<1>3. CASE Writer \/ Reader \/ UserStep
  <2>1. UNCHANGED <<pc, answer>> /\ (closed => closer' = closer)
    BY <1>3, WriterFrame, ReaderFrame, UserFrame DEF Calls
  <2>2. \A r \in Reqs : reqErr'[r] = "conn" => reqErr[r] = "conn"
    <3>1. CASE Writer \/ UserStep
      BY <3>1, WriterFrame, UserFrame
    <3>2. CASE Reader
      BY <3>2 DEF Reader, CheckClosed, ReadData, ReadTimesOut, ReadFails, LoadPending,
                  Deliver, NextRead, ReaderExits, TypeOK
    <3>3. QED
      BY <1>3, <3>1, <3>2
  <2>3. QED
    BY <1>0, <2>1, <2>2, ErrorFrame
<1>4. CASE NetStep \/ UNCHANGED vars
  <2>1. UNCHANGED <<pc, answer, reqErr, closer>>
    BY <1>4, NetFrame
  <2>2. QED
    BY <1>0, <2>1, ErrorFrame
<1>5. QED
    BY <1>1, <1>2, <1>3, <1>4, OneProcess

-----------------------------------------------------------------------------
(* Only what the node has answered comes back, and to its own request.     *)
LEMMA GenuineRepliesStep ==
    TypeOK /\ OneCopy /\ GenuineReplies /\ [Next]_vars => GenuineReplies'
<1> SUFFICES ASSUME TypeOK, OneCopy, GenuineReplies, [Next]_vars PROVE GenuineReplies'
    OBVIOUS
<1> USE DEF GenuineReplies
<1>0. \A r \in Reqs : reply[r] # "none" => reply'[r] = reply[r]
    BY Monotonic
<1>1. ASSUME NEW r \in Reqs, Caller(r) PROVE GenuineReplies'
    BY <1>1, CallerFrame
<1>2. CASE BeginCloseStep
  <2>1. CASE StoreCloseErr \/ CloseDoneCh \/ CloseSocket
    BY <2>1, <1>2, BeginCloseFrame DEF StoreCloseErr, CloseDoneCh, CloseSocket
  <2>2. ASSUME NEW r \in Reqs, Visit(r) PROVE GenuineReplies'
    BY <2>2, <1>2, BeginCloseFrame DEF Visit, TypeOK
  <2>3. QED
    BY <1>2, <2>1, <2>2 DEF BeginCloseStep
<1>3. CASE Writer \/ UserStep
    BY <1>3, WriterFrame, UserFrame
<1>4. CASE Reader
  <2> USE DEF TypeOK
  <2>1. CASE CheckClosed \/ ReadTimesOut \/ ReadFails \/ NextRead \/ ReaderExits
    BY <2>1, <1>4, ReaderFrame DEF CheckClosed, ReadTimesOut, ReadFails, NextRead, ReaderExits
  <2>2. CASE ReadData
    <3>1. UNCHANGED <<reply, reqVars>>
      BY <2>2 DEF ReadData
    <3>2. PICK n \in 1..Len(inbox) : /\ acc' = SubSeq(inbox, 1, n)
                                     /\ inbox' = SubSeq(inbox, n + 1, Len(inbox))
      BY <2>2 DEF ReadData
    <3>3. \A i \in 1..Len(acc') : reply[acc'[i]] # "none"
      BY <3>2
    <3>4. \A i \in 1..Len(inbox') : reply[inbox'[i]] # "none"
      BY <3>2
    <3>5. QED
      BY <3>1, <3>3, <3>4
  <2>3. ASSUME acc # <<>> PROVE \A i \in 1..Len(Tail(acc)) : reply[Tail(acc)[i]] # "none"
    BY <2>3
  <2>4. CASE LoadPending
    <3>1. acc' = acc \/ (acc # <<>> /\ acc' = Tail(acc))
      BY <2>4 DEF LoadPending
    <3>2. QED
      BY <2>3, <2>4, <3>1 DEF LoadPending
  <2>5. CASE Deliver
    <3>1. acc # <<>> /\ acc' = Tail(acc) /\ UNCHANGED <<inbox, reply>>
      BY <2>5 DEF Deliver
    <3>2. Head(acc) \in Reqs /\ reply[Head(acc)] # "none"
      BY <3>1
    <3>3. QED
      BY <2>3, <2>5, <3>1, <3>2 DEF Deliver
  <2>6. QED
    BY <1>4, <2>1, <2>2, <2>4, <2>5 DEF Reader
<1>5. CASE NetStep
  <2>1. CASE ConnectionFails
    BY <2>1, <1>5, NetFrame DEF ConnectionFails
  <2>2. ASSUME NEW r \in Reqs, Serve(r) PROVE GenuineReplies'
    <3>1. UNCHANGED <<reqVars, acc>>
      BY <2>2 DEF Serve
    <3>2. reply'[r] # "none"
      BY <2>2 DEF Serve, TypeOK
    <3>3. \A i \in 1..Len(acc) : acc[i] \in Reqs
      BY DEF TypeOK
    <3>4. \A i \in 1..Len(inbox') : reply'[inbox'[i]] # "none"
      BY <1>0, <2>2, <3>2 DEF Serve, TypeOK
    <3>5. \A q \in Reqs : reqData[q] # "none" => reqData[q] = reply'[q]
      BY <1>0
    <3>6. QED
      BY <1>0, <3>1, <3>3, <3>4, <3>5
  <2>3. QED
    BY <1>5, <2>1, <2>2 DEF NetStep
<1>6. CASE UNCHANGED vars
    BY <1>6
<1>7. QED
    BY <1>1, <1>2, <1>3, <1>4, <1>5, <1>6, OneProcess

-----------------------------------------------------------------------------
(* Each request has one copy on its way to the node.                       *)
LEMMA OneCopyStep ==
    TypeOK /\ OneCopy /\ AnswerPlace /\ [Next]_vars => OneCopy'
<1> SUFFICES ASSUME TypeOK, OneCopy, AnswerPlace, [Next]_vars PROVE OneCopy'
    OBVIOUS
<1> USE DEF OneCopy
<1>1. ASSUME NEW r \in Reqs, Caller(r) PROVE OneCopy'
  <2>1. UNCHANGED <<wid, wbuf, wire, reply>>
    BY <1>1, CallerFrame
  <2>2. \A q \in Reqs : Queued(q) => Queued(q)'
    <3>1. CASE Begin(r) \/ Refuse(r) \/ StorePending(r) \/ Enqueue(r)
      BY <3>1 DEF Begin, Refuse, StorePending, Enqueue, Queued, Refused, TypeOK
    <3>2. CASE SelectFailed(r) \/ DeletePending(r) \/ Expire(r)
      BY <3>2 DEF SelectFailed, DeletePending, Expire, Queued, Refused, TypeOK
    <3>3. CASE SelectDeadline(r) \/ SelectClosed(r)
      BY <3>3 DEF SelectDeadline, SelectClosed, CloseErrorOr, Queued, Refused, TypeOK
    <3>4. CASE SelectAnswered(r)
      <4>1. ReplyAnswer(reqData[r]) \in Replies \cup {"none", "connError"}
        BY DEF ReplyAnswer, TypeOK
      <4>2. QED
        BY <3>4, <4>1 DEF SelectAnswered, Queued, Refused, TypeOK
    <3>5. CASE RereadError(r)
      BY <3>5 DEF RereadError, Queued, Refused, TypeOK
    <3>6. QED
      BY <1>1, <3>1, <3>2, <3>3, <3>4, <3>5 DEF Caller, Send
  <2>3. CASE queue' = queue
    BY <2>1, <2>2, <2>3 DEF TypeOK
  <2>4. CASE Enqueue(r)
    <3>1. queue' = Append(queue, r) /\ pc[r] = "enqueue"
      BY <2>4 DEF Enqueue
    <3>2. ~Queued(r) /\ Queued(r)'
      BY <2>4, <3>1 DEF Queued, Refused, Enqueue, AnswerPlace, TypeOK
    <3>3. r \notin {wid} \cup wbuf \cup wire /\ \A i \in 1..Len(queue) : queue[i] # r
      BY <3>2
    <3>4. reply[r] = "none"
      BY <3>2
    <3>5. QED
      BY <2>1, <2>2, <3>1, <3>2, <3>3, <3>4 DEF TypeOK
  <2>5. QED
    BY <1>1, <2>3, <2>4 DEF Caller, Send, Begin, Refuse, StorePending, SelectDeadline,
                SelectClosed, SelectAnswered, SelectFailed, RereadError, DeletePending, Expire
<1>2. CASE BeginCloseStep \/ UserStep \/ Reader
  <2>1. UNCHANGED <<pc, answer, queue, wid, wbuf, wire, reply>>
    BY <1>2, BeginCloseFrame, UserFrame, ReaderFrame
  <2>2. QED
    BY <2>1 DEF Queued, Refused
<1>3. CASE Writer
  <2>1. \A q \in Reqs : Queued(q) <=> Queued(q)'
    BY <1>3, WriterFrame DEF Queued, Refused
  <2>2. reply' = reply
    BY <1>3, WriterFrame
  <2>3. CASE TakeId
    <3>1. /\ queue # <<>> /\ wid' = Head(queue) /\ queue' = Tail(queue)
          /\ UNCHANGED <<wbuf, wire>>
      BY <2>3 DEF TakeId
    <3>2. Head(queue) = queue[1] /\ queue[1] \in Reqs /\ 1 \in 1..Len(queue)
      BY <3>1 DEF TypeOK
    <3>2a. PICK k \in Nat : Len(queue) = k + 1 /\ Len(queue') = k
      <4>1. /\ Len(queue) \in Nat /\ Len(Tail(queue)) \in Nat
            /\ Len(queue) = Len(Tail(queue)) + 1
        BY <3>1 DEF TypeOK
      <4>2. Len(queue') = Len(Tail(queue))
        BY <3>1, Zenon
      <4>3. QED
        BY <4>1, <4>2
    <3>3. \A i \in 1..k : i + 1 \in 1..Len(queue) /\ queue'[i] = queue[i + 1]
      <4>1. \A i \in 1..k : i + 1 \in 1..(k + 1)
        OBVIOUS
      <4>2. \A i \in 1..Len(Tail(queue)) : Tail(queue)[i] = queue[i + 1]
        BY <3>1 DEF TypeOK
      <4>3. QED
        BY <3>1, <3>2a, <4>1, <4>2, Zenon
    <3>4. \A i \in 1..k : queue'[i] # wid'
      <4>1. ASSUME NEW i \in 1..k, queue'[i] = wid' PROVE FALSE
        <5>1. queue[i + 1] = queue[1]
          BY <3>1, <3>2, <3>3, <4>1
        <5>2. i + 1 = 1
          BY <3>2, <3>3, <5>1
        <5>3. QED
          BY <5>2, <4>1
      <4>2. QED
        BY <4>1
    <3>5. \A i, j \in 1..k : queue'[i] = queue'[j] => i = j
      <4>1. ASSUME NEW i \in 1..k, NEW j \in 1..k, queue'[i] = queue'[j]
            PROVE  i = j
        <5>1. i + 1 = j + 1
          BY <3>3, <4>1
        <5>2. QED
          BY <5>1, <4>1
      <4>2. QED
        BY <4>1
    <3>6. \A i \in 1..k :
             /\ queue'[i] \notin wbuf \cup wire /\ reply[queue'[i]] = "none"
             /\ queue'[i] \in Reqs /\ Queued(queue'[i])
      BY <3>3 DEF TypeOK
    <3>7. wid' \in Reqs /\ wid' \notin wbuf \cup wire /\ reply[wid'] = "none" /\ Queued(wid')
      <4>1. wid' = queue[1] /\ queue[1] \in Reqs
        BY <3>1, <3>2
      <4>2. /\ queue[1] \notin {wid} \cup wbuf \cup wire
            /\ reply[queue[1]] = "none" /\ Queued(queue[1])
        BY <3>2
      <4>3. QED
        BY <4>1, <4>2
    <3>8. QED
      BY <2>1, <2>2, <3>1, <3>2a, <3>4, <3>5, <3>6, <3>7 DEF TypeOK
  <2>4. CASE LoadRequest \/ WriterExits
    <3>1. UNCHANGED <<queue, wbuf, wire>> /\ wid' \in {wid, NoReq}
      BY <2>4 DEF LoadRequest, WriterExits
    <3>2. \A i \in 1..Len(queue) : queue[i] \in Reqs
      BY DEF TypeOK
    <3>3. QED
      BY <2>1, <2>2, <3>1, <3>2 DEF TypeOK
  <2>5. CASE Write \/ WriteFails
    <3>1. wid \in Reqs /\ wid' = NoReq /\ queue' = queue
      BY <2>5 DEF Write, WriteFails, TypeOK
    <3>2. PICK out \in SUBSET (wbuf \cup {wid}) : /\ wbuf' \subseteq (wbuf \cup {wid}) \ out
                                               /\ wire' \subseteq wire \cup out
      BY <2>5 DEF Write, WriteFails, Outgoing
    <3>3. \A i \in 1..Len(queue) : queue[i] \in Reqs /\ queue[i] \notin {wid} \cup wbuf \cup wire
      BY DEF TypeOK
    <3>4. \A r \in wbuf' \cup wire' : r \in Reqs /\ r \in {wid} \cup wbuf \cup wire
      BY <3>1, <3>2 DEF TypeOK
    <3>5. wbuf' \cap wire' = {}
      BY <3>1, <3>2
    <3>6. \A i \in 1..Len(queue') : queue'[i] \notin {wid'} \cup wbuf' \cup wire'
      BY <3>1, <3>3, <3>4
    <3>7. QED
      BY <2>1, <2>2, <3>1, <3>3, <3>4, <3>5, <3>6
  <2>6. QED
    BY <1>3, <2>3, <2>4, <2>5 DEF Writer
<1>4. CASE NetStep
  <2>1. UNCHANGED <<pc, answer, queue, wid, wbuf>>
    BY <1>4, NetFrame
  <2>2. CASE ConnectionFails
    BY <2>1, <2>2 DEF ConnectionFails, Queued, Refused
  <2>3. ASSUME NEW r \in Reqs, Serve(r) PROVE OneCopy'
    <3>1. /\ r \in wire /\ wire' = wire \ {r}
          /\ \A q \in Reqs : q # r => reply'[q] = reply[q]
      BY <2>3 DEF Serve, TypeOK
    <3>2. \A q \in Reqs : Queued(q) <=> Queued(q)'
      BY <2>1 DEF Queued, Refused
    <3>3. \A i \in 1..Len(queue) : queue[i] \in Reqs /\ queue[i] # r
      BY <3>1 DEF TypeOK
    <3>4. r # wid /\ r \notin wbuf /\ Queued(r)
      BY <3>1
    <3>5. QED
      BY <2>1, <3>1, <3>2, <3>3, <3>4 DEF TypeOK
  <2>4. QED
    BY <1>4, <2>2, <2>3 DEF NetStep
<1>5. CASE UNCHANGED vars
    BY <1>5 DEF Queued, Refused
<1>6. QED
    BY <1>1, <1>2, <1>3, <1>4, <1>5, OneProcess

-----------------------------------------------------------------------------
(* The channel starts with variables of their types (createTcpChannel). *)
LEMMA InitType == Init => TypeOK
<1> SUFFICES ASSUME Init PROVE TypeOK
    OBVIOUS
<1>1. /\ closed \in BOOLEAN /\ doneCh \in BOOLEAN
      /\ sockOpen \in BOOLEAN /\ peerUp \in BOOLEAN
    BY Zenon DEF Init
<1>2. /\ queue \in Seq(Reqs) /\ Len(queue) <= QueueCap
      /\ acc \in Seq(Reqs) /\ inbox \in Seq(Reqs)
    BY DEF Init
<1>3. /\ reqErr \in [Reqs -> {"nil", "conn"}] /\ reqDone \in [Reqs -> BOOLEAN]
      /\ reqData \in [Reqs -> Replies \cup {"none"}] /\ answer \in [Reqs -> Answers]
      /\ reply \in [Reqs -> Replies \cup {"none"}]
    BY DEF Init, Answers
<1>4. QED
    BY <1>1, <1>2, <1>3 DEF Init, TypeOK

(* The variables of the channel keep their types (tcpChannel and           *)
(* pendingRequest, the places of the goroutines, the network).             *)
THEOREM TypeCorrect == Spec => []TypeOK
<1>1. QED
    BY InitType, TypeStep, PTL DEF Spec

(* The inductive invariant holds. *)
THEOREM Invariance == Spec => []Inv
<1>1. Init => Inv
  <2> SUFFICES ASSUME Init PROVE Inv
    OBVIOUS
  <2>1. TypeOK
    BY InitType
  <2>2. CloseOrder /\ ClosersPast
    BY DEF Init, CloseOrder, ClosersPast
  <2>3. /\ AnswerPlace /\ ErrorReasons /\ PendingIsInFlight
        /\ LossIsConnectionError /\ ConnectionErrorMeansClosed
    BY DEF Init, AnswerPlace, ErrorReasons, PendingIsInFlight, LossIsConnectionError,
           ConnectionErrorMeansClosed
  <2>4. OneCopy /\ GenuineReplies
    BY DEF Init, OneCopy, GenuineReplies
  <2>5. QED
    BY <2>1, <2>2, <2>3, <2>4 DEF Inv
<1>2. Inv /\ [Next]_vars => Inv'
    BY TypeStep, CloseOrderStep, ClosersPastStep, AnswerPlaceStep, PendingStep,
       ErrorClassesStep, GenuineRepliesStep, OneCopyStep DEF Inv, ErrorClasses
<1>3. QED
    BY <1>1, <1>2, PTL DEF Spec

(* A connection lost by an I/O error is never reported as a plain          *)
(* ClientError (processCloseError, beginClose).                            *)
THEOREM LossReported == Spec => []LossIsConnectionError
<1>1. Inv => LossIsConnectionError
    BY DEF Inv
<1>2. QED
    BY <1>1, Invariance, PTL

(* A ClientConnectionError is given only on a closed channel, or for a     *)
(* response that cannot be decoded (send0).                                *)
THEOREM ErrorMeansClosed == Spec => []ConnectionErrorMeansClosed
<1>1. Inv => ConnectionErrorMeansClosed
    BY DEF Inv
<1>2. QED
    BY <1>1, Invariance, PTL

(* pendingRequests does not leak (send0, beginClose). *)
THEOREM PendingBounded == Spec => []PendingIsInFlight
<1>1. Inv => PendingIsInFlight
    BY DEF Inv
<1>2. QED
    BY <1>1, Invariance, PTL

(* When close returns both loops are gone, the socket is closed and every  *)
(* waiting caller can leave, whoever ran beginClose.                       *)
THEOREM CloseCompletes == Spec => []CloseIsComplete
<1>1. Inv => CloseIsComplete
  <2> SUFFICES ASSUME Inv, upc = "returned"
               PROVE  LoopsExited /\ closed /\ ~sockOpen /\ doneCh
    BY DEF CloseIsComplete
  <2>1. LoopsExited /\ closed
    BY DEF Inv, ClosersPast
  <2>2. CloseReturned("writer") /\ CloseReturned("reader") /\ CloseReturned("user")
    BY <2>1 DEF Inv, ClosersPast, LoopsExited
  <2>3. closer \in {"writer", "reader", "user"}
    BY <2>1 DEF Inv, CloseOrder, TypeOK
  <2>4. bpc = "done"
    BY <2>2, <2>3 DEF CloseReturned
  <2>5. QED
    BY <2>1, <2>4 DEF Inv, CloseOrder
<1>2. QED
    BY <1>1, Invariance, PTL

-----------------------------------------------------------------------------
(* TcpChannel implements RequestChannel.                                   *)

(* A request keeps its fate while its answer and its being idle stay.      *)
LEMMA SameFate ==
    ASSUME NEW r \in Reqs, answer'[r] = answer[r], pc'[r] = "idle" <=> pc[r] = "idle"
    PROVE  Fate(r)' = Fate(r)
BY DEF Fate

(* A step that answers one request changes the fate of that request only.  *)
LEMMA FateChange ==
    ASSUME TypeOK, NEW r \in Reqs, NEW a, NEW p,
           answer' = [answer EXCEPT ![r] = a], pc' = [pc EXCEPT ![r] = p],
           NEW old, NEW new, Fate(r) = old, Fate(r)' = new
    PROVE  /\ [q \in Reqs |-> Fate(q)][r] = old
           /\ [q \in Reqs |-> Fate(q)]' = [[q \in Reqs |-> Fate(q)] EXCEPT ![r] = new]
<1>1. \A q \in Reqs : q # r => Fate(q)' = Fate(q)
    BY SameFate DEF TypeOK
<1>2. QED
    BY <1>1

(* Every step of the channel is a step of what it promises, or changes     *)
(* nothing of it.                                                          *)
LEMMA PromiseStep == Inv /\ [Next]_vars => [Promise!Next]_(Promise!vars)
<1> SUFFICES ASSUME Inv, [Next]_vars PROVE [Promise!Next]_(Promise!vars)
    OBVIOUS
<1> DEFINE F == [q \in Reqs |-> Fate(q)]
<1>t. TypeOK
    BY DEF Inv
<1>s. ASSUME UNCHANGED <<answer, reply, closed>>,
             \A q \in Reqs : pc'[q] = "idle" <=> pc[q] = "idle"
      PROVE  UNCHANGED Promise!vars
  <2>1. \A q \in Reqs : Fate(q)' = Fate(q)
    BY <1>s, SameFate
  <2>2. Executed' = Executed
    BY <1>s DEF Executed
  <2>3. QED
    BY <1>s, <2>1, <2>2 DEF Promise!vars
<1>1. ASSUME NEW r \in Reqs, Caller(r) PROVE [Promise!Next]_(Promise!vars)
  <2>1. Executed' = Executed /\ closed' = closed
    BY <1>1, CallerFrame DEF Executed
  <2>2. CASE Begin(r)
    <3>1. Fate(r) = "new" /\ Fate(r)' = "sent"
      BY <2>2 DEF Begin, Fate, Inv, AnswerPlace, TypeOK
    <3>2. F[r] = "new" /\ F' = [F EXCEPT ![r] = "sent"]
      <4>1. answer' = [answer EXCEPT ![r] = answer[r]]
        BY <2>2 DEF Begin, TypeOK, Inv
      <4>2. QED
        BY <1>t, <2>2, <3>1, <4>1, FateChange DEF Begin
    <3>3. Promise!Submit(r)
      BY <2>1, <2>2, <3>2 DEF Promise!Submit, Promise!Become, Begin
    <3>4. QED
      BY <3>3 DEF Promise!Next
  <2>3. CASE Refuse(r)
    <3>1. PICK a \in {"closedError", "writerError"} : answer' = [answer EXCEPT ![r] = a]
      BY <2>3 DEF Refuse
    <3>2. Fate(r) = "new" /\ Fate(r)' = "refused"
      BY <2>3, <3>1, <1>t DEF Refuse, Fate, Inv, AnswerPlace, TypeOK
    <3>3. F[r] = "new" /\ F' = [F EXCEPT ![r] = "refused"]
      BY <1>t, <2>3, <3>1, <3>2, FateChange DEF Refuse
    <3>4. Promise!Refuse(r)
      BY <2>1, <3>3 DEF Promise!Refuse, Promise!Become
    <3>5. QED
      BY <3>4 DEF Promise!Next
  <2>4. CASE StorePending(r) \/ Enqueue(r) \/ SelectFailed(r) \/ DeletePending(r) \/ Expire(r)
    <3>1. UNCHANGED answer /\ \A q \in Reqs : pc'[q] = "idle" <=> pc[q] = "idle"
      BY <2>4, <1>t DEF StorePending, Enqueue, SelectFailed, DeletePending, Expire, TypeOK
    <3>2. reply' = reply
      BY <1>1, CallerFrame
    <3>3. QED
      BY <1>s, <2>1, <3>1, <3>2
  <2>5. ASSUME NEW a \in Answers \ {"none", "writerError", "closedError"},
               answer' = [answer EXCEPT ![r] = a],
               pc[r] \in {"select", "reread"}, pc' = [pc EXCEPT ![r] = "delete"],
               a \in {"result", "serverError"} => reply[r] # "none",
               a = "timeout" => r \in Deadlined,
               a \in {"connError", "clientError", "torn"} => closed \/ reply[r] # "none"
        PROVE  [Promise!Next]_(Promise!vars)
    <3>1. answer[r] = "none" /\ answer'[r] = a /\ Fate(r) = "sent"
      BY <1>t, <2>5 DEF Fate, Inv, AnswerPlace, TypeOK
    <3>2. CASE a \in {"result", "serverError"}
      <4>1. Fate(r)' = "replied"
        BY <3>1, <3>2 DEF Fate
      <4>2. F[r] = "sent" /\ F' = [F EXCEPT ![r] = "replied"]
        BY <1>t, <2>5, <3>1, <4>1, FateChange
      <4>3. Promise!Reply(r)
        BY <2>1, <2>5, <3>2, <4>2 DEF Promise!Reply, Promise!Become, Executed
      <4>4. QED
        BY <4>3 DEF Promise!Next
    <3>3. CASE a = "timeout"
      <4>1. Fate(r)' = "timedOut"
        BY <3>1, <3>3 DEF Fate
      <4>2. F[r] = "sent" /\ F' = [F EXCEPT ![r] = "timedOut"]
        BY <1>t, <2>5, <3>1, <4>1, FateChange
      <4>3. Promise!TimeOut(r)
        BY <2>1, <2>5, <3>3, <4>2 DEF Promise!TimeOut, Promise!Become
      <4>4. QED
        BY <4>3 DEF Promise!Next
    <3>4. CASE a \in {"connError", "clientError", "torn"}
      <4>1. Fate(r)' = "lost"
        BY <3>1, <3>4 DEF Fate
      <4>2. F[r] = "sent" /\ F' = [F EXCEPT ![r] = "lost"]
        BY <1>t, <2>5, <3>1, <4>1, FateChange
      <4>3. Promise!Lose(r)
        BY <2>1, <2>5, <3>4, <4>2 DEF Promise!Lose, Promise!Become, Executed
      <4>4. QED
        BY <4>3 DEF Promise!Next
    <3>5. QED
      BY <3>2, <3>3, <3>4 DEF Answers
  <2>6. CASE SelectDeadline(r)
    <3>1. PICK a \in {"connError", "timeout"} :
             answer' = [answer EXCEPT ![r] = a] /\ (a = "connError" => closeErr = "io")
      BY <2>6 DEF SelectDeadline, CloseErrorOr
    <3>2. (a = "connError" => closed) /\ r \in Deadlined
      BY <2>6, <3>1, <1>t DEF SelectDeadline, Inv, CloseOrder, TypeOK
    <3>3. QED
      BY <2>5, <2>6, <3>1, <3>2 DEF SelectDeadline, Answers
  <2>7. CASE SelectClosed(r)
    <3>1. PICK a \in {"connError", "clientError"} : answer' = [answer EXCEPT ![r] = a]
      BY <2>7 DEF SelectClosed, CloseErrorOr
    <3>2. closed
      BY <2>7, <1>t DEF SelectClosed, Inv, CloseOrder
    <3>3. QED
      BY <2>5, <2>7, <3>1, <3>2 DEF SelectClosed, Answers
  <2>8. CASE SelectAnswered(r)
    <3>1. reqData[r] \in Replies /\ reply[r] # "none"
      BY <2>8, <1>t DEF SelectAnswered, Inv, GenuineReplies, TypeOK
    <3>2. PICK a \in {"result", "serverError", "connError"} : answer' = [answer EXCEPT ![r] = a]
      BY <2>8, <3>1 DEF SelectAnswered, ReplyAnswer
    <3>3. QED
      BY <2>5, <2>8, <3>1, <3>2 DEF SelectAnswered, Answers
  <2>9. CASE RereadError(r)
    <3>1. PICK a \in {"connError", "torn"} : answer' = [answer EXCEPT ![r] = a]
      BY <2>9 DEF RereadError
    <3>2. closed
      BY <2>9 DEF RereadError, Inv, ErrorReasons
    <3>3. QED
      BY <2>5, <2>9, <3>1, <3>2 DEF RereadError, Answers
  <2>10. QED
    BY <1>1, <2>2, <2>3, <2>4, <2>6, <2>7, <2>8, <2>9 DEF Caller, Send
<1>2. CASE BeginCloseStep \/ UNCHANGED vars
    BY <1>2, <1>s, BeginCloseFrame
<1>3. CASE Writer \/ Reader \/ UserStep
  <2>1. UNCHANGED <<pc, answer, reply>>
    BY <1>3, WriterFrame, ReaderFrame, UserFrame
  <2>2. F' = F /\ Executed' = Executed
    BY <2>1, SameFate DEF Executed
  <2>3. CASE UNCHANGED closeVars
    BY <1>s, <2>1, <2>3
  <2>4. CASE ~closed /\ closed' = TRUE
    <3>1. Promise!Close
      BY <2>2, <2>4 DEF Promise!Close
    <3>2. QED
      BY <3>1 DEF Promise!Next
  <2>5. QED
    BY <1>3, <2>3, <2>4, WriterFrame, ReaderFrame, UserFrame DEF Calls
<1>4. CASE NetStep
  <2>1. UNCHANGED <<pc, answer, closed>>
    BY <1>4, NetFrame
  <2>2. CASE ConnectionFails
    BY <1>s, <2>1, <2>2 DEF ConnectionFails
  <2>3. ASSUME NEW r \in Reqs, Serve(r) PROVE [Promise!Next]_(Promise!vars)
    <3>1. F' = F
      BY <2>1, SameFate
    <3>2. reply[r] = "none" /\ Queued(r)
      BY <2>3 DEF Serve, Inv, OneCopy
    <3>3. Executed' = Executed \cup {r} /\ r \notin Executed
      BY <1>t, <2>3, <3>2 DEF Serve, Executed, TypeOK
    <3>4. Fate(r) \in {"sent", "timedOut", "lost"}
      <4>1. answer[r] \notin {"result", "serverError"}
        BY <3>2 DEF Inv, ErrorReasons
      <4>2. pc[r] # "idle" /\ answer[r] \in Answers \ {"writerError", "closedError"}
        BY <1>t, <3>2 DEF Queued, Refused, TypeOK
      <4>3. QED
        BY <4>1, <4>2 DEF Fate, Answers
    <3>5. F[r] \in {"sent", "timedOut", "lost"}
      BY <3>4
    <3>6. Promise!Execute(r)
      BY <2>1, <3>1, <3>3, <3>5 DEF Promise!Execute
    <3>7. QED
      BY <3>6 DEF Promise!Next
  <2>4. QED
    BY <1>4, <2>2, <2>3 DEF NetStep
<1>5. QED
    BY <1>1, <1>2, <1>3, <1>4, OneProcess

(* send0, the two loops and beginClose together keep the promise of        *)
(* RequestChannel.                                                         *)
THEOREM Refinement == Spec => KeepsPromise
<1>1. Init => Promise!Init
  <2> SUFFICES ASSUME Init PROVE Promise!Init
    OBVIOUS
  <2>1. \A r \in Reqs : Fate(r) = "new"
    BY DEF Init, Fate
  <2>2. Executed = {}
    BY DEF Init, Executed
  <2>3. QED
    BY <2>1, <2>2 DEF Init, Promise!Init
<1>2. Inv /\ [Next]_vars => [Promise!Next]_(Promise!vars)
    BY PromiseStep
<1>3. QED
    BY <1>1, <1>2, Invariance, PTL DEF Spec, KeepsPromise, Promise!Spec
=============================================================================
