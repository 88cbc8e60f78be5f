---------------------------- MODULE ServerProofs ----------------------------
(***************************************************************************)
(* Theorems about Server, for every set of batches.                        *)
(*                                                                         *)
(* Everything depends on who waits for whom: the loop waits for the        *)
(* processing threads it launched, each of them for the thread it detached.*)
(* ServerInvariant says how far a thread can be for each statement of the  *)
(* loop, and that a value on its way, from the handler over the promise and*)
(* the future to the response, is the answer to its request.               *)
(***************************************************************************)
EXTENDS Server, SequenceTheorems, TLAPS

\* The requests exist for as long as the body of the loop runs.
RequestsOwned ==
    /\ request = <<>> <=> loop = "prepare"
    /\ loop \in {"prepare", "sleep"} => turn = 1

\* The processing threads that were launched and not yet waited for.
Launched(i) ==
    \/ loop = "launch" /\ i < turn
    \/ loop = "get" /\ i >= turn

ThreadsLaunched == \A i \in Both : async[i] # "none" <=> Launched(i)

\* A detached thread works for a frame of dispatch that waits for it.
HandlersAwaited ==
    \A i \in Both :
        /\ handler[i] # "none" => async[i] = "wait" /\ promise[i] = NoResponse
        /\ async[i] = "wait" => request[i].serviceMethod \in DOMAIN methods

\* A value is there when the thread before has left it, and it is the answer.
ValuesAnswer ==
    \A i \in Both :
        /\ handler[i] = "set" => answered[i] = Answer(request[i])
        /\ promise[i] # NoResponse =>
              async[i] = "wait" /\ promise[i] = Answer(request[i])
        /\ future[i] # NoResponse => async[i] = "finished"
        /\ async[i] = "finished" => future[i] = Answer(request[i])
        /\ loop = "get" /\ i < turn => response[i] = Answer(request[i])
        /\ loop = "send" => response[i] = Answer(request[i])

SentCounted ==
    /\ loop \in {"launch", "get"} => Len(sent) = 0
    /\ loop = "send" => Len(sent) = turn - 1
    /\ loop = "sleep" => Len(sent) = 2

\* Whichever of the threads is faster, what is sent answers the requests of
\* the iteration, one by one in their order, and none is left out
\* (receiveFromDDS, sendByDDS).
RepliesAnswerInOrder ==
    /\ request # <<>> => \A k \in 1 .. Len(sent) : sent[k] = Answer(request[k])
    /\ loop = "sleep" => Len(sent) = 2

\* Between two iterations no thread of the last one is left that could meet
\* a thread of the next: the futures were waited for, and each thread
\* waited for the one it detached.
NothingLeftBehind ==
    loop = "prepare" =>
        /\ \A i \in Both : async[i] = "none" /\ handler[i] = "none"
        /\ future = Nothing /\ promise = Nothing

ServerInvariant ==
    /\ TypeOK
    /\ RequestsOwned
    /\ ThreadsLaunched
    /\ HandlersAwaited
    /\ ValuesAnswer
    /\ SentCounted
    /\ RepliesAnswerInOrder

-----------------------------------------------------------------------------

\* The absent response is not a response.
LEMMA NoResponseIsNone == NoResponse \notin Response
BY DEF NoResponse, Response

\* An iteration has two requests.
LEMMA BatchHasTwo ==
    ASSUME NEW b \in Batches
    PROVE  /\ b # <<>> /\ Len(b) = 2 /\ b \in Seq(Request)
           /\ \A i \in Both : b[i] \in Request
<1>1. PICK a1 \in Request, a2 \in Request : b = <<a1, a2>>
  BY BatchesAssumption
<1>2. b # <<>> /\ Len(b) = 2 /\ b \in Seq(Request)
  BY <1>1
<1>3. b[1] \in Request /\ b[2] \in Request
  BY <1>1
<1> QED
  BY <1>2, <1>3 DEF Both

\* The answer to a request is a response, and for a method in the table it is
\* the one the handler returns.
LEMMA AnswerIsResponse ==
    ASSUME NEW req \in Request
    PROVE  /\ Answer(req) \in Response
           /\ req.serviceMethod \in DOMAIN methods => Answer(req) = handle(req)
           /\ req.serviceMethod \notin DOMAIN methods => Answer(req) = NotFound
<1>1. CASE req.serviceMethod \in DOMAIN methods
  <2>1. methods[req.serviceMethod].body \in Bodies
    BY <1>1 DEF methods, Bodies
  <2>2. Answer(req) = handle(req)
    BY <1>1 DEF Answer, handle
  <2>3. handle(req) \in Response
    BY <2>1 DEF handle, Response, Request, STATUS_SUCCESS, STATUS_ERROR
  <2> QED
    BY <1>1, <2>2, <2>3
<1>2. CASE req.serviceMethod \notin DOMAIN methods
  BY <1>2 DEF Answer, NotFound, Response, Bodies, STATUS_NOT_FOUND
<1> QED
  BY <1>1, <1>2

LEMMA InitEstablishes == Init => ServerInvariant
<1> SUFFICES ASSUME Init PROVE ServerInvariant
  OBVIOUS
<1>1. TypeOK
  BY DEF Init, TypeOK, Both, Nothing
<1>2. RequestsOwned /\ SentCounted /\ RepliesAnswerInOrder
  BY DEF Init, RequestsOwned, SentCounted, RepliesAnswerInOrder
<1>3. ThreadsLaunched /\ HandlersAwaited /\ ValuesAnswer
  BY DEF Init, ThreadsLaunched, Launched, HandlersAwaited, ValuesAnswer, Both,
         Nothing, NoResponse
<1> QED
  BY <1>1, <1>2, <1>3 DEF ServerInvariant

-----------------------------------------------------------------------------
(* The detached threads.  What they may use is there, by HandlersAwaited.  *)

LEMMA CallHandlerPreserves ==
    ASSUME ServerInvariant, NEW i \in Both, CallHandler(i)
    PROVE  ServerInvariant'
<1> USE DEF ServerInvariant
<1>1. async[i] = "wait" /\ request \in Batches /\ request[i] \in Request
  BY BatchHasTwo DEF CallHandler, HandlersAwaited, ThreadsLaunched, Launched,
     RequestsOwned, TypeOK
<1>2. handle(request[i]) = Answer(request[i]) /\ handle(request[i]) \in Response
  BY <1>1, AnswerIsResponse DEF HandlersAwaited
<1>3. TypeOK'
  BY <1>2 DEF CallHandler, TypeOK, loopVars
<1>4. /\ RequestsOwned' /\ ThreadsLaunched' /\ HandlersAwaited'
      /\ SentCounted' /\ RepliesAnswerInOrder'
  BY DEF CallHandler, TypeOK, loopVars, RequestsOwned, ThreadsLaunched, Launched,
     HandlersAwaited, SentCounted, RepliesAnswerInOrder
<1>5. ValuesAnswer'
  BY <1>2 DEF CallHandler, TypeOK, loopVars, ValuesAnswer
<1> QED
  BY <1>3, <1>4, <1>5

LEMMA SetValuePreserves ==
    ASSUME ServerInvariant, NEW i \in Both, SetValue(i)
    PROVE  ServerInvariant'
<1> USE DEF ServerInvariant
<1>1. async[i] = "wait" /\ answered[i] = Answer(request[i])
  BY DEF SetValue, HandlersAwaited, ValuesAnswer
<1>2. TypeOK'
  BY DEF SetValue, TypeOK, loopVars
<1>3. /\ RequestsOwned' /\ ThreadsLaunched' /\ HandlersAwaited'
      /\ SentCounted' /\ RepliesAnswerInOrder'
  BY DEF SetValue, TypeOK, loopVars, RequestsOwned, ThreadsLaunched, Launched,
     HandlersAwaited, SentCounted, RepliesAnswerInOrder
<1>4. ValuesAnswer'
  BY <1>1 DEF SetValue, TypeOK, loopVars, ValuesAnswer
<1> QED
  BY <1>2, <1>3, <1>4

-----------------------------------------------------------------------------
(* The processing threads.                                                 *)

LEMMA DispatchFoundPreserves ==
    ASSUME ServerInvariant, NEW i \in Both, DispatchFound(i)
    PROVE  ServerInvariant'
<1> USE DEF ServerInvariant
<1>1. TypeOK'
  BY DEF DispatchFound, TypeOK, loopVars
<1>2. /\ RequestsOwned' /\ ThreadsLaunched' /\ SentCounted' /\ RepliesAnswerInOrder'
  BY DEF DispatchFound, TypeOK, loopVars, RequestsOwned, ThreadsLaunched, Launched,
     SentCounted, RepliesAnswerInOrder
<1>3. HandlersAwaited'
  BY DEF DispatchFound, TypeOK, loopVars, HandlersAwaited
<1>4. ValuesAnswer'
  BY DEF DispatchFound, TypeOK, loopVars, ValuesAnswer
<1> QED
  BY <1>1, <1>2, <1>3, <1>4

LEMMA DispatchNotFoundPreserves ==
    ASSUME ServerInvariant, NEW i \in Both, DispatchNotFound(i)
    PROVE  ServerInvariant'
<1> USE DEF ServerInvariant
<1>1. request \in Batches /\ request[i] \in Request
  BY BatchHasTwo DEF DispatchNotFound, ThreadsLaunched, Launched, RequestsOwned, TypeOK
<1>2. Answer(request[i]) = NotFound /\ NotFound \in Response
  BY <1>1, AnswerIsResponse DEF DispatchNotFound
<1>3. TypeOK'
  BY <1>2 DEF DispatchNotFound, TypeOK, loopVars
<1>4. /\ RequestsOwned' /\ ThreadsLaunched' /\ HandlersAwaited'
      /\ SentCounted' /\ RepliesAnswerInOrder'
  BY DEF DispatchNotFound, TypeOK, loopVars, RequestsOwned, ThreadsLaunched, Launched,
     HandlersAwaited, SentCounted, RepliesAnswerInOrder
<1>5. ValuesAnswer'
  BY <1>2 DEF DispatchNotFound, TypeOK, loopVars, ValuesAnswer
<1> QED
  BY <1>3, <1>4, <1>5

\* The frame of dispatch may go: its promise is set, so the detached thread has
\* done its work.
LEMMA ReturnPreserves ==
    ASSUME ServerInvariant, NEW i \in Both, ReturnFromDispatch(i)
    PROVE  ServerInvariant'
<1> USE DEF ServerInvariant
<1>1. promise[i] = Answer(request[i]) /\ handler[i] = "none"
  BY DEF ReturnFromDispatch, IsSet, HandlersAwaited, ValuesAnswer, TypeOK
<1>2. TypeOK'
  BY DEF ReturnFromDispatch, TypeOK, loopVars
<1>3. /\ RequestsOwned' /\ ThreadsLaunched' /\ HandlersAwaited'
      /\ SentCounted' /\ RepliesAnswerInOrder'
  BY <1>1 DEF ReturnFromDispatch, TypeOK, loopVars, RequestsOwned, ThreadsLaunched,
     Launched, HandlersAwaited, SentCounted, RepliesAnswerInOrder
<1>4. ValuesAnswer'
  BY <1>1 DEF ReturnFromDispatch, TypeOK, loopVars, ValuesAnswer
<1> QED
  BY <1>2, <1>3, <1>4

-----------------------------------------------------------------------------
(* The loop.                                                               *)

LEMMA PreparePreserves ==
    ASSUME ServerInvariant, Prepare
    PROVE  ServerInvariant'
<1> USE DEF ServerInvariant
<1>1. request' # <<>> /\ \A i \in Both : async[i] = "none" /\ handler[i] = "none"
  BY BatchHasTwo DEF Prepare, ThreadsLaunched, Launched, HandlersAwaited, TypeOK
<1>2. TypeOK'
  BY DEF Prepare, TypeOK
<1>3. /\ RequestsOwned' /\ ThreadsLaunched' /\ HandlersAwaited'
      /\ SentCounted' /\ RepliesAnswerInOrder'
  BY <1>1 DEF Prepare, TypeOK, RequestsOwned, ThreadsLaunched, Launched, Both,
     HandlersAwaited, SentCounted, RepliesAnswerInOrder
<1>4. ValuesAnswer'
  BY <1>1 DEF Prepare, TypeOK, ValuesAnswer, HandlersAwaited, Both
<1> QED
  BY <1>2, <1>3, <1>4

LEMMA LaunchPreserves ==
    ASSUME ServerInvariant, Launch
    PROVE  ServerInvariant'
<1> USE DEF ServerInvariant
<1>1. async[turn] = "none" /\ handler[turn] = "none" /\ turn \in Both
  BY DEF Launch, ThreadsLaunched, Launched, HandlersAwaited, TypeOK, Both
<1>2. TypeOK'
  BY DEF Launch, Advance, TypeOK, Both
<1>3. RequestsOwned' /\ ThreadsLaunched' /\ SentCounted' /\ RepliesAnswerInOrder'
  BY DEF Launch, Advance, TypeOK, RequestsOwned, ThreadsLaunched, Launched, Both,
     SentCounted, RepliesAnswerInOrder
<1>4. HandlersAwaited' /\ ValuesAnswer'
  BY <1>1 DEF Launch, Advance, TypeOK, HandlersAwaited, ValuesAnswer, Both
<1> QED
  BY <1>2, <1>3, <1>4

LEMMA GetPreserves ==
    ASSUME ServerInvariant, Get
    PROVE  ServerInvariant'
<1> USE DEF ServerInvariant
<1>1. /\ turn \in Both /\ handler[turn] = "none"
      /\ future[turn] = Answer(request[turn])
  BY DEF Get, Finished, HandlersAwaited, ValuesAnswer, TypeOK
<1>2. TypeOK'
  BY DEF Get, Advance, TypeOK, Both
<1>3. RequestsOwned' /\ ThreadsLaunched' /\ SentCounted' /\ RepliesAnswerInOrder'
  BY DEF Get, Advance, TypeOK, RequestsOwned, ThreadsLaunched, Launched, Both,
     SentCounted, RepliesAnswerInOrder
<1>4. HandlersAwaited'
  BY <1>1 DEF Get, Finished, Advance, TypeOK, HandlersAwaited, Both
<1>5. ValuesAnswer'
  BY <1>1 DEF Get, Finished, Advance, TypeOK, ValuesAnswer, Both
<1> QED
  BY <1>2, <1>3, <1>4, <1>5

LEMMA SendPreserves ==
    ASSUME ServerInvariant, Send
    PROVE  ServerInvariant'
<1> USE DEF ServerInvariant
<1>1. request \in Batches /\ request[turn] \in Request /\ turn \in Both
  BY BatchHasTwo DEF Send, RequestsOwned, TypeOK
<1>2. response[turn] = Answer(request[turn]) /\ response[turn] \in Response
  BY <1>1, AnswerIsResponse DEF Send, ValuesAnswer
<1>3. sent' = Append(sent, Answer(request[turn])) /\ Len(sent) = turn - 1
  BY <1>2 DEF Send, Outgoing, SentCounted
<1>4. sent' \in Seq(Response) /\ Len(sent') = turn
  BY <1>2, <1>3 DEF TypeOK, Both
<1>5. TypeOK' /\ SentCounted'
  BY <1>4 DEF Send, Advance, TypeOK, SentCounted, Both
<1>6. RequestsOwned' /\ ThreadsLaunched' /\ HandlersAwaited'
  BY DEF Send, Advance, TypeOK, RequestsOwned, ThreadsLaunched, Launched,
     HandlersAwaited, Both
<1>7. ValuesAnswer'
  BY DEF Send, Advance, TypeOK, ValuesAnswer, Both
<1>8. \A k \in 1 .. Len(sent') : sent'[k] = Answer(request[k])
  BY <1>3, <1>4 DEF RepliesAnswerInOrder, RequestsOwned, Send, TypeOK, Both
<1>9. RepliesAnswerInOrder'
  BY <1>4, <1>8 DEF Send, Advance, RepliesAnswerInOrder, TypeOK, Both
<1> QED
  BY <1>5, <1>6, <1>7, <1>9

LEMMA SleepPreserves ==
    ASSUME ServerInvariant, Sleep
    PROVE  ServerInvariant'
<1> USE DEF ServerInvariant
<1>1. \A i \in Both : async[i] = "none" /\ handler[i] = "none"
  BY DEF Sleep, ThreadsLaunched, Launched, HandlersAwaited, TypeOK
<1>2. TypeOK'
  BY DEF Sleep, TypeOK, Nothing
<1>3. /\ RequestsOwned' /\ ThreadsLaunched' /\ HandlersAwaited'
      /\ SentCounted' /\ RepliesAnswerInOrder'
  BY <1>1 DEF Sleep, TypeOK, RequestsOwned, ThreadsLaunched, Launched, Both,
     HandlersAwaited, SentCounted, RepliesAnswerInOrder
<1>4. ValuesAnswer'
  BY <1>1 DEF Sleep, TypeOK, ValuesAnswer, HandlersAwaited, Both
<1> QED
  BY <1>2, <1>3, <1>4

LEMMA NextPreserves == ServerInvariant /\ [Next]_vars => ServerInvariant'
<1> SUFFICES ASSUME ServerInvariant, [Next]_vars PROVE ServerInvariant'
  OBVIOUS
<1>1. CASE receiveFromDDS
  BY <1>1, PreparePreserves, LaunchPreserves, GetPreserves, SendPreserves,
     SleepPreserves DEF receiveFromDDS
<1>2. ASSUME NEW i \in Both, processRequest(i) PROVE ServerInvariant'
  BY <1>2, DispatchFoundPreserves, DispatchNotFoundPreserves, ReturnPreserves
     DEF processRequest
<1>3. ASSUME NEW i \in Both, Detached(i) PROVE ServerInvariant'
  BY <1>3, CallHandlerPreserves, SetValuePreserves DEF Detached
<1>4. CASE UNCHANGED vars
  BY <1>4 DEF vars, ServerInvariant, TypeOK, RequestsOwned, ThreadsLaunched,
     Launched, HandlersAwaited, ValuesAnswer, SentCounted, RepliesAnswerInOrder
<1> QED
  BY <1>1, <1>2, <1>3, <1>4 DEF Next

-----------------------------------------------------------------------------
(* The theorems.                                                           *)

\* ServerInvariant holds in every reachable state.
THEOREM Invariance == Spec => []ServerInvariant
BY InitEstablishes, NextPreserves, PTL DEF Spec

\* Type correctness.
THEOREM TypeCorrect == Spec => []TypeOK
<1>1. ServerInvariant => TypeOK
  BY DEF ServerInvariant
<1> QED
  BY <1>1, Invariance, PTL

\* No thread uses a request or a promise whose owner has ended.
THEOREM ReferencesAreLive == Spec => []ReferencesLive
<1>1. ServerInvariant => ReferencesLive
  BY DEF ServerInvariant, TypeOK, RequestsOwned, ThreadsLaunched, Launched,
     HandlersAwaited, ReferencesLive
<1> QED
  BY <1>1, Invariance, PTL

\* The replies answer the requests of the iteration in their order.
THEOREM RepliesInOrder == Spec => []RepliesAnswerInOrder
<1>1. ServerInvariant => RepliesAnswerInOrder
  BY DEF ServerInvariant
<1> QED
  BY <1>1, Invariance, PTL

\* An iteration ends with all its threads.
THEOREM IterationsApart == Spec => []NothingLeftBehind
<1> SUFFICES ASSUME ServerInvariant, loop = "prepare"
             PROVE  /\ \A i \in Both : async[i] = "none" /\ handler[i] = "none"
                    /\ future = Nothing /\ promise = Nothing
  BY Invariance, PTL DEF NothingLeftBehind
<1>1. \A i \in Both : async[i] = "none" /\ handler[i] = "none"
  BY DEF ServerInvariant, ThreadsLaunched, Launched, HandlersAwaited, TypeOK
<1>2. \A i \in Both : future[i] = NoResponse /\ promise[i] = NoResponse
  BY <1>1 DEF ServerInvariant, ValuesAnswer
<1>3. future = Nothing /\ promise = Nothing
  BY <1>2 DEF ServerInvariant, TypeOK, Nothing
<1> QED
  BY <1>1, <1>3

\* The server implements RequestReply: the loop takes a batch where it makes
\* the requests and answers one where it sends a response; all else is out of
\* the sender's sight.
THEOREM Refinement == Spec => Exchange!Spec
<1>1. Init => Exchange!Init
  BY DEF Init, Exchange!Init, StillWaiting
<1>2. ServerInvariant /\ [Next]_vars => [Exchange!Next]_(Exchange!vars)
  <2> SUFFICES ASSUME ServerInvariant, [Next]_vars
               PROVE  Exchange!Next \/ UNCHANGED <<StillWaiting, sent>>
    BY DEF Exchange!vars, StillWaiting
  <2>1. CASE Prepare
    <3>1. request = <<>> /\ request' \in Batches /\ sent' = <<>>
      BY <2>1 DEF Prepare, ServerInvariant, RequestsOwned
    <3>2. request' # <<>> /\ request' \in Seq(Request) /\ Len(request') = 2
      BY <3>1, BatchHasTwo
    <3>3. SubSeq(request', Len(sent') + 1, 2) = request'
      BY <3>1, <3>2, SubSeqFull
    <3>4. StillWaiting = <<>> /\ StillWaiting' = request'
      BY <3>1, <3>2, <3>3 DEF StillWaiting
    <3> QED
      BY <3>1, <3>4 DEF Exchange!Next, Exchange!Take, StillWaiting
  <2>2. CASE Send
    <3>1. request \in Batches /\ turn \in Both /\ request' = request
      BY <2>2 DEF Send, ServerInvariant, RequestsOwned, TypeOK
    <3>2. request # <<>> /\ request \in Seq(Request) /\ Len(request) = 2
      BY <3>1, BatchHasTwo
    <3>3. Len(sent) = turn - 1 /\ sent' = Append(sent, Answer(request[turn]))
      BY <2>2 DEF Send, Outgoing, ServerInvariant, SentCounted, ValuesAnswer, TypeOK
    <3>4. Len(sent') = turn
      BY <3>1, <3>3 DEF ServerInvariant, TypeOK, Both
    <3>5. StillWaiting = SubSeq(request, turn, 2) /\ StillWaiting' = SubSeq(request, turn + 1, 2)
      BY <3>1, <3>2, <3>3, <3>4 DEF StillWaiting, Both
    <3>6. Head(StillWaiting) = request[turn] /\ Tail(StillWaiting) = StillWaiting'
      BY <3>1, <3>2, <3>5, HeadTailOfSubSeq DEF Both
    <3>7. StillWaiting # <<>>
      BY <3>1, <3>2, <3>5, SubSeqProperties DEF Both
    <3> QED
      BY <3>3, <3>6, <3>7 DEF Exchange!Next, Exchange!Reply, StillWaiting
  <2>3. CASE Sleep
    <3>1. request \in Batches /\ Len(sent) = 2 /\ request' = <<>> /\ sent' = sent
      BY <2>3 DEF Sleep, ServerInvariant, RequestsOwned, SentCounted, TypeOK
    <3>2. SubSeq(request, 3, 2) = <<>>
      BY SubSeqEmpty
    <3> QED
      BY <3>1, <3>2 DEF StillWaiting
  <2>4. CASE UNCHANGED <<request, sent>>
    BY <2>4 DEF StillWaiting
  <2>5. Next => Prepare \/ Send \/ Sleep \/ UNCHANGED <<request, sent>>
    BY DEF Next, receiveFromDDS, Launch, Get, processRequest, DispatchFound,
       DispatchNotFound, ReturnFromDispatch, Detached, CallHandler, SetValue, loopVars
  <2> QED
    BY <2>1, <2>2, <2>3, <2>4, <2>5 DEF vars
<1> QED
  BY <1>1, <1>2, Invariance, PTL DEF Spec, Exchange!Spec
=============================================================================
