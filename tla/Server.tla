------------------------------- MODULE Server -------------------------------
(***************************************************************************)
(* The RPC server.  Its constructor starts a thread that runs              *)
(* receiveFromDDS for ever: an iteration makes two requests, lets two      *)
(* threads (std::async) process them, waits for the two results and sends  *)
(* them.  A processing thread runs dispatch, which looks the method up     *)
(* and, if it is there, starts a detached thread that calls the handler    *)
(* and puts its response into a promise in dispatch's frame, and waits.    *)
(*                                                                         *)
(* Two things are owned by a stack frame and used by another thread        *)
(* through a reference: the requests, by the body of the loop; and the     *)
(* promise, by dispatch.  A thread, and the frame it runs, is named after  *)
(* the request (1 or 2) it is for.                                         *)
(*                                                                         *)
(* The requests of an iteration are the members of a batch of Batches: the *)
(* pair the loop builds, and others of the kind DDS is to deliver.         *)
(***************************************************************************)
EXTENDS Integers, Sequences

CONSTANT Batches

Both == {1, 2}

Params == {"GetRadarStatusRequest", "SetRadarStatusRequest"}

\* The alternatives of the variant in a response.
Bodies == {"GetRadarStatusResponse", "SetRadarStatusResponse"}

Request == [serviceMethod : STRING, seq : Nat, param : Params]

ASSUME BatchesAssumption == Batches \subseteq Request \X Request

STATUS_SUCCESS == 200
STATUS_NOT_FOUND == 404
STATUS_ERROR == 500

Response == [seq : Nat, responseBody : Bodies,
             status : {STATUS_SUCCESS, STATUS_NOT_FOUND, STATUS_ERROR}]

NoResponse == <<>>

\* The table of methods, with the argument each handler takes and the body it
\* returns.
methods ==
    [m \in {"Service.getRadarStatus", "Service.setRadarStatus"} |->
        IF m = "Service.getRadarStatus"
        THEN [param |-> "GetRadarStatusRequest", body |-> "GetRadarStatusResponse"]
        ELSE [param |-> "SetRadarStatusRequest", body |-> "SetRadarStatusResponse"]]

VARIABLES
    loop, turn,   \* the next statement of the loop, and for which request
    request,      \* the requests of the iteration; none between iterations
    async,        \* where each processing thread is
    handler,      \* where each detached thread is
    answered,     \* the response that the handler returned in it
    promise,      \* the value of the promise in each frame of dispatch
    future,       \* the results of the processing threads
    response,     \* response1, response2
    sent          \* the responses sent for the requests last made

vars == <<loop, turn, request, async, handler, answered, promise, future,
          response, sent>>

loopVars == <<loop, turn, request, response, sent>>

Nothing == [i \in Both |-> NoResponse]

TypeOK ==
    /\ loop \in {"prepare", "launch", "get", "send", "sleep"}
    /\ turn \in Both
    /\ request \in Batches \cup {<<>>}
    /\ async \in [Both -> {"none", "dispatch", "wait", "finished"}]
    /\ handler \in [Both -> {"none", "call", "set"}]
    /\ answered \in [Both -> Response \cup {NoResponse}]
    /\ promise \in [Both -> Response \cup {NoResponse}]
    /\ future \in [Both -> Response \cup {NoResponse}]
    /\ response \in [Both -> Response \cup {NoResponse}]
    /\ sent \in Seq(Response) /\ Len(sent) \in 0 .. 2

-----------------------------------------------------------------------------
(* The detached threads.                                                   *)

\* Mutant of handle: the argument is returned in place of a response body.
handle_Echo(req) ==
    [seq |-> req.seq, responseBody |-> req.param, status |-> STATUS_SUCCESS]

\* handle_getRadarStatus and handle_setRadarStatus: the variant must hold the
\* argument of the method.
handle(req) ==
    [seq          |-> req.seq,
     responseBody |-> methods[req.serviceMethod].body,
     status       |-> IF req.param = methods[req.serviceMethod].param
                      THEN STATUS_SUCCESS ELSE STATUS_ERROR]

CallHandler(i) ==
    /\ handler[i] = "call"
    /\ answered' = [answered EXCEPT ![i] = handle(request[i])]
    /\ handler' = [handler EXCEPT ![i] = "set"]
    /\ UNCHANGED <<loopVars, async, promise, future>>

\* set_value is the last thing the thread does with what is not its own.  It is
\* one step, as the standard has it: the members of a promise exclude each other.
SetValue(i) ==
    /\ handler[i] = "set"
    /\ promise' = [promise EXCEPT ![i] = answered[i]]
    /\ answered' = [answered EXCEPT ![i] = NoResponse]
    /\ handler' = [handler EXCEPT ![i] = "none"]
    /\ UNCHANGED <<loopVars, async, future>>

Detached(i) == CallHandler(i) \/ SetValue(i)

-----------------------------------------------------------------------------
(* The processing threads.                                                 *)

\* Response() has the number 0, and the body of getRadarStatus.
NotFound == [seq |-> 0, responseBody |-> "GetRadarStatusResponse",
             status |-> STATUS_NOT_FOUND]

\* The method is found: a promise is made, and a thread.
DispatchFound(i) ==
    /\ async[i] = "dispatch"
    /\ request[i].serviceMethod \in DOMAIN methods
    /\ async' = [async EXCEPT ![i] = "wait"]
    /\ promise' = [promise EXCEPT ![i] = NoResponse]
    /\ handler' = [handler EXCEPT ![i] = "call"]
    /\ UNCHANGED <<loopVars, answered, future>>

DispatchNotFound(i) ==
    /\ async[i] = "dispatch"
    /\ request[i].serviceMethod \notin DOMAIN methods
    /\ async' = [async EXCEPT ![i] = "finished"]
    /\ future' = [future EXCEPT ![i] = NotFound]
    /\ UNCHANGED <<loopVars, handler, answered, promise>>

\* Mutant of IsSet: get() does not wait.
IsSet_Always(i) == TRUE

IsSet(i) == promise[i] # NoResponse

\* dispatch returns, and its frame with the promise is gone.
ReturnFromDispatch(i) ==
    /\ async[i] = "wait"
    /\ IsSet(i)
    /\ async' = [async EXCEPT ![i] = "finished"]
    /\ future' = [future EXCEPT ![i] = promise[i]]
    /\ promise' = [promise EXCEPT ![i] = NoResponse]
    /\ UNCHANGED <<loopVars, handler, answered>>

processRequest(i) ==
    DispatchFound(i) \/ DispatchNotFound(i) \/ ReturnFromDispatch(i)

-----------------------------------------------------------------------------
(* The loop.                                                               *)

\* The two calls of a stage, for request 1 and then for request 2.
Advance(stage, next) ==
    /\ turn' = 3 - turn
    /\ loop' = IF turn = 1 THEN stage ELSE next

Prepare ==
    /\ loop = "prepare"
    /\ request' \in Batches
    /\ sent' = <<>>
    /\ loop' = "launch"
    /\ UNCHANGED <<turn, async, handler, answered, promise, future, response>>

Launch ==
    /\ loop = "launch"
    /\ async' = [async EXCEPT ![turn] = "dispatch"]
    /\ Advance("launch", "get")
    /\ UNCHANGED <<request, handler, answered, promise, future, response, sent>>

Finished(i) == async[i] = "finished"

\* get() of a future leaves it without a value, and the thread is joined.
Get ==
    /\ loop = "get"
    /\ Finished(turn)
    /\ response' = [response EXCEPT ![turn] = future[turn]]
    /\ future' = [future EXCEPT ![turn] = NoResponse]
    /\ async' = [async EXCEPT ![turn] = "none"]
    /\ Advance("get", "send")
    /\ UNCHANGED <<request, handler, answered, promise, sent>>

\* Mutant of Outgoing: the responses are sent the other way round.
Outgoing_Swapped(i) == response[3 - i]

Outgoing(i) == response[i]

Send ==
    /\ loop = "send"
    /\ sent' = Append(sent, Outgoing(turn))
    /\ Advance("send", "sleep")
    /\ UNCHANGED <<request, async, handler, answered, promise, future, response>>

\* Six seconds later the body of the loop ends, and with it all it owns.
Sleep ==
    /\ loop = "sleep"
    /\ loop' = "prepare"
    /\ request' = <<>>
    /\ response' = Nothing
    /\ UNCHANGED <<turn, async, handler, answered, promise, future, sent>>

receiveFromDDS == Prepare \/ Launch \/ Get \/ Send \/ Sleep

Init ==
    /\ loop = "prepare" /\ turn = 1
    /\ request = <<>>
    /\ async = [i \in Both |-> "none"]
    /\ handler = [i \in Both |-> "none"]
    /\ answered = Nothing /\ promise = Nothing /\ future = Nothing
    /\ response = Nothing
    /\ sent = <<>>

Next == receiveFromDDS \/ \E i \in Both : processRequest(i) \/ Detached(i)

Spec == Init /\ [][Next]_vars

\* All are threads of the system, and no handler blocks.
FairSpec ==
    /\ Spec
    /\ WF_vars(receiveFromDDS)
    /\ \A i \in Both : WF_vars(processRequest(i)) /\ WF_vars(Detached(i))

-----------------------------------------------------------------------------
(***************************************************************************)
(* Properties.                                                             *)
(***************************************************************************)

\* As long as a detached thread may still use the request and the promise it
\* was given references to, the body of the loop that owns the request and
\* the frame of dispatch that owns the promise have not ended (the lambda of
\* dispatch captures both by reference).
ReferencesLive ==
    \A i \in Both :
        /\ handler[i] # "none" =>
              request # <<>> /\ async[i] = "wait" /\ promise[i] = NoResponse
        /\ async[i] \in {"dispatch", "wait"} => request # <<>>

\* The response a request deserves, from its method and argument alone.
Answer(req) ==
    CASE req.serviceMethod \notin DOMAIN methods ->
           [seq |-> 0, responseBody |-> "GetRadarStatusResponse",
            status |-> STATUS_NOT_FOUND]
      [] req.serviceMethod \in DOMAIN methods ->
           [seq          |-> req.seq,
            responseBody |-> methods[req.serviceMethod].body,
            status       |-> IF req.param = methods[req.serviceMethod].param
                             THEN STATUS_SUCCESS ELSE STATUS_ERROR]

\* The requests not answered yet.
StillWaiting == IF request = <<>> THEN <<>> ELSE SubSeq(request, Len(sent) + 1, 2)

\* The server keeps its promise to those who send requests, RequestReply:
\* every one is answered, in order.
Exchange == INSTANCE RequestReply WITH waiting <- StillWaiting

ImplementsRequestReply == Exchange!FairSpec
=============================================================================
