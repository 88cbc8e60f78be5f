---------------------------- MODULE ClientProofs ----------------------------
(***************************************************************************)
(* Theorems about Client, for any set of threads and any number of calls.  *)
(*                                                                         *)
(* That an entry of pending is filed under the number in the header, and   *)
(* that an answer carries it, holds because the number changes only        *)
(* before the request is registered: the sending thread has not started    *)
(* while Call makes the request (SenderFollowsCall), and what is in        *)
(* pending, taken from it or answered is registered (EntriesRegistered,    *)
(* TakenRegistered, AnswersRegistered).                                    *)
(***************************************************************************)
EXTENDS Client, TLAPS

\* The sending thread is started when the request has been made.
SenderFollowsCall ==
    \A r \in Requests : sender[r] = "none" <=> call[r] \in {"not called", "increment"}

EntriesRegistered == \A s \in DOMAIN pending : sender[pending[s]] = "done"

TakenRegistered == receiver = "answer" => taken \in Requests /\ sender[taken] = "done"

AnswersRegistered == \A r \in Requests : answer[r] # NoAnswer => sender[r] = "done"

ClientInvariant ==
    /\ TypeOK
    /\ SenderFollowsCall
    /\ EntriesRegistered
    /\ TakenRegistered
    /\ AnswersRegistered
    /\ PendingByHeader
    /\ AnswersOwnCall

-----------------------------------------------------------------------------
(* What steps of one kind keep.                                            *)

LEMMA InitInvariant == Init => ClientInvariant
<1> SUFFICES ASSUME Init PROVE ClientInvariant
  OBVIOUS
<1>1. TypeOK
  <2>1. DOMAIN pending = {} /\ Range(pending) = {}
    BY DEF Init, Range
  <2> QED
    BY <2>1 DEF Init, TypeOK, CallStates
<1>2. SenderFollowsCall /\ EntriesRegistered /\ TakenRegistered /\ AnswersRegistered
  BY DEF Init, SenderFollowsCall, EntriesRegistered, TakenRegistered, AnswersRegistered
<1>3. PendingByHeader /\ AnswersOwnCall
  BY DEF Init, PendingByHeader, AnswersOwnCall
<1> QED
  BY <1>1, <1>2, <1>3 DEF ClientInvariant

\* A step of Call after the request is made moves the calling thread only.
LEMMA CallMoves ==
    ASSUME ClientInvariant, NEW r \in Requests, NEW here \in CallStates, NEW there \in CallStates,
           call[r] = here, call' = [call EXCEPT ![r] = there],
           here \in {"not called", "increment"} <=> there \in {"not called", "increment"},
           mtx' \in Requests \cup {Nobody}, local' \in [Requests -> Nat],
           UNCHANGED <<seq, pending, lifeVars, headerSeq, answer, sendVars, receiveVars, process>>
    PROVE  ClientInvariant'
<1>1. TypeOK'
  BY DEF ClientInvariant, TypeOK, lifeVars, sendVars, receiveVars
<1>2. SenderFollowsCall'
  <2> SUFFICES ASSUME NEW q \in Requests
               PROVE  (sender[q] = "none" <=> call[q] \in {"not called", "increment"})'
    BY DEF SenderFollowsCall
  <2>1. CASE q = r
    BY <2>1 DEF ClientInvariant, TypeOK, SenderFollowsCall, sendVars
  <2>2. CASE q # r
    BY <2>2 DEF ClientInvariant, TypeOK, SenderFollowsCall, sendVars
  <2> QED
    BY <2>1, <2>2
<1>3. EntriesRegistered' /\ TakenRegistered' /\ AnswersRegistered'
  BY DEF ClientInvariant, EntriesRegistered, TakenRegistered, AnswersRegistered, sendVars, receiveVars
<1>4. PendingByHeader' /\ AnswersOwnCall'
  BY DEF ClientInvariant, PendingByHeader, AnswersOwnCall
<1> QED
  BY <1>1, <1>2, <1>3, <1>4 DEF ClientInvariant

\* A step that leaves the requests and what the receiver has taken alone.
LEMMA RequestsStay ==
    ASSUME ClientInvariant,
           shutdown' \in BOOLEAN, destroyed' \in BOOLEAN,
           receiver' \in {"test", "look", "take", "stopped"} \/ receiver' = receiver,
           process' \in {"running", "terminated", "undefined"},
           UNCHANGED <<seq, mtx, pending, headerSeq, answer, callVars, sendVars, taken>>
    PROVE  ClientInvariant'
<1>1. TypeOK'
  BY DEF ClientInvariant, TypeOK, callVars, sendVars
<1>2. SenderFollowsCall' /\ EntriesRegistered' /\ TakenRegistered' /\ AnswersRegistered'
  BY DEF ClientInvariant, SenderFollowsCall, EntriesRegistered, TakenRegistered,
     AnswersRegistered, callVars, sendVars
<1>3. PendingByHeader' /\ AnswersOwnCall'
  BY DEF ClientInvariant, PendingByHeader, AnswersOwnCall
<1> QED
  BY <1>1, <1>2, <1>3 DEF ClientInvariant

\* A registered request is completed.
LEMMA CompleteKeeps ==
    ASSUME ClientInvariant, NEW r \in Requests,
           NEW status \in {STATUS_SUCCESS, STATUS_ERROR},
           complete(r, status, headerSeq[r])
    PROVE  /\ answer' \in [Requests -> {NoAnswer} \cup
                               [status : {STATUS_SUCCESS, STATUS_ERROR}, seq : Nat]]
           /\ process' \in {"running", "terminated"}
           /\ \A q \in Requests : q # r => answer'[q] = answer[q]
           /\ answer'[r] = answer[r] \/ answer'[r] = [status |-> status, seq |-> headerSeq[r]]
<1>1. headerSeq[r] \in Nat
  BY DEF ClientInvariant, TypeOK
<1>2. [status |-> status, seq |-> headerSeq[r]]
         \in [status : {STATUS_SUCCESS, STATUS_ERROR}, seq : Nat]
  BY <1>1
<1>3. answer \in [Requests -> {NoAnswer} \cup
                     [status : {STATUS_SUCCESS, STATUS_ERROR}, seq : Nat]]
  BY DEF ClientInvariant, TypeOK
<1>4. CASE UNCHANGED answer /\ process' = "terminated"
  BY <1>3, <1>4
<1>5. CASE answer' = [answer EXCEPT ![r] = [status |-> status, seq |-> headerSeq[r]]]
           /\ process' = "running"
  BY <1>2, <1>3, <1>5
<1> QED
  BY <1>4, <1>5 DEF complete, Continue

-----------------------------------------------------------------------------
(* The steps of Call.                                                      *)

LEMMA CallKeeps ==
    ASSUME ClientInvariant, NEW r \in Requests, Call(r)
    PROVE  ClientInvariant'
<1> USE DEF ClientInvariant
<1>1. CASE ReadSeq(r)
  <2>1. local' \in [Requests -> Nat]
    BY <1>1 DEF ReadSeq, TypeOK
  <2> QED
    BY <1>1, <2>1, CallMoves DEF ReadSeq, Ready, CallStates, TypeOK, Continue
<1>2. CASE MakeRequest(r)
  <2>1. sender[r] = "none"
    BY <1>2 DEF MakeRequest, SenderFollowsCall
  <2>2. TypeOK'
    <3>1. seq' \in Nat /\ headerSeq' \in [Requests -> Nat] /\ local' \in [Requests -> Nat]
      BY <1>2 DEF MakeRequest, TypeOK
    <3>2. call' \in [Requests -> CallStates]
      BY <1>2 DEF MakeRequest, TypeOK, CallStates
    <3>3. sender' \in [Requests -> {"none", "start", "register", "error", "done"}]
      BY <1>2 DEF MakeRequest, TypeOK
    <3> QED
      BY <1>2, <3>1, <3>2, <3>3 DEF MakeRequest, TypeOK, lifeVars, receiveVars, Continue
  <2>3. SenderFollowsCall'
    BY <1>2 DEF MakeRequest, TypeOK, SenderFollowsCall
  <2>4. \A s \in DOMAIN pending : pending[s] \in Requests /\ pending[s] # r
    BY <2>1 DEF TypeOK, Range, EntriesRegistered
  <2>5. EntriesRegistered' /\ PendingByHeader'
    BY <1>2, <2>4 DEF MakeRequest, TypeOK, EntriesRegistered, PendingByHeader
  <2>6. TakenRegistered'
    BY <1>2, <2>1 DEF MakeRequest, TypeOK, TakenRegistered, receiveVars
  <2>7. AnswersRegistered' /\ AnswersOwnCall'
    BY <1>2, <2>1 DEF MakeRequest, TypeOK, AnswersRegistered, AnswersOwnCall
  <2> QED
    BY <2>2, <2>3, <2>5, <2>6, <2>7
<1>3. CASE GetAnswer(r)
  BY <1>3, CallMoves DEF GetAnswer, CallStates, TypeOK, Continue
<1>4. CASE TimeOut(r)
  BY <1>4, CallMoves DEF TimeOut, CallStates, TypeOK, Continue
<1>5. CASE ReadHeader(r)
  <2>1. local' \in [Requests -> Nat]
    BY <1>5 DEF ReadHeader, TypeOK
  <2> QED
    BY <1>5, <2>1, CallMoves DEF ReadHeader, CallStates, TypeOK, Continue
<1>6. CASE LockToRemove(r)
  BY <1>6, CallMoves DEF LockToRemove, CallStates, TypeOK, Continue
<1>7. CASE removeRequest(r)
  <2>1. /\ DOMAIN pending' \subseteq DOMAIN pending
        /\ \A s \in DOMAIN pending' : pending'[s] = pending[s]
    BY <1>7 DEF removeRequest, Without
  <2>2. TypeOK'
    <3>1. Range(pending') \subseteq Requests
      BY <2>1 DEF TypeOK, Range
    <3>2. call' \in [Requests -> CallStates] /\ local' \in [Requests -> Nat]
      BY <1>7 DEF removeRequest, TypeOK, CallStates
    <3>3. DOMAIN pending' \subseteq Nat
      BY <2>1 DEF TypeOK
    <3> QED
      BY <1>7, <3>1, <3>2, <3>3 DEF removeRequest, TypeOK, lifeVars, sendVars, receiveVars, Continue
  <2>3. SenderFollowsCall'
    BY <1>7 DEF removeRequest, TypeOK, SenderFollowsCall, sendVars
  <2>4. EntriesRegistered' /\ PendingByHeader'
    <3>1. UNCHANGED <<headerSeq, sender>>
      BY <1>7 DEF removeRequest, sendVars
    <3>2. \A s \in DOMAIN pending' : s \in DOMAIN pending /\ pending'[s] = pending[s]
      BY <2>1
    <3> QED
      BY <3>1, <3>2 DEF EntriesRegistered, PendingByHeader
  <2>5. TakenRegistered' /\ AnswersRegistered' /\ AnswersOwnCall'
    BY <1>7 DEF removeRequest, TakenRegistered, AnswersRegistered, AnswersOwnCall, sendVars, receiveVars
  <2> QED
    BY <2>2, <2>3, <2>4, <2>5
<1> QED
  BY <1>1, <1>2, <1>3, <1>4, <1>5, <1>6, <1>7 DEF Call

-----------------------------------------------------------------------------
(* The steps of the sending thread.                                        *)

LEMMA SendKeeps ==
    ASSUME ClientInvariant, NEW r \in Requests, send(r)
    PROVE  ClientInvariant'
<1> USE DEF ClientInvariant
<1>1. CASE LockToRegister(r)
  <2>1. /\ sender' \in [Requests -> {"none", "start", "register", "error", "done"}]
        /\ \A q \in Requests : q # r => sender'[q] = sender[q]
        /\ sender[r] = "start" /\ sender'[r] \in {"error", "register"}
    BY <1>1 DEF LockToRegister, TypeOK
  <2>2. TypeOK'
    BY <1>1, <2>1 DEF LockToRegister, TypeOK, callVars, lifeVars, receiveVars, Continue
  <2>3. SenderFollowsCall'
    BY <1>1, <2>1 DEF LockToRegister, SenderFollowsCall, callVars
  <2>4. \A s \in DOMAIN pending : pending[s] \in Requests
    BY DEF TypeOK, Range
  <2>5. EntriesRegistered' /\ PendingByHeader'
    BY <1>1, <2>1, <2>4 DEF LockToRegister, EntriesRegistered, PendingByHeader
  <2>6. TakenRegistered'
    BY <1>1, <2>1 DEF LockToRegister, TakenRegistered, receiveVars
  <2>7. AnswersRegistered' /\ AnswersOwnCall'
    BY <1>1, <2>1 DEF LockToRegister, AnswersRegistered, AnswersOwnCall
  <2> QED
    BY <2>2, <2>3, <2>5, <2>6, <2>7
<1>2. CASE registerRequest(r)
  <2>1. /\ sender' \in [Requests -> {"none", "start", "register", "error", "done"}]
        /\ \A q \in Requests : q # r => sender'[q] = sender[q] /\ headerSeq'[q] = headerSeq[q]
        /\ sender[r] = "register" /\ sender'[r] = "done"
        /\ headerSeq' \in [Requests -> Nat] /\ headerSeq'[r] = sending[r]
    BY <1>2 DEF registerRequest, TypeOK
  <2>2. \A s \in DOMAIN pending : pending[s] \in Requests /\ pending[s] # r
    BY <2>1 DEF TypeOK, Range, EntriesRegistered
  <2>3. /\ DOMAIN pending' = DOMAIN pending \cup {sending[r]}
        /\ pending'[sending[r]] = r
        /\ \A s \in DOMAIN pending' : s # sending[r] => s \in DOMAIN pending /\ pending'[s] = pending[s]
    BY <1>2 DEF registerRequest, Entered
  <2>4. TypeOK'
    <3>1. Range(pending') \subseteq Requests
      BY <2>2, <2>3 DEF Range
    <3>2. seq' \in Nat /\ sending' \in [Requests -> Nat] /\ sending[r] \in Nat
      BY <1>2 DEF registerRequest, TypeOK
    <3> QED
      BY <1>2, <2>1, <2>3, <3>1, <3>2 DEF registerRequest, TypeOK, callVars, lifeVars, receiveVars, Continue
  <2>5. SenderFollowsCall'
    BY <1>2, <2>1 DEF registerRequest, SenderFollowsCall, callVars
  <2>6. EntriesRegistered' /\ PendingByHeader'
    BY <2>1, <2>2, <2>3 DEF EntriesRegistered, PendingByHeader
  <2>7. TakenRegistered'
    BY <1>2, <2>1 DEF registerRequest, TakenRegistered, receiveVars
  <2>8. AnswersRegistered' /\ AnswersOwnCall'
    BY <1>2, <2>1 DEF registerRequest, AnswersRegistered, AnswersOwnCall
  <2> QED
    BY <2>4, <2>5, <2>6, <2>7, <2>8
<1>3. CASE CompleteWithError(r)
  <2>1. /\ sender' \in [Requests -> {"none", "start", "register", "error", "done"}]
        /\ \A q \in Requests : q # r => sender'[q] = sender[q]
        /\ sender[r] = "error" /\ sender'[r] = "done"
    BY <1>3 DEF CompleteWithError, TypeOK
  <2>2. complete(r, STATUS_ERROR, headerSeq[r])
    BY <1>3 DEF CompleteWithError
  <2> DEFINE error == [status |-> STATUS_ERROR, seq |-> headerSeq[r]]
  <2>3. /\ answer' \in [Requests -> {NoAnswer} \cup
                            [status : {STATUS_SUCCESS, STATUS_ERROR}, seq : Nat]]
        /\ process' \in {"running", "terminated"}
        /\ \A q \in Requests : q # r => answer'[q] = answer[q]
        /\ answer'[r] = answer[r] \/ answer'[r] = error
    BY <2>2, CompleteKeeps
  <2>4. TypeOK'
    BY <1>3, <2>1, <2>3 DEF CompleteWithError, TypeOK, callVars, lifeVars, receiveVars
  <2>5. SenderFollowsCall'
    BY <1>3, <2>1 DEF CompleteWithError, SenderFollowsCall, callVars
  <2>6. \A s \in DOMAIN pending : pending[s] \in Requests
    BY DEF TypeOK, Range
  <2>7. EntriesRegistered' /\ PendingByHeader'
    BY <1>3, <2>1, <2>6 DEF CompleteWithError, EntriesRegistered, PendingByHeader
  <2>8. TakenRegistered'
    BY <1>3, <2>1 DEF CompleteWithError, TakenRegistered, receiveVars
  <2>9. AnswersRegistered'
    BY <2>1, <2>3 DEF AnswersRegistered
  <2>10. AnswersOwnCall'
    BY <1>3, <2>3 DEF CompleteWithError, AnswersOwnCall
  <2> QED
    BY <2>4, <2>5, <2>7, <2>8, <2>9, <2>10
<1> QED
  BY <1>1, <1>2, <1>3 DEF send

-----------------------------------------------------------------------------
(* The steps of the receiver.                                              *)

LEMMA ReceiveKeeps ==
    ASSUME ClientInvariant, receiveFromDDS
    PROVE  ClientInvariant'
<1> USE DEF ClientInvariant
<1>1. CASE TestShutdown
  BY <1>1, RequestsStay DEF TestShutdown, TypeOK, lifeVars, Continue
<1>2. CASE LookForPending
  BY <1>2, RequestsStay DEF LookForPending, TypeOK, lifeVars, Continue
<1>3. CASE TakeFirst
  <2>1. PICK s \in DOMAIN pending : taken' = pending[s]
    BY <1>3 DEF TakeFirst
  <2>2. taken' \in Requests /\ sender[taken'] = "done"
    BY <2>1 DEF TypeOK, Range, EntriesRegistered
  <2>3. TypeOK'
    BY <1>3, <2>2 DEF TakeFirst, TypeOK, callVars, sendVars, lifeVars, Continue
  <2>4. SenderFollowsCall' /\ EntriesRegistered' /\ TakenRegistered' /\ AnswersRegistered'
    BY <1>3, <2>2 DEF TakeFirst, SenderFollowsCall, EntriesRegistered, TakenRegistered,
       AnswersRegistered, callVars, sendVars
  <2>5. PendingByHeader' /\ AnswersOwnCall'
    BY <1>3 DEF TakeFirst, PendingByHeader, AnswersOwnCall
  <2> QED
    BY <2>3, <2>4, <2>5
<1>4. CASE Answer
  <2>1. taken \in Requests /\ sender[taken] = "done"
    BY <1>4 DEF Answer, TakenRegistered
  <2>2. complete(taken, STATUS_SUCCESS, headerSeq[taken])
    BY <1>4 DEF Answer, SeqOfAnswer
  <2> DEFINE success == [status |-> STATUS_SUCCESS, seq |-> headerSeq[taken]]
  <2>3. /\ answer' \in [Requests -> {NoAnswer} \cup
                            [status : {STATUS_SUCCESS, STATUS_ERROR}, seq : Nat]]
        /\ process' \in {"running", "terminated"}
        /\ \A q \in Requests : q # taken => answer'[q] = answer[q]
        /\ answer'[taken] = answer[taken] \/ answer'[taken] = success
    BY <2>1, <2>2, CompleteKeeps
  <2>4. TypeOK'
    BY <1>4, <2>3 DEF Answer, TypeOK, callVars, sendVars, lifeVars
  <2>5. SenderFollowsCall' /\ EntriesRegistered' /\ TakenRegistered'
    BY <1>4 DEF Answer, SenderFollowsCall, EntriesRegistered, TakenRegistered, callVars, sendVars
  <2>6. AnswersRegistered'
    BY <1>4, <2>1, <2>3 DEF Answer, AnswersRegistered, sendVars
  <2>7. PendingByHeader'
    BY <1>4 DEF Answer, PendingByHeader
  <2>8. AnswersOwnCall'
    BY <1>4, <2>3 DEF Answer, AnswersOwnCall
  <2> QED
    BY <2>4, <2>5, <2>6, <2>7, <2>8
<1> QED
  BY <1>1, <1>2, <1>3, <1>4 DEF receiveFromDDS

LEMMA NextInvariant == ClientInvariant /\ [Next]_vars => ClientInvariant'
<1> SUFFICES ASSUME ClientInvariant, [Next]_vars PROVE ClientInvariant'
  OBVIOUS
<1>1. ASSUME NEW r \in Requests, Call(r) PROVE ClientInvariant'
  BY <1>1, CallKeeps
<1>2. ASSUME NEW r \in Requests, send(r) PROVE ClientInvariant'
  BY <1>2, SendKeeps
<1>3. CASE receiveFromDDS
  BY <1>3, ReceiveKeeps
<1>4. CASE SetShutdown
  BY <1>4, RequestsStay DEF SetShutdown, ClientInvariant, TypeOK, receiveVars, Continue
<1>5. CASE DestroyMembers
  BY <1>5, RequestsStay DEF DestroyMembers, ClientInvariant, TypeOK, receiveVars, Continue
<1>6. CASE Undefined
  BY <1>6, RequestsStay DEF Undefined, ClientInvariant, TypeOK, receiveVars, lifeVars
<1>7. CASE UNCHANGED vars
  BY <1>7, RequestsStay DEF vars, ClientInvariant, TypeOK, callVars, sendVars
<1> QED
  BY <1>1, <1>2, <1>3, <1>4, <1>5, <1>6, <1>7 DEF Next

-----------------------------------------------------------------------------
(* The theorems.                                                           *)

\* The invariant holds in every reachable state.
THEOREM Invariance == Spec => []ClientInvariant
<1> QED
  BY InitInvariant, NextInvariant, PTL DEF Spec

\* The state of the client is always well formed.
THEOREM TypeCorrect == Spec => []TypeOK
<1>1. ClientInvariant => TypeOK
  BY DEF ClientInvariant
<1> QED
  BY <1>1, Invariance, PTL

\* An entry of pending is always filed under the number in its request's header.
THEOREM EntriesFound == Spec => []PendingByHeader
<1>1. ClientInvariant => PendingByHeader
  BY DEF ClientInvariant
<1> QED
  BY <1>1, Invariance, PTL

\* No call gets the answer to another one's request.
THEOREM AnswersBelong == Spec => []AnswersOwnCall
<1>1. ClientInvariant => AnswersOwnCall
  BY DEF ClientInvariant
<1> QED
  BY <1>1, Invariance, PTL

-----------------------------------------------------------------------------
(* What becomes of the entry of a call that gives up.                      *)

\* From the time-out on, if the request is registered by then: the number the
\* call goes by is that of the entry, and once it has given up there is none.
Settled(r) ==
    /\ sender[r] = "done"
    /\ call[r] \in {"timed out", "remove", "erase", "gave up"}
    /\ call[r] \in {"remove", "erase"} => local[r] = headerSeq[r]
    /\ call[r] = "gave up" => r \notin Range(pending)

\* A request that is registered stays so, under the same number.
LEMMA HeaderStays ==
    ASSUME ClientInvariant, [Next]_vars, NEW r \in Requests, sender[r] = "done"
    PROVE  sender'[r] = "done" /\ headerSeq'[r] = headerSeq[r]
<1> USE DEF ClientInvariant, TypeOK
<1>1. ASSUME NEW q \in Requests, Call(q) PROVE sender'[r] = "done" /\ headerSeq'[r] = headerSeq[r]
  <2>1. CASE MakeRequest(q)
    <3>1. q # r
      BY <2>1 DEF MakeRequest, SenderFollowsCall
    <3> QED
      BY <2>1, <3>1 DEF MakeRequest
  <2>2. CASE ~MakeRequest(q)
    BY <1>1, <2>2 DEF Call, ReadSeq, GetAnswer, TimeOut, ReadHeader, LockToRemove, removeRequest,
       sendVars
  <2> QED
    BY <2>1, <2>2
<1>2. ASSUME NEW q \in Requests, send(q) PROVE sender'[r] = "done" /\ headerSeq'[r] = headerSeq[r]
  BY <1>2 DEF send, LockToRegister, registerRequest, CompleteWithError
<1>3. ASSUME receiveFromDDS \/ SetShutdown \/ DestroyMembers \/ Undefined \/ UNCHANGED vars
      PROVE  UNCHANGED <<sender, headerSeq>>
  BY <1>3 DEF receiveFromDDS, TestShutdown, LookForPending, TakeFirst, Answer, SetShutdown,
     DestroyMembers, Undefined, vars, sendVars
<1> QED
  BY <1>1, <1>2, <1>3 DEF Next

\* What a step does to where the calling thread of r is.
LEMMA CallsOwnSteps ==
    ASSUME ClientInvariant, [Next]_vars, NEW r \in Requests
    PROVE  Call(r) \/ (call'[r] = call[r] /\ local'[r] = local[r])
<1>1. ASSUME NEW q \in Requests, Call(q), q # r PROVE call'[r] = call[r] /\ local'[r] = local[r]
  BY <1>1 DEF Call, ReadSeq, MakeRequest, GetAnswer, TimeOut, ReadHeader, LockToRemove,
     removeRequest, ClientInvariant, TypeOK
<1>2. ASSUME NEW q \in Requests, send(q) PROVE UNCHANGED <<call, local>>
  BY <1>2 DEF send, LockToRegister, registerRequest, CompleteWithError, callVars
<1>3. ASSUME receiveFromDDS \/ SetShutdown \/ DestroyMembers \/ Undefined \/ UNCHANGED vars
      PROVE  UNCHANGED <<call, local>>
  BY <1>3 DEF receiveFromDDS, TestShutdown, LookForPending, TakeFirst, Answer, SetShutdown,
     DestroyMembers, Undefined, vars, callVars
<1> QED
  BY <1>1, <1>2, <1>3 DEF Next

\* An entry of a registered request does not come back: only registerRequest
\* makes entries, and only its own.
LEMMA EntryStaysOut ==
    ASSUME ClientInvariant, [Next]_vars, NEW r \in Requests,
           sender[r] = "done", r \notin Range(pending)
    PROVE  r \notin Range(pending')
<1>1. ASSUME NEW q \in Requests, removeRequest(q) PROVE r \notin Range(pending')
  BY <1>1 DEF removeRequest, Without, Range
<1>2. ASSUME NEW q \in Requests, registerRequest(q) PROVE r \notin Range(pending')
  <2>1. q # r
    BY <1>2 DEF registerRequest
  <2> QED
    BY <1>2, <2>1 DEF registerRequest, Entered, Range
<1>3. ASSUME NEW q \in Requests, Call(q), ~removeRequest(q) PROVE pending' = pending
  BY <1>3 DEF Call, ReadSeq, MakeRequest, GetAnswer, TimeOut, ReadHeader, LockToRemove
<1>4. ASSUME NEW q \in Requests, send(q), ~registerRequest(q) PROVE pending' = pending
  BY <1>4 DEF send, LockToRegister, CompleteWithError
<1>5. CASE receiveFromDDS
  BY <1>5 DEF receiveFromDDS, TestShutdown, LookForPending, TakeFirst, Answer
<1>6. CASE SetShutdown \/ DestroyMembers \/ Undefined \/ UNCHANGED vars
  BY <1>6 DEF SetShutdown, DestroyMembers, Undefined, vars
<1> QED
  BY <1>1, <1>2, <1>3, <1>4, <1>5, <1>6 DEF Next

LEMMA SettledStays ==
    ASSUME ClientInvariant, [Next]_vars, NEW r \in Requests, Settled(r)
    PROVE  Settled(r)'
<1>1. sender[r] = "done" /\ sender'[r] = "done" /\ headerSeq'[r] = headerSeq[r]
  BY HeaderStays DEF Settled
<1>2. CASE call'[r] = call[r] /\ local'[r] = local[r]
  BY <1>1, <1>2, EntryStaysOut DEF Settled
<1>3. CASE Call(r)
  <2> USE DEF ClientInvariant, TypeOK
  <2>1. CASE ReadHeader(r)
    BY <1>1, <2>1 DEF ReadHeader, Settled
  <2>2. CASE LockToRemove(r)
    BY <1>1, <2>2 DEF LockToRemove, Settled
  <2>3. CASE removeRequest(r)
    <3>1. \A s \in DOMAIN pending : pending[s] = r => s = headerSeq[r]
      BY DEF PendingByHeader
    <3>2. local[r] = headerSeq[r] /\ call'[r] = "gave up"
      BY <2>3 DEF removeRequest, Settled
    <3>3. r \notin Range(pending')
      BY <2>3, <3>1, <3>2 DEF removeRequest, Without, Range
    <3> QED
      BY <1>1, <3>2, <3>3 DEF Settled
  <2>4. call[r] \in {"timed out", "remove", "erase", "gave up"}
    BY DEF Settled
  <2> QED
    BY <1>3, <2>1, <2>2, <2>3, <2>4 DEF Call, ReadSeq, Ready, MakeRequest, GetAnswer, TimeOut
<1> QED
  BY <1>2, <1>3, CallsOwnSteps

\* A call that times out when its request is registered leaves no entry when it
\* gives up, and none comes back.
THEOREM GivenUpRemoved == Spec => TimedOutRemoved
<1> DEFINE Late(r) == call[r] = "timed out" /\ sender[r] = "done"
           Gone(r) == call[r] = "gave up" => r \notin Range(pending)
<1>1. ASSUME NEW r \in Requests PROVE Spec => [](Late(r) => []Gone(r))
  <2>1. Late(r) => Settled(r)
    BY DEF Settled
  <2>2. ClientInvariant /\ Settled(r) /\ [Next]_vars => Settled(r)'
    BY SettledStays
  <2>3. Settled(r) => Gone(r)
    BY DEF Settled
  <2> HIDE DEF Late, Gone
  <2> QED
    BY <2>1, <2>2, <2>3, Invariance, PTL DEF Spec
<1> QED
  BY <1>1 DEF TimedOutRemoved
=============================================================================
