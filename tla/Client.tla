------------------------------- MODULE Client -------------------------------
(***************************************************************************)
(* A Client shared by several application threads: Call, the detached      *)
(* thread that send starts for each request, the detached receiver thread, *)
(* and the destructor.                                                     *)
(*                                                                         *)
(* A thread makes its calls one after the other.  A request is the pair of *)
(* its thread and the number of the call.  Time is not modelled: wait_for  *)
(* may give up whenever there is no answer yet, and the receiver may wake  *)
(* at any time, as neither 6 s nor 5 s bounds when a thread really runs.   *)
(* The mutex is modelled; what is done without it is a step of its own,    *)
(* and seq++ is a read and a write.                                        *)
(*                                                                         *)
(* The process runs until an exception leaves a thread (terminated) or a   *)
(* step has undefined behaviour (undefined); nothing is said of what       *)
(* follows.                                                                *)
(***************************************************************************)
EXTENDS Integers, FiniteSets, Functions

CONSTANTS
    Threads,
    Calls       \* how many calls each of them makes

ASSUME CallsAssumption == IsFiniteSet(Threads) /\ Calls \in [Threads -> Nat]

Requests == UNION {{t} \X (1 .. Calls[t]) : t \in Threads}

VARIABLES
    seq,        \* Client::seq
    mtx,        \* whoever holds Client::mtx: a request's threads, or Nobody
    pending,    \* Client::pending
    shutdown,
    destroyed,  \* the members of the Client are gone
    headerSeq,  \* request->header.seq
    answer,     \* what promise.set_value was called with
    call,       \* where the calling thread is in Call for a request
    sender,     \* where the sending thread of a request is
    receiver,   \* where the receiver thread is
    taken,      \* the request the receiver took from pending
    local,      \* the number the calling thread of a request has read, or 0
    sending,    \* the number the sending thread of a request has read, or 0
    process

vars == <<seq, mtx, pending, shutdown, destroyed, headerSeq, answer, call,
          sender, receiver, taken, local, sending, process>>

\* What only the calling thread, and only the sending thread, changes.
callVars == <<call, local>>
sendVars == <<sender, sending>>
receiveVars == <<receiver, taken>>
lifeVars == <<shutdown, destroyed>>

Nobody == <<>>
NoAnswer == [status |-> 0, seq |-> 0]

STATUS_SUCCESS == 200
STATUS_ERROR == 500

CallStates == {"not called", "increment", "wait", "timed out", "remove", "erase",
               "succeeded", "failed", "gave up"}

Returned(r) == call[r] \in {"succeeded", "failed", "gave up"}

TypeOK ==
    /\ seq \in Nat
    /\ mtx \in Requests \cup {Nobody}
    /\ DOMAIN pending \subseteq Nat /\ Range(pending) \subseteq Requests
    /\ shutdown \in BOOLEAN /\ destroyed \in BOOLEAN
    /\ headerSeq \in [Requests -> Nat]
    /\ answer \in [Requests -> {NoAnswer} \cup
                      [status : {STATUS_SUCCESS, STATUS_ERROR}, seq : Nat]]
    /\ call \in [Requests -> CallStates]
    /\ sender \in [Requests -> {"none", "start", "register", "error", "done"}]
    /\ receiver \in {"test", "look", "take", "answer", "stopped"}
    /\ taken \in Requests \cup {Nobody}
    /\ local \in [Requests -> Nat] /\ sending \in [Requests -> Nat]
    /\ process \in {"running", "terminated", "undefined"}

\* A step of a process that runs and goes on running.
Continue == process = "running" /\ UNCHANGED process

-----------------------------------------------------------------------------
(* Call.                                                                   *)

\* The thread has made its earlier calls.
Ready(r) ==
    /\ call[r] = "not called"
    /\ \A e \in Requests : e[1] = r[1] /\ e[2] < r[2] => Returned(e)

\* The header's seq++ is done without the mutex: first the read ...
ReadSeq(r) ==
    /\ Ready(r)
    /\ local' = [local EXCEPT ![r] = seq]
    /\ call' = [call EXCEPT ![r] = "increment"]
    /\ UNCHANGED <<seq, mtx, pending, lifeVars, headerSeq, answer, sendVars, receiveVars>>
    /\ Continue

\* ... then the write.  The request is made, and send starts its thread.
MakeRequest(r) ==
    /\ call[r] = "increment"
    /\ seq' = local[r] + 1
    /\ headerSeq' = [headerSeq EXCEPT ![r] = local[r]]
    /\ sender' = [sender EXCEPT ![r] = "start"]
    /\ local' = [local EXCEPT ![r] = 0]
    /\ call' = [call EXCEPT ![r] = "wait"]
    /\ UNCHANGED <<mtx, pending, lifeVars, answer, sending, receiveVars>>
    /\ Continue

GetAnswer(r) ==
    /\ call[r] = "wait"
    /\ answer[r] # NoAnswer
    /\ call' = [call EXCEPT ![r] =
                   IF answer[r].status = STATUS_SUCCESS THEN "succeeded" ELSE "failed"]
    /\ UNCHANGED <<seq, mtx, pending, lifeVars, headerSeq, answer, local, sendVars, receiveVars>>
    /\ Continue

\* Mutant of TimeOut: Call waits without a limit.
TimeOut_Never(r) == FALSE /\ UNCHANGED vars

TimeOut(r) ==
    /\ call[r] = "wait"
    /\ answer[r] = NoAnswer
    /\ call' = [call EXCEPT ![r] = "timed out"]
    /\ UNCHANGED <<seq, mtx, pending, lifeVars, headerSeq, answer, local, sendVars, receiveVars>>
    /\ Continue

\* The argument of removeRequest is read without the mutex.
ReadHeader(r) ==
    /\ call[r] = "timed out"
    /\ local' = [local EXCEPT ![r] = headerSeq[r]]
    /\ call' = [call EXCEPT ![r] = "remove"]
    /\ UNCHANGED <<seq, mtx, pending, lifeVars, headerSeq, answer, sendVars, receiveVars>>
    /\ Continue

LockToRemove(r) ==
    /\ call[r] = "remove"
    /\ mtx = Nobody
    /\ mtx' = r
    /\ call' = [call EXCEPT ![r] = "erase"]
    /\ UNCHANGED <<seq, pending, lifeVars, headerSeq, answer, local, sendVars, receiveVars>>
    /\ Continue

\* Mutants of Without: the entry stays; it stays without a request.
Without_Keep(entries, s) == entries

Without_Null(entries, s) ==
    [k \in DOMAIN entries |-> IF k = s THEN Nobody ELSE entries[k]]

Without(entries, s) == [k \in DOMAIN entries \ {s} |-> entries[k]]

\* A number that is not there is reported, nothing more.
removeRequest(r) ==
    /\ call[r] = "erase"
    /\ pending' = Without(pending, local[r])
    /\ mtx' = Nobody
    /\ local' = [local EXCEPT ![r] = 0]
    /\ call' = [call EXCEPT ![r] = "gave up"]
    /\ UNCHANGED <<seq, lifeVars, headerSeq, answer, sendVars, receiveVars>>
    /\ Continue

Call(r) ==
    ReadSeq(r) \/ MakeRequest(r) \/ GetAnswer(r) \/ TimeOut(r)
        \/ ReadHeader(r) \/ LockToRemove(r) \/ removeRequest(r)

-----------------------------------------------------------------------------
(* The sending thread of a request.                                        *)

LockToRegister(r) ==
    /\ sender[r] = "start"
    /\ ~destroyed
    /\ mtx = Nobody
    /\ IF shutdown
       THEN /\ sender' = [sender EXCEPT ![r] = "error"]
            /\ UNCHANGED <<mtx, sending>>
       ELSE /\ mtx' = r
            /\ sending' = [sending EXCEPT ![r] = seq]
            /\ sender' = [sender EXCEPT ![r] = "register"]
    /\ UNCHANGED <<seq, pending, lifeVars, headerSeq, answer, callVars, receiveVars>>
    /\ Continue

\* Mutant of Entered: the entry is made under the next number.
Entered_Next(entries, s, r) ==
    [k \in DOMAIN entries \cup {s + 1} |-> IF k = s + 1 THEN r ELSE entries[k]]

Entered(entries, s, r) ==
    [k \in DOMAIN entries \cup {s} |-> IF k = s THEN r ELSE entries[k]]

registerRequest(r) ==
    /\ sender[r] = "register"
    /\ ~destroyed
    /\ seq' = sending[r] + 1
    /\ headerSeq' = [headerSeq EXCEPT ![r] = sending[r]]
    /\ pending' = Entered(pending, sending[r], r)
    /\ mtx' = Nobody
    /\ sending' = [sending EXCEPT ![r] = 0]
    /\ sender' = [sender EXCEPT ![r] = "done"]
    /\ UNCHANGED <<lifeVars, answer, callVars, receiveVars>>
    /\ Continue

\* promise.set_value: a second call throws, and the exception ends the process
\* because neither thread catches it.
complete(r, status, s) ==
    \/ /\ answer[r] = NoAnswer
       /\ answer' = [answer EXCEPT ![r] = [status |-> status, seq |-> s]]
       /\ Continue
    \/ /\ answer[r] # NoAnswer
       /\ process = "running" /\ process' = "terminated"
       /\ UNCHANGED answer

\* registerRequest has thrown; checkPendingRequests needs the mutex.
CompleteWithError(r) ==
    /\ sender[r] = "error"
    /\ ~destroyed
    /\ mtx = Nobody
    /\ complete(r, STATUS_ERROR, headerSeq[r])
    /\ sender' = [sender EXCEPT ![r] = "done"]
    /\ UNCHANGED <<seq, mtx, pending, lifeVars, headerSeq, callVars, sending, receiveVars>>

send(r) == LockToRegister(r) \/ registerRequest(r) \/ CompleteWithError(r)

-----------------------------------------------------------------------------
(* The receiver thread.  It never takes the mutex.                         *)

\* Of a destroyed Client the thread may still read that it was shut down.
TestShutdown ==
    /\ receiver = "test"
    /\ receiver' = IF shutdown THEN "stopped" ELSE "look"
    /\ UNCHANGED <<seq, mtx, pending, lifeVars, headerSeq, answer, callVars, sendVars, taken>>
    /\ Continue

LookForPending ==
    /\ receiver = "look"
    /\ ~destroyed
    /\ receiver' = IF DOMAIN pending = {} THEN "test" ELSE "take"
    /\ UNCHANGED <<seq, mtx, pending, lifeVars, headerSeq, answer, callVars, sendVars, taken>>
    /\ Continue

TakeFirst ==
    /\ receiver = "take"
    /\ ~destroyed
    /\ \E s \in DOMAIN pending :
          /\ \A t \in DOMAIN pending : s <= t
          /\ taken' = pending[s]
    /\ receiver' = "answer"
    /\ UNCHANGED <<seq, mtx, pending, lifeVars, headerSeq, answer, callVars, sendVars>>
    /\ Continue

\* Mutant of SeqOfAnswer: the number of the last request.
SeqOfAnswer_Last(r) == IF seq = 0 THEN 0 ELSE seq - 1

SeqOfAnswer(r) == headerSeq[r]

\* The entry stays in pending.
Answer ==
    /\ receiver = "answer"
    /\ complete(taken, STATUS_SUCCESS, SeqOfAnswer(taken))
    /\ receiver' = "test"
    /\ taken' = Nobody
    /\ UNCHANGED <<seq, mtx, pending, lifeVars, headerSeq, callVars, sendVars>>

receiveFromDDS == TestShutdown \/ LookForPending \/ TakeFirst \/ Answer

-----------------------------------------------------------------------------
(* The end of the Client and undefined behaviour.                          *)

\* The destructor, run when all calls have returned; the detached threads
\* are not waited for.
SetShutdown ==
    /\ \A r \in Requests : Returned(r)
    /\ ~shutdown
    /\ shutdown' = TRUE
    /\ UNCHANGED <<seq, mtx, pending, destroyed, headerSeq, answer, callVars, sendVars, receiveVars>>
    /\ Continue

DestroyMembers ==
    /\ shutdown
    /\ ~destroyed
    /\ destroyed' = TRUE
    /\ UNCHANGED <<seq, mtx, pending, shutdown, headerSeq, answer, callVars, sendVars, receiveVars>>
    /\ Continue

\* The receiver reads the first entry of an empty map, or any while another
\* thread changes the map.
UnlockedAccess == receiver = "take" /\ (DOMAIN pending = {} \/ mtx # Nobody)

\* A detached thread uses a member that is gone.
UseAfterDestruction ==
    /\ destroyed
    /\ \/ receiver \in {"test", "look", "take"}
       \/ \E r \in Requests : sender[r] \in {"start", "register", "error"}

Undefined ==
    /\ process = "running"
    /\ UnlockedAccess \/ UseAfterDestruction
    /\ process' = "undefined"
    /\ UNCHANGED <<seq, mtx, pending, lifeVars, headerSeq, answer, callVars, sendVars, receiveVars>>

-----------------------------------------------------------------------------

Init ==
    /\ seq = 0
    /\ mtx = Nobody
    /\ pending = [s \in {} |-> Nobody]
    /\ shutdown = FALSE
    /\ destroyed = FALSE
    /\ headerSeq = [r \in Requests |-> 0]
    /\ answer = [r \in Requests |-> NoAnswer]
    /\ call = [r \in Requests |-> "not called"]
    /\ sender = [r \in Requests |-> "none"]
    /\ receiver = "test"
    /\ taken = Nobody
    /\ local = [r \in Requests |-> 0]
    /\ sending = [r \in Requests |-> 0]
    /\ process = "running"

Next ==
    \/ \E r \in Requests : Call(r) \/ send(r)
    \/ receiveFromDDS
    \/ SetShutdown
    \/ DestroyMembers
    \/ Undefined

Spec == Init /\ [][Next]_vars

\* The system schedules every thread; wait_for returns in the end.
FairSpec ==
    /\ Spec
    /\ \A r \in Requests : WF_vars(Call(r)) /\ WF_vars(send(r))

-----------------------------------------------------------------------------
(***************************************************************************)
(* Properties that hold.                                                   *)
(***************************************************************************)

\* Every entry of pending is filed under the number in its request's header,
\* which is what removeRequest goes by, although the header's number changes
\* when the request is registered and numbers may be given out twice.
PendingByHeader == \A s \in DOMAIN pending : headerSeq[pending[s]] = s

\* An answer carries the number of the request it answers, even an answer that
\* is late or belongs to a request whose number was given out twice.
AnswersOwnCall ==
    \A r \in Requests :
        answer[r] # NoAnswer /\ answer[r].status = STATUS_SUCCESS => answer[r].seq = headerSeq[r]

\* A call that times out when its request is registered leaves no entry behind
\* when it gives up, and none comes back.  A call whose request is registered
\* later, when the number in the header was read or even when the call has given
\* up, is not covered: nothing removes its entry.
TimedOutRemoved ==
    \A r \in Requests :
        []((call[r] = "timed out" /\ sender[r] = "done")
              => [](call[r] = "gave up" => r \notin Range(pending)))

\* Every call returns unless the process ends, whatever becomes of its request:
\* it may be overwritten in pending, or removed by another call.
EveryCallReturns ==
    \A r \in Requests : call[r] = "wait" ~> (Returned(r) \/ process # "running")

(***************************************************************************)
(* Properties the code's comments state, which do not hold.                *)
(***************************************************************************)


\* pending has every registered request that is not yet answered and whose
\* call still waits.
PendingHoldsUnanswered ==
    \A r \in Requests :
        sender[r] = "done" /\ call[r] = "wait" /\ answer[r] = NoAnswer
            => r \in Range(pending)
=============================================================================
