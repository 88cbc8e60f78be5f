---------------------------- MODULE RequestReply ----------------------------
(***************************************************************************)
(* What a Server promises to those who send it requests: it takes a batch  *)
(* of requests when it has answered the one before, and answers each once, *)
(* in the order of the batch, with a reply that depends on nothing but the *)
(* request.  Handlers, threads and futures are not mentioned.              *)
(***************************************************************************)
EXTENDS Sequences

CONSTANTS
    Batches,     \* the batches that may arrive, sequences of requests
    Answer(_)    \* the reply a request deserves

VARIABLES
    waiting,     \* the requests taken and not yet answered, in order
    sent         \* the replies to the requests of the batch, in order

vars == <<waiting, sent>>

Init == waiting = <<>> /\ sent = <<>>

Take ==
    /\ waiting = <<>>
    /\ waiting' \in Batches
    /\ sent' = <<>>

Reply ==
    /\ waiting # <<>>
    /\ sent' = Append(sent, Answer(Head(waiting)))
    /\ waiting' = Tail(waiting)

Next == Take \/ Reply

Spec == Init /\ [][Next]_vars

\* Every request is answered, and the next batch is taken.
FairSpec == Spec /\ WF_vars(Next)
=============================================================================
