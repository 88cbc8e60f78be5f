---------------------------- MODULE FormationSync ----------------------------
(***************************************************************************)
(* The synchronisation of the registries of two formations, as the main    *)
(* program runs it (test_compareAndSyncTree_with_changes2 in main.cpp).    *)
(*                                                                         *)
(* One thread repeats an iteration of five phases, each done for registry1 *)
(* and then for registry2: serialise the tree; compare it with the other's *)
(* serialised tree; serialise the services of the types that differ;       *)
(* receive the other's services; and, in every second iteration, perhaps   *)
(* flip the availability of one service of the registry's own node.  A     *)
(* registry is named after its node, so registry1 is Node1.                *)
(*                                                                         *)
(* Both registries start from the same list; InitialLists holds the lists  *)
(* considered.  An exception out of a comparison ends the program: no step *)
(* is possible then.                                                       *)
(***************************************************************************)
EXTENDS RegistryData

CONSTANTS Node1, Node2, InitialLists

ASSUME NodesAssumption == Node1 \in NodeIds /\ Node2 \in NodeIds /\ Node1 # Node2

ASSUME InitialListsAssumption ==
    \A services \in InitialLists : services \in Seq(Service) /\ services # <<>>

VARIABLES
    registry,             \* the map of each ServiceRegistry
    tree,                 \* its member tree
    serializedTree,       \* serializedTree1, serializedTree2
    changedServiceTypes,  \* what compareAndSyncTree returned to each
    message,              \* the services each has serialised for the other
    phase, turn,          \* the next statement of the iteration, and for whom
    loopCounter           \* modulo 2: the program only tests its parity

vars == <<registry, tree, serializedTree, changedServiceTypes, message,
          phase, turn, loopCounter>>

Peers == {Node1, Node2}

Peer(r) == IF r = Node1 THEN Node2 ELSE Node1

Phases == {"serialise", "compare", "send", "receive", "change"}

NextPhase == [serialise |-> "compare", compare |-> "send", send |-> "receive",
              receive |-> "change", change |-> "serialise"]

NoMessage == [n \in {} |-> <<>>]

TypeOK ==
    /\ DOMAIN registry = Peers /\ \A r \in Peers : IsRegistry(registry[r])
    /\ tree \in [Peers -> Seq(Seq(Digest))]
    /\ serializedTree \in [Peers -> Seq(Seq(Digest))]
    /\ changedServiceTypes \in [Peers -> SUBSET ServiceNames]
    /\ DOMAIN message = Peers /\ \A r \in Peers : IsRegistry(message[r])
    /\ phase \in Phases
    /\ turn \in Peers
    /\ loopCounter \in {0, 1}

-----------------------------------------------------------------------------
(* The phases.  At(r, p) is the guard and Advance the control flow of all  *)
(* of them: registry1 first, then registry2, then the next phase.          *)

At(r, p) == phase = p /\ turn = r

Advance ==
    /\ turn' = Peer(turn)
    /\ phase' = IF turn = Node1 THEN phase ELSE NextPhase[phase]

\* Replace the map of registry r and rebuild its tree.
SetAndBuild(r, reg) ==
    /\ registry' = [registry EXCEPT ![r] = reg]
    /\ tree' = [tree EXCEPT ![r] = buildMerkleTree(reg)]

Serialise(r) ==
    /\ At(r, "serialise")
    /\ serializedTree' = [serializedTree EXCEPT ![r] = tree[r]]
    /\ Advance
    /\ UNCHANGED <<registry, tree, changedServiceTypes, message, loopCounter>>

Compare(r) ==
    /\ At(r, "compare")
    /\ ~ComparisonThrows(tree[r], serializedTree[Peer(r)])
    /\ changedServiceTypes' =
          [changedServiceTypes EXCEPT
              ![r] = compareAndSyncTree(registry[r], tree[r], serializedTree[Peer(r)])]
    /\ Advance
    /\ UNCHANGED <<registry, tree, serializedTree, message, loopCounter>>

Send(r) ==
    /\ At(r, "send")
    /\ message' =
          [message EXCEPT
              ![r] = serializeServicesForNames(registry[r], r, changedServiceTypes[r])]
    /\ Advance
    /\ UNCHANGED <<registry, tree, serializedTree, changedServiceTypes, loopCounter>>

\* A message without a service changes nothing, and does not rebuild the tree.
Receive(r) ==
    /\ At(r, "receive")
    /\ IF Carried(message[Peer(r)]) # {}
       THEN SetAndBuild(r, deserializeAndSetServices(registry[r], message[Peer(r)]))
       ELSE UNCHANGED <<registry, tree>>
    /\ Advance
    /\ UNCHANGED <<serializedTree, changedServiceTypes, message, loopCounter>>

\* Mutant of OwnIndexes: find_if takes any service.
OwnIndexes_Any(reg, r, n) == DOMAIN reg[n]

OwnIndexes(reg, r, n) == {i \in DOMAIN reg[n] : reg[n][i].nodeId = r}

OwnTypes(reg, r) == {n \in DOMAIN reg : OwnIndexes(reg, r, n) # {}}

\* The map after setServiceList, given the list of the map reg with its first
\* service on node r flipped: a type without instances is not in a list.
FlipFirst(reg, r) ==
    LET n == Nth(OwnTypes(reg, r), 0)
        i == Nth(OwnIndexes(reg, r, n), 0)
    IN  [m \in NonEmptyKeys(reg) |->
            IF m = n THEN [reg[n] EXCEPT ![i].is_alive = ~@] ELSE reg[m]]

\* The availability of one service of the registry's own node changes:
\* getServiceList, a change of the list, and setServiceList.
Flip(r) ==
    /\ At(r, "change")
    /\ loopCounter = 0
    /\ OwnTypes(registry[r], r) # {}
    /\ SetAndBuild(r, FlipFirst(registry[r], r))

\* An odd iteration, the coin shows tails, or the node has no service.
KeepAll(r) ==
    /\ At(r, "change")
    /\ UNCHANGED <<registry, tree>>

\* The locals of the iteration end with it.
EndChange(r) ==
    /\ Advance
    /\ IF r = Node2
       THEN /\ loopCounter' = 1 - loopCounter
            /\ serializedTree' = [p \in Peers |-> <<>>]
            /\ changedServiceTypes' = [p \in Peers |-> {}]
            /\ message' = [p \in Peers |-> NoMessage]
       ELSE UNCHANGED <<loopCounter, serializedTree, changedServiceTypes, message>>

Change(r) ==
    /\ Flip(r) \/ KeepAll(r)
    /\ EndChange(r)

Init ==
    /\ \E services \in InitialLists :
          registry = [r \in Peers |-> PushAll(EmptyRegistry, services)]
    /\ tree = [r \in Peers |-> buildMerkleTree(registry[r])]
    /\ serializedTree = [r \in Peers |-> <<>>]
    /\ changedServiceTypes = [r \in Peers |-> {}]
    /\ message = [r \in Peers |-> NoMessage]
    /\ phase = "serialise"
    /\ turn = Node1
    /\ loopCounter = 0

Exchange(r) == Serialise(r) \/ Compare(r) \/ Send(r) \/ Receive(r)

Next == \E r \in Peers : Exchange(r) \/ Change(r)

Spec == Init /\ [][Next]_vars

\* The loop has one thread and no exit: its next statement is always executed.
FairSpec == Spec /\ WF_vars(Next)

-----------------------------------------------------------------------------
(***************************************************************************)
(* Properties that hold for every initial list.                            *)
(***************************************************************************)

\* No comparison of the two trees ever throws, so the loop never ends: an
\* exchange leaves no tree empty and neither tree with fewer leaves than the
\* other (root and leaf in merklecpp.h, called from compareAndSyncTree).
NoException ==
    phase = "compare" => ~ComparisonThrows(tree[turn], serializedTree[Peer(turn)])

DifferingTypes ==
    {n \in ServiceNames : InstancesOf(registry[Node1], n) # InstancesOf(registry[Node2], n)}

\* The types reported are exactly those on whose instances the registries
\* differ, although the comparison sees nothing but leaf indexes.
ReportedTypesDiffer ==
    phase = "send" =>
        \A r \in Peers : changedServiceTypes[r] = DifferingTypes

\* Receiving the services of the other formation changes nothing that this
\* formation, or a third node, is the authority for.
OnlySendersServicesReplaced ==
    [][phase # "change" =>
          \A r \in Peers : \A node \in NodeIds \ {Peer(r)} :
              ServicesOn(registry'[r], node) = ServicesOn(registry[r], node)]_vars

(***************************************************************************)
(* Properties that depend on how the initial list spreads the instances of *)
(* a type over the nodes.                                                  *)
(***************************************************************************)

OneInstancePerTypeAndNode(services) ==
    \A i, j \in DOMAIN services :
        /\ services[i].service_name = services[j].service_name
        /\ services[i].nodeId = services[j].nodeId
        => i = j

Exchanged == phase = "change" /\ turn = Node1

\* When an exchange is over the registries list the same services.
ContentsAgree ==
    Exchanged =>
        \A node \in NodeIds :
            ServicesOn(registry[Node1], node) = ServicesOn(registry[Node2], node)

\* Every service a formation received is in its registry afterwards.
EveryServiceReceived ==
    Exchanged =>
        \A r \in Peers : \A n \in DOMAIN message[r] :
            Contents(message[r][n]) \subseteq Contents(registry[Peer(r)][n])

\* What a node's own registry says of its services is what the other formation
\* sees of them in the end, however often they change.
ChangeReachesPeer ==
    \A r \in Peers : \A s \in {x \in Service : x.nodeId = r} :
        s \in ServicesOn(registry[r], r)
            ~> s \in ServicesOn(registry[Peer(r)], r)

\* The promise made to the other formation, ServiceView, is kept.
View == INSTANCE ServiceView WITH
            own  <- [r \in Peers |-> ServicesOn(registry[r], r)],
            view <- [r \in Peers |-> ServicesOn(registry[r], Peer(r))]

ImplementsServiceView == View!FairSpec
=============================================================================
