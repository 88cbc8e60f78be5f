------------------------------ MODULE Membership ------------------------------
(***************************************************************************)
(* The synchronisation of two formations whose services join, leave and    *)
(* send heartbeats meanwhile: FormationSync composed with the requests     *)
(* that ServiceRegistry handles.  handleRequest is the entry called from   *)
(* the DDS callback, so a request may arrive between any two statements of *)
(* the loop, and with any contents: no method asks whose service it is.    *)
(* What could happen within a statement, for want of a lock, is left out.  *)
(*                                                                         *)
(* The exchange is that of FormationSync.  The change of a service is in   *)
(* two steps here, because the list that it changes is a local: what       *)
(* getServiceList returned, which setServiceList stores some statements    *)
(* later.                                                                  *)
(*                                                                         *)
(* A request changes the map and not the tree.  Here a comparison can      *)
(* throw; the exception leaves the loop, and with it the program.          *)
(***************************************************************************)
EXTENDS FormationSync

CONSTANTS
    Joining,        \* the services that may register
    MaxRequests     \* bound: requests handled

ASSUME JoiningAssumption == Joining \subseteq Service /\ MaxRequests \in Nat

VARIABLES
    services,       \* services1, services2: none, or the list as a map of its types
    handled,        \* how many requests were handled
    ended,          \* an exception has left the loop
    announced,      \* history: what each registry has ever listed of its own node
    requested,      \* history: what requests have put into the list of each
    meanwhile       \* history: what requests have changed in the list of the
                    \* registry whose list is in services, since it was made

historyVars == <<announced, requested, meanwhile>>
memberVars == <<vars, services, handled, ended, historyVars>>

loopVars == <<tree, serializedTree, changedServiceTypes, message, phase, turn, loopCounter>>

Listed(reg) == UNION {Contents(reg[n]) : n \in DOMAIN reg}

OwnServices(r) == ServicesOn(registry[r], r)

\* What one of the maps lists and the other does not.
Differing(reg, other) == (Listed(reg) \ Listed(other)) \cup (Listed(other) \ Listed(reg))

\* Every step but an exception; what the registries list is written down.
Running ==
    /\ ~ended /\ UNCHANGED ended
    /\ announced' = [r \in Peers |-> announced[r] \cup OwnServices(r)']

-----------------------------------------------------------------------------
(* Requests to the registry of node r.                                     *)

Register(r) ==
    \E s \in Joining :
        registry' = [registry EXCEPT ![r] = PushAll(@, <<s>>)]

Deregister(r) ==
    \E n \in ServiceNames, id \in InstanceIds :
        registry' = [registry EXCEPT ![r] = WithoutInstance(@, n, id)]

HeartBeat(r) ==
    \E id \in InstanceIds :
        registry' = [registry EXCEPT ![r] = Revived(@, id)]

handleRequest(r) ==
    /\ handled < MaxRequests /\ handled' = handled + 1
    /\ Register(r) \/ Deregister(r) \/ HeartBeat(r)
    /\ requested' = [requested EXCEPT ![r] = @ \cup (Listed(registry[r])' \ Listed(registry[r]))]
    /\ meanwhile' = IF services # {} /\ turn = r
                    THEN meanwhile \cup Differing(registry[r], registry'[r])
                    ELSE meanwhile
    /\ UNCHANGED <<loopVars, services>>
    /\ Running

-----------------------------------------------------------------------------
(* The loop.                                                               *)

Exchanging ==
    /\ \E r \in Peers : Exchange(r)
    /\ UNCHANGED <<services, handled, requested, meanwhile>>
    /\ Running

\* root() or leaf() throws in compareAndSyncTree.
Throw ==
    /\ ~ended
    /\ phase = "compare"
    /\ ComparisonThrows(tree[turn], serializedTree[Peer(turn)])
    /\ ended' = TRUE
    /\ UNCHANGED <<vars, services, handled, historyVars>>

\* Mutant of ListOf: the loop ends one key early.
ListOf_NoLast(reg) ==
    [n \in {m \in NonEmptyKeys(reg) : \E k \in NonEmptyKeys(reg) : m < k} |-> reg[n]]

\* The services of a registry: a type without instances is not in the list.
ListOf(reg) == [n \in NonEmptyKeys(reg) |-> reg[n]]

\* In every second iteration, when the coin shows heads.
GetServiceList(r) ==
    /\ At(r, "change")
    /\ loopCounter = 0
    /\ services = {}
    /\ services' = {ListOf(registry[r])}
    /\ meanwhile' = {}
    /\ UNCHANGED <<vars, handled, requested>>
    /\ Running

\* find_if has found a service of the registry's own node in the list.
SetServiceList(r) ==
    /\ At(r, "change")
    /\ \E list \in services :
          /\ OwnTypes(list, r) # {}
          /\ SetAndBuild(r, FlipFirst(list, r))
    /\ services' = {}
    /\ EndChange(r)
    /\ UNCHANGED <<handled, requested, meanwhile>>
    /\ Running

\* No list was made, or find_if has found nothing in it.
KeepServiceList(r) ==
    /\ KeepAll(r)
    /\ \A list \in services : OwnTypes(list, r) = {}
    /\ services' = {}
    /\ EndChange(r)
    /\ UNCHANGED <<handled, requested, meanwhile>>
    /\ Running

MemberInit ==
    /\ Init
    /\ services = {}
    /\ handled = 0
    /\ ended = FALSE
    /\ announced = [r \in Peers |-> OwnServices(r)]
    /\ requested = [r \in Peers |-> {}]
    /\ meanwhile = {}

MemberNext ==
    \/ Exchanging
    \/ Throw
    \/ \E r \in Peers : handleRequest(r) \/ GetServiceList(r) \/ SetServiceList(r) \/ KeepServiceList(r)

MemberSpec == MemberInit /\ [][MemberNext]_memberVars

-----------------------------------------------------------------------------
(***************************************************************************)
(* Properties that hold.                                                   *)
(***************************************************************************)

\* Whatever a formation lists for the other's node, state and all, the other
\* once listed itself or a request put there, however requests, stale trees,
\* misnamed types and lists stored late mix (serializeServicesForNames,
\* deserializeAndSetServices, setServiceList).
ViewsExplained ==
    \A r \in Peers :
        ServicesOn(registry[r], Peer(r)) \subseteq announced[Peer(r)] \cup requested[r]

\* An exchange never touches what a formation lists for its own node: a
\* service that left is not brought back by the other formation, which may
\* list it still, and one that joined is not lost.
OnlySelfChangesOwn ==
    [][\A r \in Peers :
          OwnServices(r)' # OwnServices(r) => handleRequest(r) \/ SetServiceList(r)]_memberVars

\* Storing the list with one service changed undoes what was requested since
\* the list was made, a registration or a deregistration, but nothing else:
\* neither what was requested before nor what was received in the exchange.
OnlyMeanwhileUndone ==
    [][\A r \in Peers : SetServiceList(r) =>
          \E s \in Service :
              s.nodeId = r /\ Differing(registry[r], registry'[r])
                                \subseteq meanwhile \cup {s, [s EXCEPT !.is_alive = ~@]}]_memberVars

\* The position a comparison advances to in the map is a key of it, although
\* requests add and empty types after the tree was built (std::advance in
\* compareAndSyncTree).
LeavesWithinKeys ==
    \A r \in Peers : Len(tree[r]) <= Cardinality(DOMAIN registry[r])

(***************************************************************************)
(* A property the header's description of the registry implies.            *)
(***************************************************************************)

\* The loop outlives services that join and leave.
NeverEnds == ~ended
=============================================================================
