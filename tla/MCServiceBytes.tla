--------------------------- MODULE MCServiceBytes ---------------------------
(* An instance of ServiceBytes for TLC. *)
EXTENDS ServiceBytes, Bitwise

MCBitXor(a, b) == a ^^ b

AuthenticationService ==
    <<65, 117, 116, 104, 101, 110, 116, 105, 99, 97, 116, 105, 111, 110,
      83, 101, 114, 118, 105, 99, 101>>
DataService == <<68, 97, 116, 97, 83, 101, 114, 118, 105, 99, 101>>

MCTypeNames == <<AuthenticationService, DataService>>

service(c) == <<115, 101, 114, 118, 105, 99, 101, c>>
node(c) == <<110, 111, 100, 101, c>>

Entry(name, id, n) ==
    [service_name |-> name, instance_id |-> id, nodeId |-> n, is_alive |-> TRUE]

\* The service whose digest main.cpp notes as s1, and the one it notes as s2.
s1 == Entry(DataService, service(49), node(50))
s2 == Entry(DataService, service(50), node(49))

\* An id that reads like the length of a string, and one whose length needs two
\* bytes.
Lookalike == <<5, 0, 0, 0, 0, 1>>
Long == [k \in 1 .. 258 |-> 97 + (k % 26)]

MCCatalog == {s1, s2, Entry(AuthenticationService, Lookalike, node(49)),
              Entry(AuthenticationService, <<>>, Long)}

\* What testHashService notes: 22af04ed... of s1 and of s2.
Noted(s) ==
    <<34, 175, 4, 237, 213, 41, 131, 226, 76, 166, 132, 236, 198, 170, 137, 101, 65, 189>>
    \o (IF s = s1 THEN <<182, 122, 219, 185, 24, 208>> ELSE <<55, 122, 219, 185, 24, 81>>)
    \o <<112, 0, 0, 0, 0, 0, 0, 0>>

\* The digests are those that the comment in testHashService of main.cpp says
\* were printed.
DigestsAsNoted ==
    \A i \in DOMAIN Services :
        Services[i] \in {s1, s2} =>
            HashFromString(hashService(Services[i])) = Noted(Services[i])
=============================================================================
