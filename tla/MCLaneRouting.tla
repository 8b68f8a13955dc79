--------------------------- MODULE MCLaneRouting ---------------------------
(***************************************************************************)
(* Files an operator may deploy, after configs/lanes.example.json: a local *)
(* lane of low effort, a local one that serves synthesis, a cloud lane for *)
(* hard calls; with the grant of the cloud taken back, another owner of a  *)
(* backend's name, a lane renamed, a name used twice, names written with  *)
(* padding, a file that does not load and stub mode.                                                     *)
(***************************************************************************)
EXTENDS LaneRouting

MCBackendIds == {"local-inference", "cloud-accelerator", BuiltIn}

MCWords == {"comprehension", "fast", "synthesis", "verification", "abstention", "accelerator", Anything}

Entry(name, backend, roles, min, max, priority) ==
    [name |-> name, exact |-> TRUE, backend |-> backend, bare |-> TRUE, roles |-> roles,
     min |-> min, max |-> max, priority |-> priority, enabled |-> TRUE]

Tactical == Entry(2, "local-inference", {"comprehension", "fast"}, 0, 1, 10)
Reasoning == Entry(1, "local-inference", {"synthesis", "verification"}, 0, 1, 10)
Cloud == Entry(3, "cloud-accelerator", {"accelerator"}, 1, 3, 90)

Server == [kind |-> "local", enabled |-> TRUE, endpoint |-> TRUE, model |-> FALSE]
Hosted == [kind |-> "cloud", enabled |-> TRUE, endpoint |-> TRUE, model |-> TRUE]
Unset == [kind |-> "cloud", enabled |-> TRUE, endpoint |-> FALSE, model |-> FALSE]

Config(lanes, local, cloud) ==
    [lanes |-> lanes, stub |-> FALSE, provider |-> Unset,
     backends |-> [b \in {"local-inference", "cloud-accelerator"} |->
                     IF b = "local-inference" THEN local ELSE cloud]]

Granted == Config(<<Tactical, Reasoning, Cloud>>, Server, Hosted)
TakenBack == Config(<<Tactical, Reasoning, Cloud>>, Server, [Hosted EXCEPT !.enabled = FALSE])
NotSet == Config(<<Tactical, Reasoning, Cloud>>, Server, Unset)
Moved == Config(<<Tactical, Reasoning, Cloud>>, [Hosted EXCEPT !.endpoint = TRUE], Hosted)
Renamed == Config(<<[Reasoning EXCEPT !.name = 4], Tactical>>, Server, Hosted)
Twice == Config(<<[Cloud EXCEPT !.name = 2, !.enabled = FALSE], Tactical>>, Server, Hosted)
Padded == Config(<<[Tactical EXCEPT !.exact = FALSE], [Reasoning EXCEPT !.bare = FALSE], Cloud>>,
                 Server, Hosted)
Broken == Config(<<[Tactical EXCEPT !.min = 2], Reasoning>>, Server, Hosted)
Stubbed == [Granted EXCEPT !.stub = TRUE]

\* operator-provider, declared for the router, and used without an entry by the gateway.
Provider == Entry(1, BuiltIn, {Anything}, 0, 3, 10)
OwnProvider == [lanes |-> <<Provider>>, stub |-> FALSE, provider |-> Hosted,
                backends |-> [b \in {BuiltIn} |-> Server]]
Implicit == [OwnProvider EXCEPT !.backends = [b \in {} |-> Server]]

MCConfigs == {Granted, TakenBack, NotSet, Moved, Renamed, Twice, Padded, Broken, Stubbed,
              OwnProvider, Implicit}

MCGranted == {Granted}

MCRequests == {[words |-> {"comprehension", "fast"}, effort |-> 0],
               [words |-> {"synthesis"}, effort |-> 1],
               [words |-> {"synthesis"}, effort |-> 3],
               [words |-> {"verification"}, effort |-> 2],
               [words |-> {"abstention"}, effort |-> 0]}
=============================================================================
