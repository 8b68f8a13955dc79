---------------------------- MODULE LaneRouting ----------------------------
(***************************************************************************)
(* The route of a model call: the orchestrator's LaneRouter picks a lane   *)
(* (routing.py), ProviderClient names the lane and its backend to the      *)
(* inference gateway (provider.py:39-100), and the gateway, from its own   *)
(* copy of the lanes file, maps the lane again and forwards the call       *)
(* (inference_gateway/app/main.py:71-109, 175-212).                        *)
(*                                                                         *)
(* Both services read the operator's file and grants (the environment)     *)
(* when they start, and they start and stop one without the other: a call  *)
(* in flight can meet a gateway that knows another configuration.          *)
(***************************************************************************)
EXTENDS Integers, Sequences

CONSTANTS
    Configs,         \* what the operator may deploy
    Requests,        \* the calls the loop makes: the harness's words and an effort
    BackendIds,      \* the names of backends
    Words            \* roles and lanes of harnesses, and what lanes serve

Anything == "*"

BuiltIn == "operator-provider"

\* An entry as LaneRouter reads it: enabled by its own flag or by the grant it names, its
\* name and its backend made strings and stripped. The gateway takes the file's own values:
\* exact, the name is a string without padding; bare, the backend's is.
\* The order of names is that of their ranks.
Lane == [name : Nat, exact : BOOLEAN, backend : BackendIds, bare : BOOLEAN,
         roles : SUBSET Words, min : Int, max : Int, priority : Int, enabled : BOOLEAN]

Kinds == {"local", "cloud", "other"}

Backend == [kind : Kinds, enabled : BOOLEAN, endpoint : BOOLEAN, model : BOOLEAN]

\* A file that declares these backends, with the gateway's own environment.
File(declared) == [lanes : Seq(Lane), backends : [declared -> Backend], stub : BOOLEAN,
                   provider : Backend]

ASSUME RoutingAssumption ==
    /\ \A c \in Configs : \E declared \in SUBSET BackendIds : c \in File(declared)
    /\ \A r \in Requests : r.words \subseteq Words /\ r.effort \in Int

VARIABLES
    deployed,        \* the operator's file and grants
    router,          \* what the orchestrator loaded
    gateway,         \* CONFIG and the environment of the gateway
    stage,           \* where the model call in flight is
    sent,            \* the lane it was sent to, and what chose it
    served,          \* the backend it was forwarded to, and what mapped it
    route            \* the ModelCall the receipt will show

vars == <<deployed, router, gateway, stage, sent, served, route>>
services == <<deployed, router, gateway>>

Down == [lanes |-> << >>]            \* a service that does not run

-----------------------------------------------------------------------------

Declared(config, backend) == backend \in DOMAIN config.backends

\* Mutant of Kept: the backend's grant is not looked at.
KeptUngranted(config) == {i \in DOMAIN config.lanes : config.lanes[i].enabled}

\* The lanes LaneRouter keeps.
Kept(config) ==
    {i \in DOMAIN config.lanes :
        config.lanes[i].enabled /\ config.backends[config.lanes[i].backend].enabled}

\* LaneRouter.__init__ raises on any other file.
Loadable(config) ==
    /\ config.lanes # << >>
    /\ \A i \in DOMAIN config.lanes : Declared(config, config.lanes[i].backend)
    /\ Kept(config) # {}
    /\ \A i \in Kept(config) :
          /\ config.lanes[i].min <= config.lanes[i].max
          /\ config.backends[config.lanes[i].backend].kind \in {"local", "cloud"}

InBand(config, request) ==
    {i \in Kept(config) : config.lanes[i].min <= request.effort /\ request.effort <= config.lanes[i].max}

Serving(config, request) ==
    {i \in InBand(config, request) :
        (request.words \cup {Anything}) \cap config.lanes[i].roles # {}}

\* The lanes that serve the role; else all of the effort band; else all there are.
Candidates(config, request) ==
    IF Serving(config, request) # {} THEN Serving(config, request)
    ELSE IF InBand(config, request) # {} THEN InBand(config, request)
    ELSE Kept(config)

\* Mutant of Before: equal priorities keep the order of the file.
BeforeByPriority(lanes, i, j) ==
    \/ lanes[i].priority < lanes[j].priority
    \/ lanes[i].priority = lanes[j].priority /\ i <= j

\* The sort by priority and name is stable.
Before(lanes, i, j) ==
    \/ lanes[i].priority < lanes[j].priority
    \/ /\ lanes[i].priority = lanes[j].priority
       /\ lanes[i].name < lanes[j].name \/ (lanes[i].name = lanes[j].name /\ i <= j)

\* LaneRouter.select: the first candidate.
Selected(config, request) ==
    {i \in Candidates(config, request) :
        \A j \in Candidates(config, request) : Before(config.lanes, i, j)}

-----------------------------------------------------------------------------

\* The file has that very name: what it pads, or writes as a number, equals no stripped name.
Writes(lane, name) == lane.exact /\ lane.name = name

\* lane_backend finds the first lane of that name, enabled or not.
Named(config, name) ==
    {i \in DOMAIN config.lanes : /\ Writes(config.lanes[i], name)
                                 /\ \A j \in 1 .. (i - 1) : ~Writes(config.lanes[j], name)}

\* resolve_backend: the declared backend, else the built-in one.
Resolved(config, backend) ==
    IF Declared(config, backend) THEN config.backends[backend] ELSE config.provider

\* Mutant of Usable: a disabled backend is used.
UsableUngranted(config, backend) ==
    /\ Declared(config, backend) \/ backend = BuiltIn
    /\ LET b == Resolved(config, backend)
       IN  b.kind \in {"local", "cloud"} /\ b.endpoint /\ (b.kind = "cloud" => b.model)

Usable(config, backend) ==
    /\ Declared(config, backend) \/ backend = BuiltIn
    /\ LET b == Resolved(config, backend)
       IN  /\ b.enabled
           /\ b.kind \in {"local", "cloud"}
           /\ b.endpoint
           /\ b.kind = "cloud" => b.model

\* The gateway forwards this call. It compares the backend with the file's, padding and all.
Accepts(config, name, backend) ==
    /\ \E i \in Named(config, name) : config.lanes[i].bare /\ config.lanes[i].backend = backend
    /\ Usable(config, backend)

-----------------------------------------------------------------------------

Nothing == [none |-> TRUE]

Init ==
    /\ deployed \in Configs
    /\ router = Down /\ gateway = Down
    /\ stage = "idle"
    /\ sent = Nothing /\ served = Nothing /\ route = Nothing

InFlight == stage \in {"sent", "forwarded"}

\* The operator edits the file or a grant.
Deploy ==
    /\ deployed' \in Configs
    /\ UNCHANGED <<router, gateway, stage, sent, served, route>>

\* The orchestrator starts again, if the file loads. Its turns in flight are gone.
StartRouter ==
    /\ router' = IF Loadable(deployed) THEN deployed ELSE Down
    /\ stage' = "idle"
    /\ sent' = Nothing /\ served' = Nothing /\ route' = Nothing
    /\ UNCHANGED <<deployed, gateway>>

\* The gateway starts again: what it was forwarding fails, what is yet to reach it may not.
StartGateway ==
    /\ gateway' = deployed
    /\ stage' = IF stage = "forwarded" THEN "failed" ELSE stage
    /\ UNCHANGED <<deployed, router, sent, served, route>>

\* ProviderClient.call selects, and sends the names of the lane and of its backend.
Send ==
    /\ router # Down
    /\ ~InFlight
    /\ \E request \in Requests : \E i \in Selected(router, request) :
          sent' = [request |-> request, lane |-> router.lanes[i], config |-> router]
    /\ stage' = "sent"
    /\ served' = Nothing /\ route' = Nothing
    /\ UNCHANGED services

\* The gateway checks the lane and forwards to the backend.
Forward ==
    /\ stage = "sent"
    /\ gateway # Down /\ ~gateway.stub
    /\ Accepts(gateway, sent.lane.name, sent.lane.backend)
    /\ served' = [backend |-> sent.lane.backend, config |-> gateway,
                  kind |-> Resolved(gateway, sent.lane.backend).kind]
    /\ stage' = "forwarded"
    /\ UNCHANGED <<services, sent, route>>

\* An HTTP error of the gateway; raise_for_status makes it the failure of the call.
Refuse ==
    /\ stage = "sent"
    /\ gateway # Down /\ ~gateway.stub
    /\ ~Accepts(gateway, sent.lane.name, sent.lane.backend)
    /\ stage' = "refused"
    /\ UNCHANGED <<services, sent, served, route>>

\* What calls.append records of an answer that says which backend gave it.
Record(backend, kind) ==
    /\ stage' = "recorded"
    /\ route' = [lane |-> sent.lane.name, backend |-> backend, kind |-> kind]

\* In stub mode the gateway answers by itself.
Stub ==
    /\ stage = "sent"
    /\ gateway # Down /\ gateway.stub
    /\ Record("stub", "stub")
    /\ UNCHANGED <<services, sent, served>>

\* Mutant of Answer: the record says what the router takes the backend for.
AnswerAsSent ==
    /\ stage = "forwarded"
    /\ Record(sent.lane.backend, sent.config.backends[sent.lane.backend].kind)
    /\ UNCHANGED <<services, sent, served>>

Answer ==
    /\ stage = "forwarded"
    /\ Record(served.backend, served.kind)
    /\ UNCHANGED <<services, sent, served>>

\* No gateway, a backend that fails, no answer in time.
Fail ==
    /\ InFlight
    /\ stage' = "failed"
    /\ UNCHANGED <<services, sent, served, route>>

Next ==
    \/ Deploy \/ StartRouter \/ StartGateway
    \/ Send \/ Forward \/ Refuse \/ Stub \/ Answer \/ Fail

Spec == Init /\ [][Next]_vars

-----------------------------------------------------------------------------

Sent == [request : Requests, lane : Lane, config : Configs]
Served == [backend : BackendIds, kind : Kinds, config : Configs]
Route == [lane : Nat, backend : BackendIds \cup {"stub"}, kind : Kinds \cup {"stub"}]

TypeOK ==
    /\ deployed \in Configs
    /\ router \in {c \in Configs : Loadable(c)} \cup {Down}
    /\ gateway \in Configs \cup {Down}
    /\ stage \in {"idle", "sent", "forwarded", "recorded", "refused", "failed"}
    /\ sent \in Sent \cup {Nothing}
    /\ served \in Served \cup {Nothing}
    /\ route \in Route \cup {Nothing}

(***************************************************************************)
(* A grant takes both services: a call is only ever forwarded to a backend *)
(* that was enabled, with its lane, where the lane was selected, and is    *)
(* enabled again where it was mapped. Restarting either service after a    *)
(* grant is taken back is enough to stop the calls it allowed, those       *)
(* selected before included (routing.py:49-52, main.py:84).                *)
(***************************************************************************)
GrantedByBoth ==
    served # Nothing =>
        /\ sent.lane.enabled
        /\ sent.config.backends[served.backend].enabled
        /\ Resolved(served.config, served.backend).enabled

(***************************************************************************)
(* The receipt names the backend that answered and what it is: the one the *)
(* gateway's own file maps the lane to, of the kind that file gives it,    *)
(* whatever the orchestrator took it for (provider.py:83-90,               *)
(* main.py:106-109, 211).                                                  *)
(***************************************************************************)
RouteNamesTheServer ==
    stage = "recorded" =>
        \/ route.backend = "stub" /\ served = Nothing
        \/ /\ route.backend = served.backend
           /\ route.kind = Resolved(served.config, served.backend).kind
           /\ \E i \in Named(served.config, route.lane) :
                 served.config.lanes[i].backend = route.backend

UniqueNames(config) ==
    \A i, j \in DOMAIN config.lanes : config.lanes[i].name = config.lanes[j].name => i = j

\* What lets a gateway forward a call to a lane of a router with the same file.
Reachable(config, lane) ==
    LET b == config.backends[lane.backend]
    IN  lane.exact /\ lane.bare /\ b.endpoint /\ (b.kind = "cloud" => b.model)

(***************************************************************************)
(* Two services that loaded the same file, with lane names that are unique *)
(* (the router does not check it), disagree about a call only where the    *)
(* file pads the lane's name or its backend's, or writes the name as a     *)
(* number: the router strips both and the gateway does not (routing.py:45, *)
(* 55, main.py:103-107). Every other call is refused for nothing but an    *)
(* endpoint or a model the gateway lacks (main.py:92-95).                  *)
(***************************************************************************)
AgreeingServicesAccept ==
    [][stage = "sent" /\ stage' \in {"forwarded", "refused"}
         /\ gateway = sent.config /\ UniqueNames(gateway)
         => (stage' = "forwarded" <=> Reachable(gateway, sent.lane))]_vars

\* The same lanes, listed in another order.
Reordered(config, order) ==
    [config EXCEPT !.lanes = [i \in DOMAIN config.lanes |-> config.lanes[order[i]]]]

Orders(n) == {f \in [1 .. n -> 1 .. n] :
                 /\ \A i, j \in 1 .. n : f[i] = f[j] => i = j
                 /\ \A k \in 1 .. n : \E i \in 1 .. n : f[i] = k}

(***************************************************************************)
(* The selection is deterministic: it picks one lane, the same wherever    *)
(* the file lists it (routing.py:31, 71).                                  *)
(***************************************************************************)
SelectionIgnoresOrder ==
    router # Down /\ UniqueNames(router) =>
        \A order \in Orders(Len(router.lanes)), request \in Requests :
            \E i \in DOMAIN router.lanes :
                /\ Selected(router, request) = {i}
                /\ Selected(Reordered(router, order), request) = {k \in DOMAIN order : order[k] = i}

(***************************************************************************)
(* docs/INFERENCE.md:77-82: "Cloud activation requires all of the          *)
(* following: ... an explicit harness-role assignment to the cloud lane."  *)
(***************************************************************************)
CloudOnlyWhenAssigned ==
    served # Nothing /\ served.kind = "cloud" =>
        (sent.request.words \cup {Anything}) \cap sent.lane.roles # {}
=============================================================================
