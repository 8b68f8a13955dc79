------------------------- MODULE LaneRoutingProofs -------------------------
(***************************************************************************)
(* Proofs about LaneRouting, for any configurations and requests. What     *)
(* carries them is where a lane in flight comes from: a configuration that *)
(* loaded, of whose enabled lanes it is one (SentInv), and a gateway that  *)
(* mapped it again (ServedInv).                                            *)
(***************************************************************************)
EXTENDS LaneRouting, WellFoundedInduction, TLAPS

\* The lane was one the router kept.
SentInv ==
    stage # "idle" =>
        /\ sent.config \in Configs
        /\ Loadable(sent.config)
        /\ \E i \in Kept(sent.config) : sent.lane = sent.config.lanes[i]

\* The backend was mapped by the gateway that forwarded to it.
ServedInv ==
    /\ stage \in {"idle", "sent"} => served = Nothing
    /\ stage = "forwarded" =>
          /\ served.config \in Configs
          /\ served.backend = sent.lane.backend
          /\ served.kind = Resolved(served.config, served.backend).kind
          /\ Accepts(served.config, sent.lane.name, served.backend)

Inv == TypeOK /\ SentInv /\ ServedInv /\ GrantedByBoth /\ RouteNamesTheServer

LEMMA ConfigsTyped ==
  ASSUME NEW config \in Configs
  PROVE  /\ DOMAIN config = {"lanes", "backends", "stub", "provider"}
         /\ config.lanes \in Seq(Lane) /\ config.stub \in BOOLEAN /\ config.provider \in Backend
         /\ \A b \in DOMAIN config.backends : config.backends[b] \in Backend
<1>1. PICK declared \in SUBSET BackendIds : config \in File(declared)
  BY RoutingAssumption
<1>2. QED
  BY <1>1 DEF File

LEMMA InitInv == Init => Inv
BY DEF Init, Inv, TypeOK, SentInv, ServedInv, GrantedByBoth, RouteNamesTheServer

(* What is selected is a lane that was kept. *)
LEMMA SelectedKept ==
  ASSUME NEW config, NEW request, NEW i \in Selected(config, request)
  PROVE  i \in Kept(config)
BY DEF Selected, Candidates, Serving, InBand

LEMMA LanesTyped ==
  ASSUME NEW config \in Configs, NEW i \in DOMAIN config.lanes
  PROVE  config.lanes[i] \in Lane
<1>1. config.lanes \in Seq(Lane)
  BY ConfigsTyped
<1>2. QED
  BY <1>1

(* A backend a gateway forwards to has a kind. *)
LEMMA ResolvedTyped ==
  ASSUME NEW config \in Configs, NEW backend
  PROVE  Resolved(config, backend).kind \in Kinds
BY ConfigsTyped DEF Resolved, Declared, Backend

LEMMA Step == Inv /\ [Next]_vars => Inv'
<1> SUFFICES ASSUME Inv, [Next]_vars PROVE Inv'
  OBVIOUS
<1> USE DEF Inv
<1>1. CASE Deploy
  BY <1>1 DEF Deploy, TypeOK, SentInv, ServedInv, GrantedByBoth, RouteNamesTheServer
<1>2. CASE StartRouter
  BY <1>2 DEF StartRouter, TypeOK, SentInv, ServedInv, GrantedByBoth, RouteNamesTheServer
<1>3. CASE StartGateway
  BY <1>3 DEF StartGateway, TypeOK, SentInv, ServedInv, GrantedByBoth, RouteNamesTheServer
<1>4. CASE Send
  <2>0. PICK request \in Requests : \E i \in Selected(router, request) :
           sent' = [request |-> request, lane |-> router.lanes[i], config |-> router]
    BY <1>4 DEF Send
  <2>1. PICK i \in Selected(router, request) :
           sent' = [request |-> request, lane |-> router.lanes[i], config |-> router]
    BY <2>0
  <2>2. router \in Configs /\ Loadable(router) /\ i \in Kept(router) /\ i \in DOMAIN router.lanes
    BY <1>4, SelectedKept DEF Send, TypeOK, Kept
  <2>3. TypeOK'
    BY <1>4, <2>1, <2>2, LanesTyped DEF Send, TypeOK, Sent, services
  <2>4. SentInv'
    BY <2>1, <2>2 DEF SentInv
  <2>5. QED
    BY <1>4, <2>3, <2>4 DEF Send, ServedInv, GrantedByBoth, RouteNamesTheServer
<1>5. CASE Forward
  <2>1. PICK i \in Kept(sent.config) : sent.lane = sent.config.lanes[i]
    BY <1>5 DEF Forward, SentInv
  <2>2. /\ gateway \in Configs /\ Accepts(gateway, sent.lane.name, sent.lane.backend)
        /\ served' = [backend |-> sent.lane.backend, config |-> gateway,
                      kind |-> Resolved(gateway, sent.lane.backend).kind]
        /\ stage' = "forwarded" /\ sent' = sent /\ UNCHANGED <<services, route>>
    BY <1>5 DEF Forward, TypeOK
  <2>3. sent.lane \in Lane
    BY <1>5, <2>1, LanesTyped DEF Forward, SentInv, Kept
  <2>4. TypeOK'
    BY <2>2, <2>3, ResolvedTyped DEF TypeOK, Served, Lane, services
  <2>5. SentInv' /\ ServedInv'
    BY <1>5, <2>2 DEF Forward, SentInv, ServedInv
  <2>6. GrantedByBoth'
    BY <2>1, <2>2 DEF GrantedByBoth, Kept, Accepts, Usable
  <2>7. QED
    BY <2>2, <2>4, <2>5, <2>6 DEF RouteNamesTheServer
<1>6. CASE Refuse \/ Fail
  BY <1>6 DEF Refuse, Fail, InFlight, TypeOK, SentInv, ServedInv, GrantedByBoth,
              RouteNamesTheServer, services
<1>7. CASE Stub
  <2>1. /\ stage = "sent" /\ stage' = "recorded" /\ served = Nothing
        /\ route' = [lane |-> sent.lane.name, backend |-> "stub", kind |-> "stub"]
        /\ UNCHANGED <<services, sent, served>>
    BY <1>7 DEF Stub, Record, ServedInv
  <2>2. sent.lane \in Lane
    BY <2>1, LanesTyped DEF SentInv, Kept
  <2>3. TypeOK'
    <3>1. sent.lane.name \in Nat
      BY <2>2 DEF Lane
    <3>2. route' \in Route
      BY <2>1, <3>1 DEF Route
    <3>3. QED
      BY <2>1, <3>2 DEF TypeOK, services
  <2>4. SentInv' /\ ServedInv' /\ GrantedByBoth'
    BY <2>1 DEF SentInv, ServedInv, GrantedByBoth
  <2>5. RouteNamesTheServer'
    BY <2>1 DEF RouteNamesTheServer
  <2>6. QED
    BY <2>3, <2>4, <2>5
<1>8. CASE Answer
  <2>1. /\ stage = "forwarded" /\ stage' = "recorded"
        /\ route' = [lane |-> sent.lane.name, backend |-> served.backend, kind |-> served.kind]
        /\ UNCHANGED <<services, sent, served>>
    BY <1>8 DEF Answer, Record
  <2>2. sent.lane \in Lane
    BY <2>1, LanesTyped DEF SentInv, Kept
  <2>3. /\ served.backend = sent.lane.backend /\ served.kind \in Kinds
        /\ served.kind = Resolved(served.config, served.backend).kind
        /\ Accepts(served.config, sent.lane.name, served.backend)
    BY <2>1, ResolvedTyped DEF ServedInv
  <2>4. TypeOK'
    BY <2>1, <2>2, <2>3 DEF TypeOK, Lane, Route, services
  <2>5. SentInv' /\ ServedInv' /\ GrantedByBoth'
    BY <2>1 DEF SentInv, ServedInv, GrantedByBoth
  <2>6. RouteNamesTheServer'
    BY <2>1, <2>3 DEF RouteNamesTheServer, Accepts
  <2>7. QED
    BY <2>4, <2>5, <2>6
<1>9. CASE UNCHANGED vars
  BY <1>9 DEF vars, TypeOK, SentInv, ServedInv, GrantedByBoth, RouteNamesTheServer
<1>10. QED
  BY <1>1, <1>2, <1>3, <1>4, <1>5, <1>6, <1>7, <1>8, <1>9 DEF Next

(* The inductive invariant of the route. *)
LEMMA RouteInvariant == Spec => []Inv
<1>1. QED
  BY InitInv, Step, PTL DEF Spec

-----------------------------------------------------------------------------

(* The services and the call in flight have their types. *)
THEOREM RoutingTypeCorrect == Spec => []TypeOK
<1>1. Inv => TypeOK
  BY DEF Inv
<1>2. QED
  BY RouteInvariant, <1>1, PTL

(* However the operator edits the file and whichever service restarts when, a    *)
(* call is only forwarded under a grant of the router and a grant of the gateway. *)
THEOREM GrantsTakeBothServices == Spec => []GrantedByBoth
<1>1. Inv => GrantedByBoth
  BY DEF Inv
<1>2. QED
  BY RouteInvariant, <1>1, PTL

(* What the receipt says of a call is what the gateway's own file says. *)
THEOREM ReceiptNamesTheServer == Spec => []RouteNamesTheServer
<1>1. Inv => RouteNamesTheServer
  BY DEF Inv
<1>2. QED
  BY RouteInvariant, <1>1, PTL

(* With names that are unique, a gateway with the router's file forwards exactly the  *)
(* calls to a lane whose name and backend the file writes as the router reads them    *)
(* (routing.py:45, 55 strip them, main.py:103-107 do not), with an endpoint and the   *)
(* model a cloud needs (main.py:92-95).                                               *)
THEOREM SameFileSameRoute == Spec => AgreeingServicesAccept
<1> DEFINE A == stage = "sent" /\ stage' \in {"forwarded", "refused"}
                  /\ gateway = sent.config /\ UniqueNames(gateway)
                  => (stage' = "forwarded" <=> Reachable(gateway, sent.lane))
<1>1. Inv /\ [Next]_vars => A
  <2> SUFFICES ASSUME Inv, [Next]_vars, stage = "sent", stage' \in {"forwarded", "refused"},
                      gateway = sent.config, UniqueNames(gateway)
               PROVE  stage' = "forwarded" <=> Reachable(gateway, sent.lane)
    OBVIOUS
  <2> DEFINE lane == sent.lane
  <2>1. stage' = "forwarded" <=> Accepts(gateway, lane.name, lane.backend)
    BY DEF Next, Deploy, StartRouter, StartGateway, Send, Forward, Refuse, Stub, Record, Answer,
           Fail, vars
  <2>2. PICK i \in Kept(gateway) : lane = gateway.lanes[i]
    BY DEF Inv, SentInv
  <2>3. gateway \in Configs /\ Loadable(gateway)
    BY DEF Inv, SentInv
  <2>4. /\ i \in DOMAIN gateway.lanes
        /\ \A j \in DOMAIN gateway.lanes : gateway.lanes[j].name = lane.name => j = i
    BY <2>2 DEF UniqueNames, Kept
  <2>5. Named(gateway, lane.name) = IF lane.exact THEN {i} ELSE {}
    <3>1. gateway.lanes \in Seq(Lane) /\ i \in 1 .. Len(gateway.lanes)
      BY <2>3, <2>4, ConfigsTyped
    <3>2. \A j \in 1 .. (i - 1) : j \in DOMAIN gateway.lanes /\ j # i
      BY <3>1
    <3>3. \A j \in 1 .. (i - 1) : ~Writes(gateway.lanes[j], lane.name)
      BY <2>4, <3>2 DEF Writes
    <3>4. \A j \in DOMAIN gateway.lanes : Writes(gateway.lanes[j], lane.name) <=> lane.exact /\ j = i
      BY <2>2, <2>4 DEF Writes
    <3>5. QED
      BY <2>4, <3>3, <3>4 DEF Named
  <2>6. Accepts(gateway, lane.name, lane.backend)
           <=> lane.exact /\ lane.bare /\ Usable(gateway, lane.backend)
    BY <2>2, <2>5 DEF Accepts
  <2>7. /\ Declared(gateway, lane.backend)
        /\ gateway.backends[lane.backend].enabled
        /\ gateway.backends[lane.backend].kind \in {"local", "cloud"}
    BY <2>2, <2>3 DEF Loadable, Kept
  <2>8. QED
    BY <2>1, <2>6, <2>7 DEF Usable, Resolved, Reachable
<1>2. QED
  BY RouteInvariant, <1>1, PTL DEF Spec, AgreeingServicesAccept

-----------------------------------------------------------------------------
(* The selection.                                                          *)

\* Positions of lanes of a file.
Places(lanes) == 1 .. Len(lanes)

(* The sort is a total order of the places of a file. *)
LEMMA BeforeIsTotal ==
  ASSUME NEW lanes \in Seq(Lane),
         NEW i \in Places(lanes), NEW j \in Places(lanes), NEW k \in Places(lanes)
  PROVE  /\ Before(lanes, i, i)
         /\ Before(lanes, i, j) \/ Before(lanes, j, i)
         /\ Before(lanes, i, j) /\ Before(lanes, j, i) => i = j
         /\ Before(lanes, i, j) /\ Before(lanes, j, k) => Before(lanes, i, k)
<1>1. \A x \in Places(lanes) : /\ lanes[x].priority \in Int /\ lanes[x].name \in Nat
                               /\ x \in Nat
  <2>1. \A x \in Places(lanes) : lanes[x] \in Lane /\ x \in Nat
    BY DEF Places
  <2>2. QED
    BY <2>1 DEF Lane
<1>2. QED
  BY <1>1, SMTT(30) DEF Before

(* Some places of a file have a first one. *)
LEMMA FirstExists ==
  ASSUME NEW lanes \in Seq(Lane), NEW S \in SUBSET Places(lanes), S # {}
  PROVE  \E i \in S : \A j \in S : Before(lanes, i, j)
<1> DEFINE First(A) == \E i \in A : \A j \in A : Before(lanes, i, j)
           T == {n \in Nat : n <= Len(lanes) /\ \E A \in SUBSET (1 .. n) : A # {} /\ ~First(A)}
<1>1. SUFFICES ASSUME ~First(S) PROVE FALSE
  OBVIOUS
<1>2. Len(lanes) \in Nat
  OBVIOUS
<1>3. T \subseteq Nat /\ Len(lanes) \in T
  BY <1>1, <1>2 DEF Places
<1>4. PICK n \in T : \A m \in T : <<m, n>> \notin OpToRel(<, Nat)
  <2> HIDE DEF T
  <2>1. QED
    BY <1>3, NatLessThanWellFounded, WFMin
<1>5. n \in Nat /\ n <= Len(lanes)
  BY <1>4
<1>6. PICK A \in SUBSET (1 .. n) : A # {} /\ ~First(A)
  BY <1>4
<1>7. n # 0
  <2>1. 1 .. 0 = {}
    OBVIOUS
  <2> HIDE DEF First, T
  <2>2. QED
    BY <1>6, <2>1
<1>8. n - 1 \in Nat /\ n - 1 <= Len(lanes) /\ n - 1 \notin T
  <2>1. n - 1 \in Nat /\ n - 1 <= Len(lanes) /\ n - 1 < n
    BY <1>2, <1>5, <1>7
  <2> HIDE DEF T
  <2>2. QED
    BY <1>4, <1>5, <2>1 DEF OpToRel
<1>9. \A B \in SUBSET (1 .. (n - 1)) : B # {} => First(B)
  BY <1>8
<1>10. n \in Places(lanes) /\ 1 .. n \subseteq Places(lanes)
  BY <1>2, <1>5, <1>7 DEF Places
<1>11. A \ {n} \subseteq 1 .. (n - 1)
  BY <1>5, <1>6
<1>12. n \in A
  BY <1>6, <1>9, <1>11
<1>13. Before(lanes, n, n)
  BY <1>10, BeforeIsTotal
<1>14. A \ {n} # {}
  <2>1. SUFFICES ASSUME A = {n} PROVE FALSE
    BY <1>12
  <2>2. QED
    BY <1>6, <1>13, <2>1
<1>15. PICK i \in A \ {n} : \A j \in A \ {n} : Before(lanes, i, j)
  BY <1>9, <1>11, <1>14
<1>16. i \in Places(lanes) /\ A \subseteq Places(lanes)
  BY <1>6, <1>10
<1>17. CASE Before(lanes, i, n)
  BY <1>6, <1>15, <1>17
<1>18. CASE Before(lanes, n, i)
  <2>1. \A j \in A : Before(lanes, n, j)
    BY <1>10, <1>13, <1>15, <1>16, <1>18, BeforeIsTotal
  <2>2. QED
    BY <1>6, <1>12, <2>1
<1>19. QED
  BY <1>10, <1>16, <1>17, <1>18, BeforeIsTotal

(* A file that lists the same lanes in another order has the same candidates. *)
LEMMA SameCandidates ==
  ASSUME NEW config \in Configs, NEW request, NEW order \in Orders(Len(config.lanes))
  PROVE  LET moved == Reordered(config, order)
         IN  /\ moved.lanes \in Seq(Lane) /\ Len(moved.lanes) = Len(config.lanes)
             /\ \A k \in Places(config.lanes) : moved.lanes[k] = config.lanes[order[k]]
             /\ Candidates(moved, request)
                   = {k \in Places(config.lanes) : order[k] \in Candidates(config, request)}
<1> DEFINE lanes == config.lanes
           n == Len(lanes)
           moved == Reordered(config, order)
           Back(A) == {k \in 1 .. n : order[k] \in A}
<1>1. lanes \in Seq(Lane) /\ n \in Nat /\ DOMAIN lanes = 1 .. n /\ {"lanes", "backends"} \subseteq DOMAIN config
  BY ConfigsTyped
<1>2. /\ order \in [1 .. n -> 1 .. n] /\ \A k \in 1 .. n : \E i \in 1 .. n : order[i] = k
  BY DEF Orders
<1>3. moved.lanes = [i \in 1 .. n |-> lanes[order[i]]] /\ moved.backends = config.backends
  BY <1>1 DEF Reordered
<1>4. /\ moved.lanes \in Seq(Lane) /\ Len(moved.lanes) = n /\ DOMAIN moved.lanes = 1 .. n
      /\ \A k \in 1 .. n : moved.lanes[k] = lanes[order[k]]
  BY <1>1, <1>2, <1>3, SMTT(30)
<1> HIDE DEF moved, n
<1>5. \A k : k \in Kept(moved) <=> k \in 1 .. n /\ order[k] \in Kept(config)
  BY <1>1, <1>2, <1>3, <1>4 DEF Kept
<1>6. \A k : k \in InBand(moved, request) <=> k \in 1 .. n /\ order[k] \in InBand(config, request)
  BY <1>1, <1>2, <1>4, <1>5 DEF InBand
<1>7. \A k : k \in Serving(moved, request) <=> k \in 1 .. n /\ order[k] \in Serving(config, request)
  BY <1>1, <1>2, <1>4, <1>6 DEF Serving
<1>8. Serving(config, request) \subseteq 1 .. n /\ InBand(config, request) \subseteq 1 .. n
  BY <1>1 DEF Serving, InBand, Kept
<1>9. /\ Serving(moved, request) = {} <=> Serving(config, request) = {}
      /\ InBand(moved, request) = {} <=> InBand(config, request) = {}
  BY <1>2, <1>6, <1>7, <1>8
<1>10. \A k : k \in Candidates(moved, request) <=> k \in 1 .. n /\ order[k] \in Candidates(config, request)
  BY <1>5, <1>6, <1>7, <1>9 DEF Candidates
<1>11. QED
  BY <1>4, <1>10 DEF n, moved, Places

(* The selection picks one lane, the same wherever the file lists it, for any file *)
(* whose lanes have names of their own (routing.py:31, 71).                         *)
THEOREM SelectionIsDeterministic == Spec => []SelectionIgnoresOrder
<1>1. Inv => SelectionIgnoresOrder
  <2> SUFFICES ASSUME Inv, router # Down, UniqueNames(router),
                      NEW order \in Orders(Len(router.lanes)), NEW request \in Requests
               PROVE  \E i \in DOMAIN router.lanes :
                         /\ Selected(router, request) = {i}
                         /\ Selected(Reordered(router, order), request)
                               = {k \in DOMAIN order : order[k] = i}
    BY DEF SelectionIgnoresOrder
  <2> DEFINE lanes == router.lanes
             n == Len(lanes)
             C == Candidates(router, request)
             moved == Reordered(router, order)
             M == Candidates(moved, request)
  <2>1. router \in Configs /\ Loadable(router)
    BY DEF Inv, TypeOK
  <2>2. lanes \in Seq(Lane) /\ n \in Nat /\ DOMAIN lanes = 1 .. n
    BY <2>1, ConfigsTyped
  <2>3. C \in SUBSET (1 .. n) /\ C # {}
    BY <2>1, <2>2 DEF Candidates, Serving, InBand, Kept, Loadable
  <2>4. /\ order \in [1 .. n -> 1 .. n] /\ DOMAIN order = 1 .. n
        /\ \A j, k \in 1 .. n : order[j] = order[k] => j = k
        /\ \A k \in 1 .. n : \E j \in 1 .. n : order[j] = k
    BY DEF Orders
  <2>5. /\ moved.lanes \in Seq(Lane) /\ Len(moved.lanes) = n
        /\ \A k \in 1 .. n : moved.lanes[k] = lanes[order[k]]
        /\ M = {k \in 1 .. n : order[k] \in C}
    BY <2>1, SameCandidates DEF Places
  <2>6. \A j, k \in 1 .. n : lanes[j].name = lanes[k].name => j = k
    BY <2>2 DEF UniqueNames
  <2>7. /\ Selected(router, request) = {j \in C : \A k \in C : Before(lanes, j, k)}
        /\ Selected(moved, request) = {j \in M : \A k \in M : Before(moved.lanes, j, k)}
    BY DEF Selected
  <2> HIDE DEF lanes, n, C, M, moved
  <2>8. PICK i \in C : \A j \in C : Before(lanes, i, j)
    BY <2>2, <2>3, FirstExists DEF Places, n
  <2>9. \A j \in C : (\A k \in C : Before(lanes, j, k)) => j = i
    BY <2>2, <2>3, <2>8, BeforeIsTotal DEF Places, n
  <2>10. Selected(router, request) = {i}
    BY <2>7, <2>8, <2>9
  <2>11. PICK k0 \in 1 .. n : order[k0] = i
    BY <2>3, <2>4, <2>8
  <2>12. k0 \in M /\ M \subseteq 1 .. n
    BY <2>5, <2>8, <2>11
  <2>13. \A j \in M : Before(moved.lanes, k0, j)
    <3> SUFFICES ASSUME NEW j \in M PROVE Before(moved.lanes, k0, j)
      OBVIOUS
    <3>1. j \in 1 .. n /\ order[j] \in C /\ order[j] \in 1 .. n
      BY <2>3, <2>5
    <3>2. CASE j = k0
      BY <2>5, <2>12, <3>2, BeforeIsTotal DEF Places
    <3>3. CASE j # k0
      <4>1. lanes[i].name # lanes[order[j]].name
        <5>1. order[j] # i
          BY <2>4, <2>11, <3>1, <3>3
        <5>2. QED
          BY <2>3, <2>6, <2>8, <3>1, <5>1
      <4>2. Before(lanes, i, order[j])
        BY <2>8, <3>1
      <4>3. moved.lanes[k0] = lanes[i] /\ moved.lanes[j] = lanes[order[j]]
        BY <2>5, <2>11, <3>1
      <4>4. QED
        BY <4>1, <4>2, <4>3 DEF Before
    <3>4. QED
      BY <3>2, <3>3
  <2>14. \A j \in M : (\A k \in M : Before(moved.lanes, j, k)) => j = k0
    BY <2>5, <2>12, <2>13, BeforeIsTotal DEF Places
  <2>15. Selected(moved, request) = {k0}
    BY <2>7, <2>12, <2>13, <2>14
  <2>16. {k \in 1 .. n : order[k] = i} = {k0}
    BY <2>4, <2>11
  <2>17. i \in 1 .. n
    BY <2>3, <2>8
  <2>18. {k \in DOMAIN order : order[k] = i} = {k0} /\ i \in DOMAIN lanes
    BY <2>2, <2>4, <2>16, <2>17
  <2>19. QED
    BY <2>10, <2>15, <2>18 DEF lanes, moved
<1>2. QED
  BY RouteInvariant, <1>1, PTL
=============================================================================
