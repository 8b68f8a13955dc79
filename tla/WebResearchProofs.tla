------------------------- MODULE WebResearchProofs --------------------------
(***************************************************************************)
(* What WebResearch promises, for every set of requests and of pages and   *)
(* every bound on hops, messages and results.                              *)
(***************************************************************************)
EXTENDS WebResearch, FiniteSetTheorems, TLAPS

Stages == Checks \cup Ended \cup {"idle", "getting", "connecting", "loading", "evaluating"}

Browsing == {"opening", "connecting", "loading", "evaluating", "located"}

(* The tables of the requests.                                             *)
Tables ==
    /\ pc \in [Requests -> Stages]
    /\ op \in [Requests -> {None, "search", "plain", "render"}]
    /\ url \in [Requests -> Pages \cup {None}]
    /\ page \in [Requests -> Pages \cup {None}]
    /\ hop \in [Requests -> 0 .. Hops]
    /\ waited \in [Requests -> 0 .. Loads]
    /\ links \in [Requests -> SUBSET Pages]
    /\ results \in [Requests -> SUBSET Pages]
    /\ answer \in [Requests -> [text : Pages \cup {None}, rendered : BOOLEAN]]
    /\ resolving \in Requests \cup {None}
    /\ cleared \in [Requests -> SUBSET Pages]

(* Where a request is bounds what it has counted and where it stands.      *)
Place(r) ==
    /\ pc[r] = "checking" => hop[r] < Hops
    /\ pc[r] \in {"getting", "connecting"} => url[r] \in cleared[r]
    /\ pc[r] = "getting" => hop[r] < Hops
    /\ pc[r] \in {"idle", "checking", "getting", "opening", "connecting"} => waited[r] = 0
    /\ pc[r] = "idle" => hop[r] = 0
    /\ pc[r] \in {"idle", "checking", "getting"} => links[r] = {} /\ results[r] = {}
    /\ pc[r] = "loading" => waited[r] < Loads
    /\ pc[r] \in {"evaluating", "located"} => waited[r] > 0
    /\ pc[r] \in Browsing => op[r] = "render" /\ page[r] \in Texts \cap cleared[r]
    /\ results[r] \subseteq cleared[r]
    /\ pc[r] = "answered" =>
          /\ answer[r].text \in cleared[r]
          /\ ~answer[r].rendered => answer[r].text = page[r] /\ page[r] \in Texts
          /\ answer[r].rendered => op[r] = "render" /\ waited[r] > 0

IInv == Tables /\ \A r \in Requests : Place(r)

(* What a search has kept of the page it came to: what is neither kept nor *)
(* still to check is not always public, and the link that is being looked  *)
(* up has a place left.                                                    *)
Kept(r) ==
    /\ pc[r] \in {"listing", "listed"} =>
          /\ page[r] \in Pages /\ results[r] \cup links[r] \subseteq Offers[page[r]]
          /\ Offers[page[r]] \cap Always \subseteq results[r] \cup links[r]
    /\ IsFiniteSet(results[r]) /\ Cardinality(results[r]) <= Limit
    /\ pc[r] = "listing" /\ resolving = r =>
          url[r] \in links[r] /\ Cardinality(results[r]) < Limit
    /\ pc[r] = "listed" => links[r] = {} \/ Cardinality(results[r]) = Limit

LEMMA InitInv == Init => IInv
<1> USE WebAssumption
<1>1. Init => Tables
  BY DEF Init, Tables, Stages, Checks, Ended, NoAnswer
<1>2. Init => \A r \in Requests : Place(r)
  BY DEF Init, Place, Browsing
<1> QED
  BY <1>1, <1>2 DEF IInv

(* A step changes the tables at its own request only.                      *)
Others(r) == \A s \in Requests \ {r} :
    /\ pc'[s] = pc[s] /\ op'[s] = op[s] /\ url'[s] = url[s] /\ hop'[s] = hop[s]
    /\ page'[s] = page[s] /\ waited'[s] = waited[s] /\ links'[s] = links[s]
    /\ results'[s] = results[s] /\ answer'[s] = answer[s] /\ cleared'[s] = cleared[s]

LEMMA OthersKeep ==
  ASSUME IInv, NEW r \in Requests, Others(r), Place(r)', Tables'
  PROVE  IInv'
<1>1. ASSUME NEW s \in Requests PROVE Place(s)'
  <2>1. CASE s = r
    BY <2>1
  <2>2. CASE s # r
    BY <2>2 DEF IInv, Place, Others
  <2> QED
    BY <2>1, <2>2
<1> QED
  BY <1>1 DEF IInv

LEMMA AnswerTyped ==
  ASSUME Tables, NEW r \in Requests, NEW text \in Pages \cup {None}, NEW rendered \in BOOLEAN,
         Answers(r, text, rendered)
  PROVE  answer' \in [Requests -> [text : Pages \cup {None}, rendered : BOOLEAN]]
<1>1. [text |-> text, rendered |-> rendered] \in [text : Pages \cup {None}, rendered : BOOLEAN]
  OBVIOUS
<1> QED
  BY <1>1 DEF Tables, Answers

LEMMA BeginKeeps ==
  ASSUME IInv, NEW r \in Requests, NEW what \in {"search", "plain", "render"}, NEW u \in Pages,
         Begin(r, what, u)
  PROVE  IInv'
<1> USE WebAssumption
<1>1. Tables'
  BY DEF IInv, Tables, Begin, Goes, Stages, Checks
<1>2. Others(r)
  BY DEF IInv, Tables, Begin, Goes, Others
<1>3. Place(r)'
  BY DEF IInv, Tables, Begin, Goes, At, Place, Browsing
<1> QED
  BY <1>1, <1>2, <1>3, OthersKeep

LEMMA ResolveKeeps ==
  ASSUME IInv, NEW r \in Requests, Resolve(r)
  PROVE  IInv'
BY DEF IInv, Tables, Resolve, Place

LEMMA PermittedKeeps ==
  ASSUME IInv, NEW r \in Requests, Permitted(r)
  PROVE  IInv'
<1> USE WebAssumption
<1>1. Tables'
  <2>1. resolving' = None /\ UNCHANGED <<op, url, hop, page, waited, links, results>>
    BY DEF Permitted
  <2>2. pc' \in [Requests -> Stages]
    BY DEF IInv, Tables, Permitted, Goes, Answers, Stages, Ended
  <2>3. answer' \in [Requests -> [text : Pages \cup {None}, rendered : BOOLEAN]]
    <3>1. CASE UNCHANGED answer
      BY <3>1 DEF IInv, Tables
    <3>2. CASE Answers(r, url[r], TRUE)
      BY <3>2, AnswerTyped DEF IInv, Tables
    <3> QED
      BY <3>1, <3>2 DEF Permitted
  <2>4. cleared' \in [Requests -> SUBSET Pages]
    BY DEF IInv, Tables, Permitted, Clears
  <2> QED
    BY <2>1, <2>2, <2>3, <2>4 DEF IInv, Tables
<1>2. Others(r)
  BY DEF IInv, Tables, Permitted, Goes, Answers, Clears, Others
<1>3. Place(r)'
  <2>1. CASE pc[r] = "checking"
    BY <2>1 DEF IInv, Tables, Permitted, Goes, Answers, Clears, Place, Browsing
  <2>2. CASE pc[r] = "opening"
    BY <2>2 DEF IInv, Tables, Permitted, Goes, Answers, Clears, Place, Browsing
  <2>3. CASE pc[r] = "located"
    BY <2>3 DEF IInv, Tables, Permitted, Goes, Answers, Clears, Place, Browsing
  <2> QED
    BY <2>1, <2>2, <2>3 DEF Permitted
<1> QED
  BY <1>1, <1>2, <1>3, OthersKeep

LEMMA RejectedKeeps ==
  ASSUME IInv, NEW r \in Requests, Rejected(r)
  PROVE  IInv'
<1> USE WebAssumption
<1>1. Tables'
  <2>1. resolving' = None /\ UNCHANGED <<op, url, hop, page, waited, links, results, cleared>>
    BY DEF Rejected
  <2>2. pc' \in [Requests -> Stages]
    BY DEF IInv, Tables, Rejected, Goes, AnswersPlain, Answers, Stages, Ended
  <2>3. answer' \in [Requests -> [text : Pages \cup {None}, rendered : BOOLEAN]]
    <3>1. CASE UNCHANGED answer
      BY <3>1 DEF IInv, Tables
    <3>2. CASE Answers(r, page[r], FALSE)
      BY <3>2, AnswerTyped DEF IInv, Tables
    <3> QED
      BY <3>1, <3>2 DEF Rejected, AnswersPlain
  <2> QED
    BY <2>1, <2>2, <2>3 DEF IInv, Tables
<1>2. Others(r)
  BY DEF IInv, Tables, Rejected, Goes, AnswersPlain, Answers, Others
<1>3. Place(r)'
  BY DEF IInv, Tables, Rejected, Goes, AnswersPlain, Answers, Place, Browsing
<1> QED
  BY <1>1, <1>2, <1>3, OthersKeep

LEMMA RedirectKeeps ==
  ASSUME IInv, NEW r \in Requests, NEW target \in Pages, Redirect(r, target)
  PROVE  IInv'
<1> USE WebAssumption
<1>0. hop[r] \in Nat /\ hop[r] < Hops
  BY DEF IInv, Tables, Place, Redirect, At
<1>1. Tables'
  BY <1>0 DEF IInv, Tables, Redirect, Goes, Stages, Checks, Ended
<1>2. Others(r)
  BY DEF IInv, Tables, Redirect, Goes, Others
<1>3. Place(r)'
  BY <1>0 DEF IInv, Tables, Redirect, Goes, At, Place, Browsing
<1> QED
  BY <1>1, <1>2, <1>3, OthersKeep

LEMMA GotKeeps ==
  ASSUME IInv, NEW r \in Requests, Got(r)
  PROVE  IInv'
<1> USE WebAssumption
<1>0. pc[r] = "getting" /\ url[r] \in cleared[r]
  BY DEF IInv, Place, Got, At
<1>1. Tables'
  <2>1. UNCHANGED <<op, url, hop, waited, results, resolving, cleared>>
    BY DEF Got
  <2>2. pc' \in [Requests -> Stages]
    BY DEF IInv, Tables, Got, Goes, Answers, Stages, Ended, Checks
  <2>3. answer' \in [Requests -> [text : Pages \cup {None}, rendered : BOOLEAN]]
    <3>1. CASE UNCHANGED answer
      BY <3>1 DEF IInv, Tables
    <3>2. CASE Answers(r, url[r], FALSE)
      BY <3>2, AnswerTyped DEF IInv, Tables
    <3> QED
      BY <3>1, <3>2 DEF Got
  <2>4. page' \in [Requests -> Pages \cup {None}] /\ links' \in [Requests -> SUBSET Pages]
    <3>1. page' \in [Requests -> Pages \cup {None}]
      BY DEF IInv, Tables, Got
    <3>2. CASE UNCHANGED links
      BY <3>1, <3>2 DEF IInv, Tables
    <3>3. CASE links' = [links EXCEPT ![r] = Offers[url[r]]]
      <4>1. url[r] \in Pages
        BY <1>0 DEF IInv, Tables
      <4>2. Offers[url[r]] \in SUBSET Pages
        BY <4>1
      <4>3. links \in [Requests -> SUBSET Pages]
        BY DEF IInv, Tables
      <4> HIDE WebAssumption
      <4>4. links' \in [Requests -> SUBSET Pages]
        BY <3>3, <4>2, <4>3
      <4> QED
        BY <3>1, <4>4
    <3> QED
      BY <3>1, <3>2, <3>3 DEF Got
  <2> QED
    BY <2>1, <2>2, <2>3, <2>4 DEF IInv, Tables
<1>2. Others(r)
  BY DEF IInv, Tables, Got, Goes, Answers, Others
<1>3. Place(r)'
  <2>1. CASE op[r] = "search" /\ Goes(r, "listing")
    BY <2>1, <1>0 DEF IInv, Tables, Got, Goes, Place, Browsing
  <2>2. CASE url[r] \notin Texts /\ Goes(r, "refused")
    BY <2>2, <1>0 DEF IInv, Tables, Got, Goes, Place, Browsing
  <2>3. CASE url[r] \in Texts /\ Answers(r, url[r], FALSE)
    BY <2>3, <1>0 DEF IInv, Tables, Got, Answers, Goes, Place, Browsing
  <2>4. CASE op[r] = "render" /\ url[r] \in Texts /\ Goes(r, "opening")
    BY <2>4, <1>0 DEF IInv, Tables, Got, Goes, Place, Browsing
  <2> QED
    BY <2>1, <2>2, <2>3, <2>4 DEF Got
<1> QED
  BY <1>1, <1>2, <1>3, OthersKeep

(* The steps that only move on or list a link.                             *)
LEMMA SimpleKeeps ==
  ASSUME IInv, NEW r \in Requests, GetFails(r) \/ List(r) \/ Connect(r)
  PROVE  IInv'
<1> USE WebAssumption
<1>1. Tables'
  BY DEF IInv, Tables, GetFails, List, Connect, Goes, Stages, Ended
<1>2. Others(r)
  BY DEF IInv, Tables, GetFails, List, Connect, Goes, Others
<1>3. Place(r)'
  BY DEF IInv, Tables, GetFails, List, Connect, Goes, At, Place, Browsing
<1> QED
  BY <1>1, <1>2, <1>3, OthersKeep

LEMMA LinksKeep ==
  ASSUME IInv, NEW r \in Requests,
         KeepLink(r) \/ SkipLink(r) \/ LinkRaises(r) \/ \E target \in Pages : ResolveLink(r, target)
  PROVE  IInv'
<1> USE WebAssumption
<1>1. CASE KeepLink(r)
  <2>1. Tables'
    BY <1>1 DEF IInv, Tables, KeepLink, Passes, Clears
  <2>2. Others(r)
    BY <1>1 DEF IInv, Tables, KeepLink, Passes, Clears, Others
  <2>3. Place(r)'
    BY <1>1 DEF IInv, Tables, KeepLink, Passes, Clears, Place, Browsing
  <2> QED
    BY <2>1, <2>2, <2>3, OthersKeep
<1>2. ASSUME NEW target \in Pages, ResolveLink(r, target) PROVE IInv'
  <2>1. Tables'
    BY <1>2 DEF IInv, Tables, ResolveLink
  <2>2. Others(r)
    BY <1>2 DEF IInv, Tables, ResolveLink, Others
  <2>3. Place(r)'
    BY <1>2 DEF IInv, Tables, ResolveLink, At, Place, Browsing
  <2> QED
    BY <2>1, <2>2, <2>3, OthersKeep
<1>3. CASE SkipLink(r) \/ LinkRaises(r)
  <2>1. Tables'
    BY <1>3 DEF IInv, Tables, SkipLink, LinkRaises, Passes, Goes, Stages, Ended
  <2>2. Others(r)
    BY <1>3 DEF IInv, Tables, SkipLink, LinkRaises, Passes, Goes, Others
  <2>3. Place(r)'
    BY <1>3 DEF IInv, Tables, SkipLink, LinkRaises, Passes, Goes, Place, Browsing
  <2> QED
    BY <2>1, <2>2, <2>3, OthersKeep
<1> QED
  BY <1>1, <1>2, <1>3

LEMMA MessageKeeps ==
  ASSUME IInv, NEW r \in Requests, Message(r)
  PROVE  IInv'
<1> USE WebAssumption
<1>0. waited[r] \in Nat /\ waited[r] < Loads /\ pc[r] = "loading"
  BY DEF IInv, Tables, Place, Message, At
<1>1. Tables'
  <2>1. waited' \in [Requests -> 0 .. Loads]
    <3>1. waited[r] + 1 \in 0 .. Loads
      BY <1>0
    <3> QED
      BY <3>1 DEF IInv, Tables, Message
  <2>2. pc' \in [Requests -> Stages]
    BY DEF IInv, Tables, Message, Goes, Stages
  <2> QED
    BY <2>1, <2>2 DEF IInv, Tables, Message
<1>2. Others(r)
  BY DEF IInv, Tables, Message, Goes, Others
<1>3. Place(r)'
  <2>1. waited'[r] = waited[r] + 1
    BY DEF IInv, Tables, Message
  <2>2. CASE Goes(r, "evaluating")
    BY <2>1, <2>2, <1>0 DEF IInv, Tables, Message, Goes, Place, Browsing
  <2>3. CASE waited[r] + 1 < Loads /\ Goes(r, "loading")
    BY <2>1, <2>3, <1>0 DEF IInv, Tables, Message, Goes, Place, Browsing
  <2> QED
    BY <2>2, <2>3 DEF Message
<1> QED
  BY <1>1, <1>2, <1>3, OthersKeep

LEMMA LocatedKeeps ==
  ASSUME IInv, NEW r \in Requests, Located(r) \/ \E target \in Pages : Wander(r, target)
  PROVE  IInv'
<1> USE WebAssumption
<1>1. PICK from \in Pages \cup {None} : url' = [url EXCEPT ![r] = from]
  BY DEF IInv, Tables, Located, Wander
<1>2. CASE Located(r)
  <2>1. Tables'
    BY <1>1, <1>2 DEF IInv, Tables, Located, Goes, Stages, Checks
  <2>2. Others(r)
    BY <1>1, <1>2 DEF IInv, Tables, Located, Goes, Others
  <2>3. Place(r)'
    BY <1>1, <1>2 DEF IInv, Tables, Located, Goes, At, Place, Browsing
  <2> QED
    BY <2>1, <2>2, <2>3, OthersKeep
<1>3. ASSUME NEW target \in Pages, Wander(r, target) PROVE IInv'
  <2>1. Tables'
    BY <1>3 DEF IInv, Tables, Wander
  <2>2. Others(r)
    BY <1>3 DEF IInv, Tables, Wander, Others
  <2>3. Place(r)'
    BY <1>3 DEF IInv, Tables, Wander, At, Place, Browsing
  <2> QED
    BY <2>1, <2>2, <2>3, OthersKeep
<1> QED
  BY <1>2, <1>3

LEMMA BrowserFailsKeeps ==
  ASSUME IInv, NEW r \in Requests, BrowserFails(r)
  PROVE  IInv'
<1> USE WebAssumption
<1>1. Tables'
  BY DEF IInv, Tables, BrowserFails, Goes, AnswersPlain, Answers, Stages, Ended
<1>2. Others(r)
  BY DEF IInv, Tables, BrowserFails, Goes, AnswersPlain, Answers, Others
<1>3. Place(r)'
  BY DEF IInv, Tables, BrowserFails, Goes, AnswersPlain, Answers, Place, Browsing
<1> QED
  BY <1>1, <1>2, <1>3, OthersKeep

LEMMA NextInv == IInv /\ [Next]_vars => IInv'
<1> SUFFICES ASSUME IInv, [Next]_vars PROVE IInv'
  OBVIOUS
<1>1. ASSUME NEW r \in Requests, Step(r) PROVE IInv'
  BY <1>1, ResolveKeeps, PermittedKeeps, RejectedKeeps, RedirectKeeps, GotKeeps, SimpleKeeps,
     LinksKeep, MessageKeeps, LocatedKeeps, BrowserFailsKeeps DEF Step
<1>2. ASSUME NEW r \in Requests, NEW what \in {"search", "plain", "render"}, NEW u \in Pages,
             Begin(r, what, u)
      PROVE  IInv'
  BY <1>2, BeginKeeps
<1>3. ASSUME NEW r \in Requests, NEW target \in Pages, Wander(r, target) PROVE IInv'
  BY <1>3, LocatedKeeps
<1>4. CASE UNCHANGED vars
  BY <1>4 DEF vars, IInv, Tables, Place
<1> QED
  BY <1>1, <1>2, <1>3, <1>4 DEF Next, AllEnded

LEMMA Inductive == Spec => []IInv
<1> QED
  BY InitInv, NextInv, PTL DEF Spec

(* The state is always of its type, with every count within its bound      *)
(* (main.py:77, 100).                                                      *)
THEOREM TypeCorrect == Spec => []TypeOK
<1>1. IInv => TypeOK
  BY DEF IInv, Tables, TypeOK, Stages
<1> QED
  BY <1>1, Inductive, PTL

(* What the service asks for, lists and answers has been looked up and     *)
(* found public, whatever each look-up gives and wherever servers and the  *)
(* browser lead (main.py:63-66, 77-85, 90, 109, 139-143).                  *)
THEOREM CheckedPages == Spec => []OnlyCheckedPages
<1>1. IInv => OnlyCheckedPages
  BY DEF IInv, Place, OnlyCheckedPages
<1> QED
  BY <1>1, Inductive, PTL

(* An answer is the text of one page, and says how it was read             *)
(* (main.py:157-165).                                                      *)
THEOREM AnswersAreOnePage == Spec => []AnswerIsOnePage
<1>1. IInv => AnswerIsOnePage
  BY DEF IInv, Place, AnswerIsOnePage
<1> QED
  BY <1>1, Inductive, PTL

-----------------------------------------------------------------------------
(* A step that leaves a request's search as it is keeps what it has kept.  *)
LEMMA KeptStill ==
  ASSUME NEW s \in Requests, Kept(s),
         links'[s] = links[s], results'[s] = results[s], page'[s] = page[s],
         pc'[s] = pc[s] \/ pc'[s] \notin {"listing", "listed"},
         resolving' = s => resolving = s /\ url'[s] = url[s]
  PROVE  Kept(s)'
BY DEF Kept

LEMMA InitKept == Init => \A r \in Requests : Kept(r)
<1>1. IsFiniteSet({}) /\ Cardinality({}) = 0
  BY FS_EmptySet
<1> QED
  BY <1>1, WebAssumption DEF Init, Kept

LEMMA GotKept ==
  ASSUME IInv, NEW r \in Requests, Kept(r), Got(r)
  PROVE  Kept(r)'
<1> USE WebAssumption
<1>1. /\ pc[r] = "getting" /\ links[r] = {} /\ results[r] = {} /\ url[r] \in Pages
      /\ results' = results /\ page' = [page EXCEPT ![r] = url[r]]
      /\ resolving' = None /\ r # None
  BY DEF Got, At, IInv, Tables, Place
<1>2. page'[r] = url[r]
  BY <1>1 DEF IInv, Tables
<1>3. CASE op[r] = "search"
  <2>1. links'[r] = Offers[url[r]] /\ pc'[r] = "listing"
    BY <1>3 DEF Got, Goes, IInv, Tables
  <2> QED
    BY <1>1, <1>2, <2>1 DEF Kept
<1>4. CASE op[r] # "search"
  <2>1. pc'[r] \notin {"listing", "listed"}
    BY <1>4 DEF Got, Answers, Goes, IInv, Tables
  <2> QED
    BY <1>1, <2>1 DEF Kept
<1> QED
  BY <1>3, <1>4

LEMMA KeepLinkKept ==
  ASSUME IInv, NEW r \in Requests, Kept(r), KeepLink(r)
  PROVE  Kept(r)'
<1> USE WebAssumption
<1>1. /\ pc[r] = "listing" /\ pc' = pc /\ page' = page /\ resolving' = None /\ r # None
      /\ url[r] \in links[r] /\ Cardinality(results[r]) < Limit
  BY DEF KeepLink, Passes, Kept
<1>2. links'[r] = links[r] \ {url[r]} /\ results'[r] = results[r] \cup {url[r]}
  BY DEF KeepLink, Passes, IInv, Tables
<1>3. /\ IsFiniteSet(results'[r])
      /\ Cardinality(results'[r]) \in {Cardinality(results[r]), Cardinality(results[r]) + 1}
  <2>1. IsFiniteSet(results[r])
    BY DEF Kept
  <2>2. /\ IsFiniteSet(results[r] \cup {url[r]})
        /\ Cardinality(results[r] \cup {url[r]})
             = IF url[r] \in results[r] THEN Cardinality(results[r])
                                       ELSE Cardinality(results[r]) + 1
    BY <2>1, FS_AddElement
  <2> QED
    BY <1>2, <2>2
<1>4. Cardinality(results[r]) \in Nat
  BY FS_CardinalityType DEF Kept
<1>5. Cardinality(results'[r]) <= Limit
  BY <1>1, <1>3, <1>4
<1> QED
  BY <1>1, <1>2, <1>3, <1>5 DEF Kept

LEMMA PassedKept ==
  ASSUME IInv, NEW r \in Requests, Kept(r), SkipLink(r) \/ LinkRaises(r)
  PROVE  Kept(r)'
<1> USE WebAssumption
<1>1. /\ pc[r] = "listing" /\ results' = results /\ page' = page
      /\ resolving' = None /\ r # None
      /\ links'[r] = links[r] \ {url[r]}
  BY DEF SkipLink, LinkRaises, Passes, IInv, Tables
<1>2. CASE SkipLink(r)
  BY <1>1, <1>2 DEF SkipLink, Kept
<1>3. CASE LinkRaises(r)
  <2>1. pc'[r] = "refused"
    BY <1>3 DEF LinkRaises, Goes, IInv, Tables
  <2> QED
    BY <1>1, <2>1 DEF Kept
<1> QED
  BY <1>2, <1>3

LEMMA ResolveLinkKept ==
  ASSUME IInv, NEW r \in Requests, Kept(r), NEW target \in Pages, ResolveLink(r, target)
  PROVE  Kept(r)'
<1>1. url'[r] = target /\ target \in links[r] /\ Cardinality(results[r]) < Limit
  BY DEF ResolveLink, IInv, Tables
<1> QED
  BY <1>1 DEF ResolveLink, At, Kept

LEMMA ListKept ==
  ASSUME IInv, NEW r \in Requests, Kept(r), List(r)
  PROVE  Kept(r)'
<1>1. /\ pc[r] = "listing" /\ pc'[r] = "listed" /\ resolving' = None
      /\ results' = results /\ links' = links /\ page' = page
      /\ links[r] = {} \/ Cardinality(results[r]) >= Limit
  BY DEF List, At, Goes, IInv, Tables
<1>2. Cardinality(results[r]) \in Nat /\ Limit \in Nat
  BY FS_CardinalityType, WebAssumption DEF Kept
<1>3. links[r] = {} \/ Cardinality(results[r]) = Limit
  BY <1>1, <1>2 DEF Kept
<1> QED
  BY <1>1, <1>3, WebAssumption DEF Kept

(* No other step touches what a search has kept.                           *)
LEMMA RestKept ==
  ASSUME IInv, NEW r \in Requests, Kept(r),
         \/ Resolve(r) \/ Permitted(r) \/ Rejected(r) \/ GetFails(r) \/ Connect(r)
         \/ Message(r) \/ Located(r) \/ BrowserFails(r)
         \/ (\E target \in Pages : Redirect(r, target) \/ Wander(r, target))
         \/ (\E what \in {"search", "plain", "render"}, u \in Pages : Begin(r, what, u))
  PROVE  Kept(r)'
<1> USE WebAssumption
<1>1. links'[r] = links[r] /\ results'[r] = results[r] /\ page'[r] = page[r]
  BY DEF Resolve, Permitted, Rejected, GetFails, Connect, Message, Located, BrowserFails,
         Redirect, Wander, Begin
<1>2. pc'[r] \notin {"listing", "listed"}
  BY DEF Resolve, Permitted, Rejected, GetFails, Connect, Message, Located, BrowserFails,
         Redirect, Wander, Begin, At, Goes, AnswersPlain, Answers, Checks, IInv, Tables
<1> QED
  BY <1>1, <1>2 DEF Kept

LEMMA StepKept ==
  ASSUME IInv, \A s \in Requests : Kept(s), [Next]_vars
  PROVE  \A s \in Requests : Kept(s)'
<1> USE WebAssumption
<1>1. ASSUME NEW r \in Requests,
             \/ Step(r)
             \/ \E what \in {"search", "plain", "render"}, u \in Pages : Begin(r, what, u)
             \/ \E target \in Pages : Wander(r, target)
      PROVE  \A s \in Requests : Kept(s)'
  <2>1. Kept(r)'
    BY <1>1, GotKept, KeepLinkKept, PassedKept, ResolveLinkKept, ListKept, RestKept DEF Step
  <2>2. ASSUME NEW s \in Requests \ {r} PROVE Kept(s)'
    <3>1. /\ links'[s] = links[s] /\ results'[s] = results[s] /\ page'[s] = page[s]
          /\ pc'[s] = pc[s]
      BY <1>1 DEF IInv, Tables, Step, Begin, Wander, Resolve, Permitted, Rejected, Redirect,
                  ResolveLink, Got, GetFails, KeepLink, SkipLink, LinkRaises, Passes, List,
                  Connect, Message, Located, BrowserFails, AnswersPlain, Answers, Goes
    <3>2. resolving' # s
      BY <1>1 DEF Step, Begin, Wander, Resolve, Permitted, Rejected, Redirect,
                  ResolveLink, Got, GetFails, KeepLink, SkipLink, LinkRaises, Passes, List,
                  Connect, Message, Located, BrowserFails, At
    <3> QED
      BY <3>1, <3>2, KeptStill
  <2> QED
    BY <2>1, <2>2
<1>2. CASE UNCHANGED vars
  BY <1>2 DEF vars, Kept
<1> QED
  BY <1>1, <1>2 DEF Next, AllEnded

(* A search that is answered has as many results as it may or every link   *)
(* of its page that all look-ups find public (main.py:134-146).            *)
THEOREM SearchesAreComplete == Spec => []ResultsComplete
<1> DEFINE AllKept == \A r \in Requests : Kept(r)
<1>1. AllKept => ResultsComplete
  BY DEF Kept, ResultsComplete
<1>2. Init => AllKept
  BY InitKept
<1>3. IInv /\ AllKept /\ [Next]_vars => AllKept'
  BY StepKept
<1> HIDE DEF AllKept
<1> QED
  BY <1>1, <1>2, <1>3, Inductive, PTL DEF Spec
=============================================================================
