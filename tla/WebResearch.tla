---------------------------- MODULE WebResearch -----------------------------
(***************************************************************************)
(* The web research service (services/web_research/app/main.py): what a    *)
(* search lists and what a fetch reads, with the redirects of servers, the *)
(* names to resolve and a browser that renders a page when it can.         *)
(*                                                                         *)
(* Requests share one event loop. getaddrinfo is called on it, so while a  *)
(* name resolves no other request takes a step; every await lets the other *)
(* requests in. A page stands for its address and its text. Each look-up   *)
(* of a name is a new one, and two look-ups of a name may differ.          *)
(***************************************************************************)
EXTENDS Naturals, FiniteSets

CONSTANTS
    Requests, Pages,
    Always,         \* the pages whose look-ups all give global addresses only
    Sometimes,      \* the pages of which some look-up does
    Malformed,      \* the addresses on which a look-up raises something of its own
    Texts,          \* the pages served as text or JSON
    Offers,         \* the links of each page, as a search reads them
    Endless,        \* the pages that may send for ever and never come to an end
    Hops,           \* 6: requests of one fetch
    Loads,          \* 80: messages awaited for the load event
    Limit,          \* up to 8: results of a search
    None

ASSUME WebAssumption ==
    /\ Always \subseteq Sometimes /\ Sometimes \subseteq Pages
    /\ Malformed \subseteq Pages \ Sometimes
    /\ Texts \subseteq Pages /\ Endless \subseteq Pages
    /\ Offers \in [Pages -> SUBSET Pages]
    /\ None \notin Pages \cup Requests
    /\ {Hops, Loads, Limit} \subseteq Nat \ {0}

VARIABLES
    pc,             \* where a request is
    op,             \* what it asks for: "search", "plain" or "render"
    url,            \* the address at hand; once a tab is open, where the browser is
    hop,            \* the requests its fetch has made
    page,           \* the page its fetch came to
    waited,         \* the messages it has awaited for the load event
    links,          \* the links a search has still to check
    results,        \* those it has kept
    answer,         \* what it answers: a page's text, and whether the browser read it
    resolving,      \* the request whose name resolution holds the event loop
    cleared         \* history: the addresses its look-ups found public, each since
                    \* it was last redirected to

vars == <<pc, op, url, hop, page, waited, links, results, answer, resolving, cleared>>

Checks == {"checking", "listing", "opening", "located"}

Ended == {"answered", "listed", "refused"}

NoAnswer == [text |-> None, rendered |-> FALSE]

Init ==
    /\ pc = [r \in Requests |-> "idle"] /\ op = [r \in Requests |-> None]
    /\ url = [r \in Requests |-> None] /\ hop = [r \in Requests |-> 0]
    /\ page = [r \in Requests |-> None] /\ waited = [r \in Requests |-> 0]
    /\ links = [r \in Requests |-> {}] /\ results = [r \in Requests |-> {}]
    /\ answer = [r \in Requests |-> NoAnswer]
    /\ resolving = None /\ cleared = [r \in Requests |-> {}]

\* The request's own step, with the event loop free.
At(r, stage) == pc[r] = stage /\ resolving = None

Goes(r, stage) == pc' = [pc EXCEPT ![r] = stage]

Answers(r, text, rendered) ==
    /\ answer' = [answer EXCEPT ![r] = [text |-> text, rendered |-> rendered]]
    /\ Goes(r, "answered")

\* What rendering falls back on, whatever went wrong with it.
AnswersPlain(r) == Answers(r, page[r], FALSE)

Begin(r, what, u) ==
    /\ At(r, "idle")
    /\ op' = [op EXCEPT ![r] = what]
    /\ url' = [url EXCEPT ![r] = u]
    /\ Goes(r, "checking")
    /\ UNCHANGED <<hop, page, waited, links, results, answer, resolving, cleared>>

-----------------------------------------------------------------------------
(* validate_url.                                                           *)

\* The name of the address at hand is looked up.
Resolve(r) ==
    /\ resolving = None /\ pc[r] \in Checks \ {"listing"}
    /\ resolving' = r
    /\ UNCHANGED <<pc, op, url, hop, page, waited, links, results, answer, cleared>>

Clears(r) == cleared' = [cleared EXCEPT ![r] = @ \cup {url[r]}]

\* This look-up gives global addresses only.
Permitted(r) ==
    /\ resolving = r /\ url[r] \in Sometimes
    /\ resolving' = None
    /\ Clears(r)
    /\ \/ pc[r] = "checking" /\ Goes(r, "getting") /\ UNCHANGED answer
       \/ pc[r] = "opening" /\ Goes(r, "connecting") /\ UNCHANGED answer
       \/ pc[r] = "located" /\ Answers(r, url[r], TRUE)
    /\ UNCHANGED <<op, url, hop, page, waited, links, results>>

\* Mutant of Rejected: what the browser read is kept when its address is rejected.
RejectedLate(r) ==
    /\ resolving = r /\ url[r] \notin Always
    /\ resolving' = None
    /\ \/ pc[r] = "checking" /\ Goes(r, "refused") /\ UNCHANGED answer
       \/ pc[r] = "opening" /\ AnswersPlain(r)
       \/ pc[r] = "located" /\ Answers(r, url[r], FALSE)
    /\ UNCHANGED <<op, url, hop, page, waited, links, results, cleared>>

\* It does not, or it raises: refused, or read without the browser.
Rejected(r) ==
    /\ resolving = r /\ url[r] \notin Always
    /\ resolving' = None
    /\ \/ pc[r] = "checking" /\ Goes(r, "refused") /\ UNCHANGED answer
       \/ pc[r] \in {"opening", "located"} /\ AnswersPlain(r)
    /\ UNCHANGED <<op, url, hop, page, waited, links, results, cleared>>

-----------------------------------------------------------------------------
(* bounded_fetch.                                                          *)

\* Mutant of Redirect: a redirect is followed without another look.
RedirectUnchecked(r, target) ==
    /\ At(r, "getting")
    /\ hop' = [hop EXCEPT ![r] = @ + 1]
    /\ url' = [url EXCEPT ![r] = target]
    /\ cleared' = [cleared EXCEPT ![r] = @ \ {target}]
    /\ Goes(r, IF hop[r] + 1 < Hops THEN "getting" ELSE "refused")
    /\ UNCHANGED <<op, page, waited, links, results, answer, resolving>>

\* Mutant of Redirect: redirects are not counted.
RedirectForever(r, target) ==
    /\ At(r, "getting")
    /\ url' = [url EXCEPT ![r] = target]
    /\ cleared' = [cleared EXCEPT ![r] = @ \ {target}]
    /\ Goes(r, "checking")
    /\ UNCHANGED <<op, hop, page, waited, links, results, answer, resolving>>

Redirect(r, target) ==
    /\ At(r, "getting")
    /\ hop' = [hop EXCEPT ![r] = @ + 1]
    /\ url' = [url EXCEPT ![r] = target]
    /\ cleared' = [cleared EXCEPT ![r] = @ \ {target}]
    /\ Goes(r, IF hop[r] + 1 < Hops THEN "checking" ELSE "refused")
    /\ UNCHANGED <<op, page, waited, links, results, answer, resolving>>

\* The page itself: a search has its links, a fetch its text if it has one.
Got(r) ==
    /\ At(r, "getting")
    /\ page' = [page EXCEPT ![r] = url[r]]
    /\ \/ /\ op[r] = "search"
          /\ links' = [links EXCEPT ![r] = Offers[url[r]]]
          /\ Goes(r, "listing")
          /\ UNCHANGED answer
       \/ /\ op[r] # "search" /\ url[r] \notin Texts
          /\ Goes(r, "refused")
          /\ UNCHANGED <<links, answer>>
       \/ /\ op[r] = "plain" /\ url[r] \in Texts
          /\ Answers(r, url[r], FALSE)
          /\ UNCHANGED links
       \/ /\ op[r] = "render" /\ url[r] \in Texts
          /\ Goes(r, "opening")
          /\ UNCHANGED <<links, answer>>
    /\ UNCHANGED <<op, url, hop, waited, results, resolving, cleared>>

\* The server does not answer in its time: an error.
GetFails(r) ==
    /\ At(r, "getting")
    /\ Goes(r, "refused")
    /\ UNCHANGED <<op, url, hop, page, waited, links, results, answer, resolving, cleared>>

-----------------------------------------------------------------------------
(* search.                                                                 *)

ResolveLink(r, target) ==
    /\ At(r, "listing") /\ target \in links[r] /\ Cardinality(results[r]) < Limit
    /\ url' = [url EXCEPT ![r] = target]
    /\ resolving' = r
    /\ UNCHANGED <<pc, op, hop, page, waited, links, results, answer, cleared>>

\* The link at hand has been looked at.
Passes(r) ==
    /\ resolving = r /\ pc[r] = "listing"
    /\ resolving' = None
    /\ links' = [links EXCEPT ![r] = @ \ {url[r]}]

\* A link that is permitted becomes a result.
KeepLink(r) ==
    /\ Passes(r) /\ url[r] \in Sometimes
    /\ Clears(r)
    /\ results' = [results EXCEPT ![r] = @ \cup {url[r]}]
    /\ UNCHANGED <<pc, op, url, hop, page, waited, answer>>

\* Mutant of SkipLink: the first link that is rejected ends the search.
StopAtLink(r) ==
    /\ Passes(r) /\ url[r] \notin Always \cup Malformed
    /\ Goes(r, "listed")
    /\ UNCHANGED <<op, url, hop, page, waited, results, answer, cleared>>

\* One that is rejected is passed over.
SkipLink(r) ==
    /\ Passes(r) /\ url[r] \notin Always \cup Malformed
    /\ UNCHANGED <<pc, op, url, hop, page, waited, results, answer, cleared>>

\* One that cannot be parsed or encoded raises what the search does not catch.
LinkRaises(r) ==
    /\ Passes(r) /\ url[r] \in Malformed
    /\ Goes(r, "refused")
    /\ UNCHANGED <<op, url, hop, page, waited, results, answer, cleared>>

List(r) ==
    /\ At(r, "listing") /\ (links[r] = {} \/ Cardinality(results[r]) >= Limit)
    /\ Goes(r, "listed")
    /\ UNCHANGED <<op, url, hop, page, waited, links, results, answer, resolving, cleared>>

-----------------------------------------------------------------------------
(* browser_text: whatever it raises, the plain text is answered.           *)

\* A tab is opened, the page is asked for.
Connect(r) ==
    /\ At(r, "connecting")
    /\ Goes(r, "loading")
    /\ UNCHANGED <<op, url, hop, page, waited, links, results, answer, resolving, cleared>>

\* A message of the page: the load event, or the last that is awaited, ends the wait.
Message(r) ==
    /\ At(r, "loading")
    /\ waited' = [waited EXCEPT ![r] = @ + 1]
    /\ Goes(r, "evaluating") \/ (waited[r] + 1 < Loads /\ Goes(r, "loading"))
    /\ UNCHANGED <<op, url, hop, page, links, results, answer, resolving, cleared>>

\* The browser follows a redirect, a script or a link of its own: nothing of the
\* service sees it.
Wander(r, target) ==
    /\ At(r, "loading") \/ At(r, "evaluating")
    /\ url' = [url EXCEPT ![r] = target]
    /\ UNCHANGED <<pc, op, hop, page, waited, links, results, answer, resolving, cleared>>

\* The answer to the evaluation: the browser's address, or the one it was given when
\* the answer has none. The messages before it are read and passed over, any number.
Located(r) ==
    /\ At(r, "evaluating")
    /\ \E from \in {url[r], page[r]} : url' = [url EXCEPT ![r] = from]
    /\ Goes(r, "located")
    /\ UNCHANGED <<op, hop, page, waited, links, results, answer, resolving, cleared>>

\* No browser, no message in its time, or one that cannot be read.
BrowserFails(r) ==
    /\ resolving = None /\ pc[r] \in {"connecting", "loading", "evaluating"}
    /\ AnswersPlain(r)
    /\ UNCHANGED <<op, url, hop, page, waited, links, results, resolving, cleared>>

-----------------------------------------------------------------------------
Step(r) ==
    \/ Resolve(r) \/ Permitted(r) \/ Rejected(r)
    \/ (\E target \in Pages : Redirect(r, target) \/ ResolveLink(r, target))
    \/ Got(r) \/ GetFails(r) \/ KeepLink(r) \/ SkipLink(r) \/ LinkRaises(r) \/ List(r)
    \/ Connect(r) \/ Message(r) \/ Located(r) \/ BrowserFails(r)

AllEnded == (\A r \in Requests : pc[r] \in Ended) /\ UNCHANGED vars

Next ==
    \/ \E r \in Requests :
          \/ Step(r)
          \/ \E what \in {"search", "plain", "render"}, u \in Pages : Begin(r, what, u)
          \/ \E target \in Pages : Wander(r, target)
    \/ AllEnded

\* Every limit of time is one of a single read or of a single message: a body that
\* keeps coming, or a page that sends other messages than the answer, has no end.
Held(r) == pc[r] \in {"getting", "evaluating"} /\ url[r] \in Endless

Progress(r) == Step(r) /\ ~Held(r)

\* Servers, the resolver and the browser answer or are given up, the endless excepted.
Spec == Init /\ [][Next]_vars /\ \A r \in Requests : SF_vars(Progress(r))

-----------------------------------------------------------------------------
(* Properties.                                                             *)

TypeOK ==
    /\ \A r \in Requests :
          /\ pc[r] \in Checks \cup Ended \cup {"idle", "getting", "connecting", "loading", "evaluating"}
          /\ op[r] \in {None, "search", "plain", "render"}
          /\ {url[r], page[r]} \subseteq Pages \cup {None}
          /\ hop[r] \in 0 .. Hops /\ waited[r] \in 0 .. Loads
          /\ links[r] \subseteq Pages /\ results[r] \subseteq Pages
          /\ answer[r] \in [text : Pages \cup {None}, rendered : BOOLEAN]
          /\ cleared[r] \subseteq Pages
    /\ resolving \in Requests \cup {None}

(***************************************************************************)
(* What the service itself asks for, lists or answers has been looked up   *)
(* by this request and found public: an address it gets, since the last    *)
(* redirect to it (main.py:63-66, 77-85, 90, 109, 139-143). It says        *)
(* nothing of where client.get's own look-up of the name leads (79), nor   *)
(* of the pages the browser goes to by itself (92-108, Wander), which no   *)
(* line of the service looks at; docs/CONNECTING-DATA.md:66, that only     *)
(* validated redirect hops are followed, says more.                        *)
(***************************************************************************)
OnlyCheckedPages ==
    \A r \in Requests :
        /\ pc[r] \in {"getting", "connecting"} => url[r] \in cleared[r]
        /\ results[r] \subseteq cleared[r]
        /\ pc[r] = "answered" => answer[r].text \in cleared[r]

(***************************************************************************)
(* An answer is the text of one page and says how it was read: without the *)
(* browser it is the page the fetch came to, even when the browser had a   *)
(* text before it failed (main.py:157-165).                                *)
(***************************************************************************)
AnswerIsOnePage ==
    \A r \in Requests : pc[r] = "answered" =>
        /\ ~answer[r].rendered => answer[r].text = page[r] /\ page[r] \in Texts
        /\ answer[r].rendered => op[r] = "render" /\ waited[r] > 0

(***************************************************************************)
(* A search that is answered lists links of the page it came to, as many   *)
(* as it may or every one that all look-ups find public: a link that is    *)
(* rejected on the way costs no other its place (main.py:134-146).         *)
(***************************************************************************)
ResultsComplete ==
    \A r \in Requests : pc[r] = "listed" =>
        /\ results[r] \subseteq Offers[page[r]] /\ Cardinality(results[r]) <= Limit
        /\ \/ Cardinality(results[r]) = Limit
           \/ Offers[page[r]] \cap Always \subseteq results[r]

(***************************************************************************)
(* A request ends, however servers redirect and names take to resolve      *)
(* (main.py:77-85, 100-103), unless its own server or page never comes to  *)
(* an end (79, 105-110, where each limit is that of one read or message);  *)
(* a request that is held so holds up no other.                            *)
(***************************************************************************)
RequestEnds ==
    \A r \in Requests : (pc[r] = "checking" ~> pc[r] \in Ended) \/ []<>Held(r)
=============================================================================
