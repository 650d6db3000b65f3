-------------------------------- MODULE Tabs --------------------------------
(***************************************************************************)
(* The browser tabs of the console: AuthProvider, which decides on every   *)
(* page who is signed in, the one token the tabs keep between them in      *)
(* localStorage, and what api() does with a 401.                           *)
(*                                                                         *)
(* Of the server it matters only whether it takes a token (Users has the   *)
(* rest): a token is a number, good until it expires, and the user a tab   *)
(* shows is the token that brought it.  `app` is the queue page, where a   *)
(* login leads and whose lists are asked for every five seconds.           *)
(***************************************************************************)
EXTENDS Naturals, FiniteSets

CONSTANTS
  OpenTabs,     (* Browser tabs of one browser.                             *)
  Nowhere,      (* No navigation under way.                                 *)
  MaxLogins,    (* Bound: tokens issued.                                    *)
  MaxTrips,     (* Bound: pages opened by hand, over all tabs.              *)
  MaxOutages    (* Bound: requests that fail for another reason than a 401. *)

ASSUME TabsAssumption ==
  /\ Nowhere \notin {"login", "app"}
  /\ MaxLogins \in Nat /\ MaxTrips \in Nat /\ MaxOutages \in Nat

Pages == {"login", "app"}
NoToken == 0

VARIABLES
  given,      (* tokens issued so far                                       *)
  expired,
  store,      (* tokenStore: what localStorage holds                        *)
  path,       (* the page of each tab                                       *)
  going,      (* where router.push or replace is taking it                  *)
  user, loading, (* the state of AuthProvider                               *)
  me,         (* the token GET /auth/me of this page is under way with      *)
  polls,      (* the tokens of the other requests a tab waits for           *)
  signIn,     (* the login form: "idle", or its POST is under way           *)
  trips, outages

server  == <<given, expired>>
tabVars == <<server, store, path, going, user, loading, me, polls, signIn,
             trips, outages>>

Valid(t) == t \in 1..given /\ t \notin expired

(* A console page draws its content, its polls included, for a user only.  *)
Drawn(b) == path[b] = "app" /\ ~loading[b] /\ user[b] # NoToken

-----------------------------------------------------------------------------
(* Mutant: to the home page, which itself only leads to the queue.         *)
RedirectsHome(p) == "home"

RedirectFrom(p) == IF p # "login" THEN "login" ELSE Nowhere

(* AuthProvider's effect, on every page: without a token straight to the   *)
(* login page, otherwise the token is shown to the server.  Who is signed  *)
(* in is kept from page to page.  What an earlier page asked is no longer  *)
(* used, but if it is answered with a 401, api() still sees to that.       *)
Arrive(b, p, held, newUser, isLoading, waits) ==
  /\ path' = [path EXCEPT ![b] = p]
  /\ me' = [me EXCEPT ![b] = held]
  /\ polls' = [polls EXCEPT ![b] = waits]
  /\ user' = [user EXCEPT ![b] = newUser]
  /\ loading' = [loading EXCEPT ![b] = held # NoToken /\ isLoading]
  /\ going' = [going EXCEPT ![b] = IF held = NoToken THEN RedirectFrom(p) ELSE Nowhere]

Waits(b) == polls[b] \cup ({me[b]} \ {NoToken})

(* router.push and replace get there.                                      *)
Navigated(b) ==
  /\ going[b] # Nowhere
  /\ Arrive(b, going[b], store, user[b], loading[b], Waits(b))
  /\ signIn' = [signIn EXCEPT ![b] = "idle"]
  /\ UNCHANGED <<server, store, trips, outages>>

Trip == trips < MaxTrips /\ trips' = trips + 1

(* A link of the rail.                                                     *)
FollowLink(b) ==
  /\ Trip
  /\ Drawn(b)
  /\ Arrive(b, "app", store, user[b], FALSE, Waits(b))
  /\ UNCHANGED <<server, store, signIn, outages>>

(* A page loaded by hand; what was under way in the tab is gone.           *)
LoadPage(b, p) ==
  /\ Trip
  /\ Arrive(b, p, store, NoToken, TRUE, {})
  /\ signIn' = [signIn EXCEPT ![b] = "idle"]
  /\ UNCHANGED <<server, store, outages>>

(* Mutant: only an answer that brings a user ends the waiting. *)
WaitsForAUser(b) == loading[b]

(* `loading` once /auth/me has failed: finally.                            *)
StillLoading(b) == FALSE

MeAccepted(b) ==
  /\ me[b] # NoToken /\ Valid(me[b])
  /\ me' = [me EXCEPT ![b] = NoToken]
  /\ user' = [user EXCEPT ![b] = me[b]]
  /\ loading' = [loading EXCEPT ![b] = FALSE]
  /\ UNCHANGED <<server, store, path, going, polls, signIn, trips, outages>>

(* Mutant: a 401 clears the token and leaves the rest to the next render.  *)
StaysOnThePage(b) == TRUE

(* The tabs a 401 does not send to the login page: those that are there.   *)
IsThere(b) == path[b] = "login"

(* A 401 clears the token that is stored by now and loads the login page.  *)
SignedOut(b, meThen, pollsThen, loadingThen) ==
  /\ store' = NoToken
  /\ IF IsThere(b)
     THEN /\ me' = [me EXCEPT ![b] = meThen]
          /\ polls' = [polls EXCEPT ![b] = pollsThen]
          /\ loading' = [loading EXCEPT ![b] = loadingThen]
          /\ UNCHANGED <<path, user, going, signIn>>
     ELSE /\ Arrive(b, "login", NoToken, NoToken, FALSE, {})
          /\ signIn' = [signIn EXCEPT ![b] = "idle"]
  /\ UNCHANGED <<server, trips, outages>>

MeRejected(b) ==
  /\ me[b] # NoToken /\ ~Valid(me[b])
  /\ SignedOut(b, NoToken, polls[b], StillLoading(b))

(* Any other failure is caught by the effect alone: the token is cleared   *)
(* all the same, but nothing leads away from the page.                     *)
MeFails(b) ==
  /\ outages < MaxOutages /\ outages' = outages + 1
  /\ me[b] # NoToken
  /\ store' = NoToken
  /\ me' = [me EXCEPT ![b] = NoToken]
  /\ loading' = [loading EXCEPT ![b] = StillLoading(b)]
  /\ UNCHANGED <<server, path, going, user, polls, signIn, trips>>

(* SWR asks on its timer, with whatever is stored, be it no token; one     *)
(* question at a time stands for the three lists of the page.              *)
Polls(b) ==
  /\ Drawn(b)
  /\ polls[b] = {}
  /\ polls' = [polls EXCEPT ![b] = {store}]
  /\ UNCHANGED <<server, store, path, going, user, loading, me, signIn, trips, outages>>

PollAnswered(b, t) ==
  /\ t \in polls[b]
  /\ IF Valid(t)
     THEN /\ polls' = [polls EXCEPT ![b] = @ \ {t}]
          /\ UNCHANGED <<server, store, path, going, user, loading, me, signIn,
                         trips, outages>>
     ELSE SignedOut(b, me[b], polls[b] \ {t}, loading[b])

logout(b) ==
  /\ Drawn(b)
  /\ store' = NoToken
  /\ user' = [user EXCEPT ![b] = NoToken]
  /\ going' = [going EXCEPT ![b] = "login"]
  /\ UNCHANGED <<server, path, loading, me, polls, signIn, trips, outages>>

-----------------------------------------------------------------------------
(* The login page *)

SubmitLogin(b) ==
  /\ path[b] = "login" /\ going[b] = Nowhere /\ signIn[b] = "idle"
  /\ given < MaxLogins
  /\ signIn' = [signIn EXCEPT ![b] = "sent"]
  /\ UNCHANGED <<server, store, path, going, user, loading, me, polls, trips, outages>>

(* The button stays busy while the router goes to the queue.               *)
LoginAccepted(b) ==
  /\ signIn[b] = "sent"
  /\ given < MaxLogins
  /\ given' = given + 1
  /\ store' = given'
  /\ user' = [user EXCEPT ![b] = given']
  /\ going' = [going EXCEPT ![b] = "app"]
  /\ signIn' = [signIn EXCEPT ![b] = "idle"]
  /\ UNCHANGED <<expired, path, loading, me, polls, trips, outages>>

(* A wrong password is a 401 too, and clears what another tab has stored.  *)
LoginRejected(b) ==
  /\ signIn[b] = "sent"
  /\ signIn' = [signIn EXCEPT ![b] = "idle"]
  /\ store' = NoToken
  /\ UNCHANGED <<server, path, going, user, loading, me, polls, trips, outages>>

Expire(t) ==
  /\ Valid(t)
  /\ expired' = expired \cup {t}
  /\ UNCHANGED <<given, store, path, going, user, loading, me, polls, signIn,
                 trips, outages>>

-----------------------------------------------------------------------------
TabsInit ==
  /\ given = 0 /\ expired = {} /\ store = NoToken
  /\ path = [b \in OpenTabs |-> "login"]
  /\ going = [b \in OpenTabs |-> Nowhere]
  /\ user = [b \in OpenTabs |-> NoToken]
  /\ loading = [b \in OpenTabs |-> FALSE]
  /\ me = [b \in OpenTabs |-> NoToken] /\ polls = [b \in OpenTabs |-> {}]
  /\ signIn = [b \in OpenTabs |-> "idle"]
  /\ trips = 0 /\ outages = 0

MeAnswers(b) == MeAccepted(b) \/ MeRejected(b)

TabsNext ==
  \/ \E b \in OpenTabs :
       \/ Navigated(b) \/ FollowLink(b) \/ LoadPage(b, "login") \/ LoadPage(b, "app")
       \/ MeAnswers(b) \/ MeFails(b) \/ logout(b)
       \/ Polls(b) \/ \E t \in 0..given : PollAnswered(b, t)
       \/ SubmitLogin(b) \/ LoginAccepted(b) \/ LoginRejected(b)
  \/ \E t \in 1..given : Expire(t)

TabsSpec == TabsInit /\ [][TabsNext]_tabVars

-----------------------------------------------------------------------------
(* Properties *)

(* Every variable keeps its type.                                          *)
TabsTypeOK ==
  /\ given \in 0..MaxLogins /\ expired \subseteq 1..given
  /\ store \in 0..given
  /\ path \in [OpenTabs -> Pages]
  /\ going \in [OpenTabs -> Pages \cup {Nowhere}]
  /\ user \in [OpenTabs -> 0..given] /\ me \in [OpenTabs -> 0..given]
  /\ polls \in [OpenTabs -> SUBSET (0..given)]
  /\ loading \in [OpenTabs -> BOOLEAN]
  /\ signIn \in [OpenTabs -> {"idle", "sent"}]
  /\ trips \in 0..MaxTrips /\ outages \in 0..MaxOutages

(* A console page with neither a spinner nor content, going nowhere.       *)
BlankPage(b) ==
  /\ path[b] = "app" /\ ~loading[b] /\ user[b] = NoToken
  /\ going[b] = Nowhere /\ me[b] = NoToken

(* Shell draws nothing without a user.  A tab is left with that, whatever  *)
(* the other tabs do to the token they share, only by a request that       *)
(* failed for another reason than the token (auth.tsx, the catch that      *)
(* redirects nobody); a 401 and a missing token lead to the login page.    *)
BlankPagesAreFailures ==
  [][\A b \in OpenTabs : ~BlankPage(b) /\ BlankPage(b)' => outages' = outages + 1]_tabVars

Settled(b) == path[b] = "login" \/ BlankPage(b) \/ (Drawn(b) /\ Valid(store))

(* "The very next render lands on the login screen instead of a wall of    *)
(* failed requests" (api.ts:78-79): no spinner stays, and no page stays    *)
(* drawn with a token that has run out or was cleared by another tab.      *)
TabsSettle == \A b \in OpenTabs : []<>Settled(b)
=============================================================================
