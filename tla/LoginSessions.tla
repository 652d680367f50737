--------------------------- MODULE LoginSessions ---------------------------
(***************************************************************************)
(* Signing in: accounts.login.web (LoginController, BaseLoginController)   *)
(* over the grants of accounts.api (OAuthController), each with its own    *)
(* Redis.                                                                  *)
(*                                                                         *)
(* A sign-in, by password or by the refresh token of the cookie, runs      *)
(*   [authentication -> code -> authorization_code grant] or               *)
(*   [refresh_token grant on the cookie]                    -> result      *)
(*   userInfo -> refresh_token grant on result.RefreshToken -> new cookie  *)
(*   result stored behind a login code the application fetches.            *)
(* Every grant is a read, a remove and a write of the cache, and nothing   *)
(* makes the three atomic.  A tab is one such request; tabs of a browser   *)
(* share its cookie, which is read when the request arrives and replaced   *)
(* when its answer does.  A page is any other request of the browser: its  *)
(* answer may set the cookie it came with once more (UserController's edit *)
(* of the profile, the sliding expiry of AddCookie).                       *)
(***************************************************************************)
EXTENDS Naturals

CONSTANTS Users, Browsers, Tabs, Pages,
          MaxGuids,  \* bound: how many codes and refresh tokens are ever made
          None

Guids == 1..MaxGuids

ASSUME LoginAssumption == MaxGuids \in Nat /\ None \notin Guids /\ None \notin Users

\* An AuthenticationResponse: whose it is and its refresh token.
Auth == [user : Users, refresh : Guids]

VARIABLES account,   \* account[u]: "active", "inactive" or "deleted"
          issued,    \* how many Guids have been made; the next one is issued + 1
          cache,     \* cache[g]: what accounts.api stored under code or token g
          codes,     \* codes[g]: what login.web stored under login code g
          fetched,   \* the responses applications got for a login code
          cookie,    \* cookie[b]: the refresh token in the browser's cookie
          tab,       \* tab[t]: the sign-in request t
          page,      \* page[p]: the request p that does not sign in
          spent,     \* the codes and tokens that were redeemed or have expired
          troubled   \* the browsers a failure, a deletion, an expiry or an outrun page hit

vars == <<account, issued, cache, codes, fetched, cookie, tab, page, spent, troubled>>

Tab == [browser : Browsers, user : Users,
        key     : Guids \cup {None},  \* what the running grant redeems
        got     : Auth \cup {None},   \* what it will store and return
        result  : Auth \cup {None},   \* the response the application will get
        renewed : Guids \cup {None},  \* the refresh token for the cookie
        late    : BOOLEAN,            \* the account was deleted when it began
        grant   : {"code", "renew", "rotate"},
        pc      : {"check", "issue", "get", "remove", "store", "info", "publish", "answer"}]

Page == [browser : Browsers,
         token   : Guids,    \* of the cookie it came with
         outrun  : BOOLEAN]  \* a sign-in of its browser was answered meanwhile

ASSUME NoneAssumption == None \notin Auth \cup Tab \cup Page

\* What a tab has by the time it is at pc.
Filled(x) ==
    /\ x.pc \in {"check", "issue"} => x.grant = "code"
    /\ x.pc \in {"get", "remove", "store"} => x.key # None
    /\ x.pc \in {"remove", "store"} => x.got # None
    /\ x.pc = "info" \/ x.grant = "rotate" => x.result # None
    /\ x.pc \in {"publish", "answer"} => x.renewed # None /\ x.grant = "rotate"

TypeOK ==
    /\ account \in [Users -> {"active", "inactive", "deleted"}]
    /\ issued \in 0..MaxGuids
    /\ cache \in [Guids -> Auth \cup {None}]
    /\ codes \in [Guids -> Auth \cup {None}]
    /\ fetched \subseteq Auth
    /\ cookie \in [Browsers -> Guids \cup {None}]
    /\ tab \in [Tabs -> Tab \cup {None}]
    /\ \A t \in Tabs : tab[t] # None => Filled(tab[t])
    /\ page \in [Pages -> Page \cup {None}]
    /\ spent \subseteq Guids
    /\ troubled \subseteq Browsers

Init ==
    /\ account \in [Users -> {"active", "inactive"}]
    /\ issued = 0
    /\ cache = [g \in Guids |-> None]
    /\ codes = [g \in Guids |-> None]
    /\ fetched = {}
    /\ cookie = [b \in Browsers |-> None]
    /\ tab = [t \in Tabs |-> None]
    /\ page = [p \in Pages |-> None]
    /\ spent = {}
    /\ troubled = {}

-----------------------------------------------------------------------------
At(t, pc) == tab[t] # None /\ tab[t].pc = pc

Running(b) == \E t \in Tabs : tab[t] # None /\ tab[t].browser = b

Carried(b, g) == \E p \in Pages : page[p] # None /\ page[p].browser = b /\ page[p].token = g

Fresh == issued + 1

\* Guid.NewGuid, n times.
Make(n) == issued + n <= MaxGuids /\ issued' = issued + n

\* The login page again, with the error; the cookie stays what it was.
Refuse(t) == /\ tab' = [tab EXCEPT ![t] = None]
             /\ UNCHANGED <<account, issued, cache, codes, fetched, cookie, page, spent>>

-----------------------------------------------------------------------------
(* The two ways in                                                         *)

Begin(t, b, u, key, grant, pc) ==
    /\ tab[t] = None
    /\ tab' = [tab EXCEPT ![t] = [browser |-> b, user |-> u, key |-> key, got |-> None,
                                  result |-> None, renewed |-> None,
                                  late |-> account[u] = "deleted",
                                  grant |-> grant, pc |-> pc]]
    /\ UNCHANGED <<account, issued, cache, codes, fetched, cookie, page, spent, troubled>>

\* POST /Login and POST /SignUp, with a password that is right.
Password(t) == \E b \in Browsers, u \in Users : Begin(t, b, u, None, "code", "check")

\* GET /Login with a cookie; whose token it is shows when the grant reads it.
Return(t) == \E b \in Browsers, u \in Users :
    /\ cookie[b] # None
    /\ cache[cookie[b]] # None => u = cache[cookie[b]].user
    /\ Begin(t, b, u, cookie[b], "renew", "get")

-----------------------------------------------------------------------------
(* POST OAuth/authentication                                               *)

\* AuthenticationAsync: neither inactive nor deleted.
Check(t) ==
    /\ At(t, "check")
    /\ \/ /\ account[tab[t].user] = "active"
          /\ tab' = [tab EXCEPT ![t].pc = "issue"]
          /\ UNCHANGED <<account, issued, cache, codes, fetched, cookie, page, spent>>
       \/ account[tab[t].user] # "active" /\ Refuse(t)
    /\ UNCHANGED troubled

\* GenerateUserTokenAsync, and the response stored under a code.
Issue(t) ==
    /\ At(t, "issue")
    /\ Make(2)
    /\ cache' = [cache EXCEPT ![issued + 2] = [user |-> tab[t].user, refresh |-> Fresh]]
    /\ tab' = [tab EXCEPT ![t].key = issued + 2, ![t].pc = "get"]
    /\ UNCHANGED <<account, codes, fetched, cookie, page, spent, troubled>>

-----------------------------------------------------------------------------
(* POST OAuth/token                                                        *)

\* Mutant: the code grant does not look whether there was an entry.
GetUnchecked(t) ==
    LET found == cache[tab[t].key] IN
    /\ At(t, "get")
    /\ \/ found = None /\ tab[t].grant # "code" /\ Refuse(t)
       \/ /\ tab[t].grant = "code"
          /\ tab' = [tab EXCEPT ![t].got = found, ![t].pc = "remove"]
          /\ UNCHANGED <<account, issued, cache, codes, fetched, cookie, page, spent>>
       \/ /\ found # None /\ tab[t].grant # "code"
          /\ Make(1)
          /\ tab' = [tab EXCEPT ![t].got = [user |-> found.user, refresh |-> Fresh],
                                ![t].pc = "remove"]
          /\ UNCHANGED <<account, cache, codes, fetched, cookie, page, spent>>
    /\ UNCHANGED troubled

\* The code grant hands on the response it finds; the refresh grant makes a new
\* one for the same user, without looking at the user's status.
Get(t) ==
    LET found == cache[tab[t].key] IN
    /\ At(t, "get")
    /\ \/ found = None /\ Refuse(t)
       \/ /\ found # None /\ tab[t].grant = "code"
          /\ tab' = [tab EXCEPT ![t].got = found, ![t].pc = "remove"]
          /\ UNCHANGED <<account, issued, cache, codes, fetched, cookie, page, spent>>
       \/ /\ found # None /\ tab[t].grant # "code"
          /\ Make(1)
          /\ tab' = [tab EXCEPT ![t].got = [user |-> found.user, refresh |-> Fresh],
                                ![t].pc = "remove"]
          /\ UNCHANGED <<account, cache, codes, fetched, cookie, page, spent>>
    /\ UNCHANGED troubled

\* Mutant: the refresh grant does not remove the token it redeems.
RemoveCodesOnly(t) ==
    /\ At(t, "remove")
    /\ cache' = IF tab[t].grant = "code" THEN [cache EXCEPT ![tab[t].key] = None] ELSE cache
    /\ spent' = spent \cup {tab[t].key}
    /\ tab' = [tab EXCEPT ![t].pc = "store"]
    /\ UNCHANGED <<account, issued, codes, fetched, cookie, troubled, page>>

Remove(t) ==
    /\ At(t, "remove")
    /\ cache' = [cache EXCEPT ![tab[t].key] = None]
    /\ spent' = spent \cup {tab[t].key}
    /\ tab' = [tab EXCEPT ![t].pc = "store"]
    /\ UNCHANGED <<account, issued, codes, fetched, cookie, troubled, page>>

\* Mutant: the new response is stored under the token that was sent.
StoreUnderKey(t) ==
    LET got == tab[t].got IN
    /\ At(t, "store")
    /\ cache' = [cache EXCEPT ![tab[t].key] = got]
    /\ tab' = [tab EXCEPT ![t] =
                 IF @.grant = "rotate"
                 THEN [@ EXCEPT !.renewed = got.refresh, !.pc = "publish"]
                 ELSE [@ EXCEPT !.result = got, !.pc = "info"]]
    /\ UNCHANGED <<account, issued, codes, fetched, cookie, page, spent, troubled>>

\* AddCacheRefreshToken, and the answer to login.web.
Store(t) ==
    LET got == tab[t].got IN
    /\ At(t, "store")
    /\ cache' = [cache EXCEPT ![got.refresh] = got]
    /\ tab' = [tab EXCEPT ![t] =
                 IF @.grant = "rotate"
                 THEN [@ EXCEPT !.renewed = got.refresh, !.pc = "publish"]
                 ELSE [@ EXCEPT !.result = got, !.pc = "info"]]
    /\ UNCHANGED <<account, issued, codes, fetched, cookie, page, spent, troubled>>

-----------------------------------------------------------------------------
(* The rest of the sign-in                                                 *)

\* Mutant: userInfo answers for deleted users too.
InfoOfAnyone(t) ==
    /\ At(t, "info")
    /\ tab' = [tab EXCEPT ![t].key = tab[t].result.refresh,
                          ![t].grant = "rotate", ![t].pc = "get"]
    /\ UNCHANGED <<account, issued, cache, codes, fetched, cookie, page, spent, troubled>>

\* GET OAuth/userInfo finds no deleted user; AddCookieAuthentication follows.
Info(t) ==
    LET u == tab[t].result.user IN
    /\ At(t, "info")
    /\ \/ /\ account[u] # "deleted"
          /\ tab' = [tab EXCEPT ![t].key = tab[t].result.refresh,
                                ![t].grant = "rotate", ![t].pc = "get"]
          /\ UNCHANGED <<account, issued, cache, codes, fetched, cookie, page, spent>>
       \/ account[u] = "deleted" /\ Refuse(t)
    /\ UNCHANGED troubled

\* GenerateCode.
Publish(t) ==
    /\ At(t, "publish")
    /\ Make(1)
    /\ codes' = [codes EXCEPT ![Fresh] = tab[t].result]
    /\ tab' = [tab EXCEPT ![t].pc = "answer"]
    /\ UNCHANGED <<account, cache, fetched, cookie, page, spent, troubled>>

\* A sign-in of browser b is answered before page x is.
Outrun(x, b) == IF x # None /\ x.browser = b THEN [x EXCEPT !.outrun = TRUE] ELSE x

\* Mutant: the cookie is made of the response, not of the rotated one.
AnswerResult(t) ==
    /\ At(t, "answer") \/ At(t, "publish")
    /\ cookie' = [cookie EXCEPT ![tab[t].browser] = tab[t].result.refresh]
    /\ page' = [p \in Pages |-> Outrun(page[p], tab[t].browser)]
    /\ tab' = [tab EXCEPT ![t] = None]
    /\ UNCHANGED <<account, issued, cache, codes, fetched, spent, troubled>>

\* The redirect arrives with the cookie of SignInAsync; so does the error page
\* when only GenerateCode failed.
Answer(t) ==
    /\ At(t, "answer") \/ At(t, "publish")
    /\ cookie' = [cookie EXCEPT ![tab[t].browser] = tab[t].renewed]
    /\ page' = [p \in Pages |-> Outrun(page[p], tab[t].browser)]
    /\ tab' = [tab EXCEPT ![t] = None]
    /\ UNCHANGED <<account, issued, cache, codes, fetched, spent, troubled>>

\* Any call fails or is not answered, or the browser is gone: what was stored
\* stays stored.
Fail(t) ==
    /\ tab[t] # None
    /\ troubled' = troubled \cup {tab[t].browser}
    /\ Refuse(t)

-----------------------------------------------------------------------------
(* Around it                                                               *)

\* GET /Login/token: read, then remove; a failed remove is logged and ignored,
\* and two requests may both read.
Fetch(g) ==
    /\ codes[g] # None
    /\ fetched' = fetched \cup {codes[g]}
    /\ codes' \in {codes, [codes EXCEPT ![g] = None]}
    /\ UNCHANGED <<account, issued, cache, cookie, tab, page, spent, troubled>>

\* GET /Logout forgets the cookie and nothing else.
Logout(b) ==
    /\ cookie[b] # None /\ cookie' = [cookie EXCEPT ![b] = None]
    /\ UNCHANGED <<account, issued, cache, codes, fetched, tab, page, spent, troubled>>

\* Another request of the browser comes with its cookie.
Visit(p) == \E b \in Browsers :
    /\ page[p] = None /\ cookie[b] # None
    /\ page' = [page EXCEPT ![p] = [browser |-> b, token |-> cookie[b], outrun |-> FALSE]]
    /\ UNCHANGED <<account, issued, cache, codes, fetched, cookie, tab, spent, troubled>>

\* Its answer sets no cookie.
Show(p) ==
    /\ page[p] # None /\ page' = [page EXCEPT ![p] = None]
    /\ UNCHANGED <<account, issued, cache, codes, fetched, cookie, tab, spent, troubled>>

\* Its answer sets the cookie again with the token the request came with, whatever
\* the browser has by now: UserController.UpdateAsync after its awaits, or the
\* sliding expiry, of a page or of a sign-in that is refused.
Reissue(p) ==
    /\ page[p] # None /\ page' = [page EXCEPT ![p] = None]
    /\ cookie' = [cookie EXCEPT ![page[p].browser] = page[p].token]
    /\ troubled' = troubled \cup {b \in Browsers : page[p].browser = b /\ page[p].outrun}
    /\ UNCHANGED <<account, issued, cache, codes, fetched, tab, spent>>

\* UserHandler.DeleteAsync.
DeleteUser(u) ==
    /\ account[u] # "deleted"
    /\ account' = [account EXCEPT ![u] = "deleted"]
    /\ troubled' = Browsers
    /\ UNCHANGED <<issued, cache, codes, fetched, cookie, tab, page, spent>>

\* Ten minutes for a code, five days for a refresh token.
Expire(g) ==
    /\ cache[g] # None /\ cache' = [cache EXCEPT ![g] = None]
    /\ spent' = spent \cup {g}
    /\ troubled' = troubled \cup {b \in Browsers : cookie[b] = g \/ Running(b) \/ Carried(b, g)}
    /\ UNCHANGED <<account, issued, codes, fetched, cookie, tab, page>>

\* Five minutes for a login code.
ExpireCode(g) ==
    /\ codes[g] # None /\ codes' = [codes EXCEPT ![g] = None]
    /\ UNCHANGED <<account, issued, cache, fetched, cookie, tab, page, spent, troubled>>

-----------------------------------------------------------------------------
Step(t) ==
    \/ Password(t) \/ Return(t)
    \/ Check(t) \/ Issue(t)
    \/ Get(t) \/ Remove(t) \/ Store(t)
    \/ Info(t) \/ Publish(t)
    \/ Answer(t) \/ Fail(t)

Next == \/ \E t \in Tabs : Step(t)
        \/ \E g \in Guids : Fetch(g) \/ Expire(g) \/ ExpireCode(g)
        \/ \E b \in Browsers : Logout(b)
        \/ \E p \in Pages : Visit(p) \/ Show(p) \/ Reissue(p)
        \/ \E u \in Users : DeleteUser(u)

Spec == Init /\ [][Next]_vars

-----------------------------------------------------------------------------
\* What applications can fetch, or have fetched.
Handed == fetched \cup {codes[g] : g \in {h \in Guids : codes[h] # None}}

\* The refresh token in the response an application gets was redeemed when the
\* cookie was made: it is spent, and it is never the token of a cookie.
ApplicationsGetSpentTokens ==
    \A a \in Handed : /\ cache[a.refresh] = None
                      /\ \A b \in Browsers : a.refresh # cookie[b]

\* A code or refresh token that was redeemed or has expired is not accepted again,
\* whatever the order in which the grants of several tabs read, remove and store.
SpentTokensStaySpent == \A g \in spent : cache[g] = None

\* Requests of one browser that race for its cookie do not sign it out: when no
\* sign-in is running, the cookie holds a live token, though pages set an old one
\* again, after a logout too (unless something failed, or a page that began before
\* a sign-in set the cookie after the answer of that sign-in).
CookieOutlivesRaces ==
    \A b \in Browsers \ troubled :
        cookie[b] # None /\ ~Running(b) => cache[cookie[b]] # None

\* A deleted account does not get back in: a request that begins after the
\* deletion never reaches a new cookie or a login code, although the refresh grant
\* itself does not look at the account.
DeletedUsersStayOut ==
    \A t \in Tabs : tab[t] # None /\ tab[t].late
                    => tab[t].renewed = None /\ tab[t].pc \notin {"publish", "answer"}
=============================================================================
