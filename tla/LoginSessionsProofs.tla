-------------------------- MODULE LoginSessionsProofs --------------------------
(* Proofs about LoginSessions, for any number of users, browsers, tabs and   *)
(* codes: every token that is not in a cookie yet belongs to one sign-in.    *)
EXTENDS LoginSessions, TLAPS

\* A token that sign-in t is going to store.
Promised(t, g) ==
    /\ tab[t] # None
    /\ \/ At(t, "get") /\ tab[t].grant = "code" /\ cache[tab[t].key] # None
          /\ g = cache[tab[t].key].refresh
       \/ (At(t, "remove") \/ At(t, "store")) /\ g = tab[t].got.refresh

\* A code or token that only sign-in t can redeem or hand on.
Knows(t, g) ==
    \/ Promised(t, g)
    \/ (At(t, "get") \/ At(t, "remove")) /\ tab[t].grant # "renew" /\ g = tab[t].key
    \/ At(t, "info") /\ g = tab[t].result.refresh
    \/ (At(t, "publish") \/ At(t, "answer")) /\ g = tab[t].renewed

\* The tokens of the cookies, at home or under way with a page, and those that a
\* tab has read from one.
Renews(t, g) ==
    (At(t, "get") \/ At(t, "remove")) /\ tab[t].grant = "renew" /\ g = tab[t].key
Has(b, g) == g = cookie[b] \/ Carried(b, g)
InCookie(g) == \E b \in Browsers : Has(b, g)

\* Redeemed for a cookie, and on the way to an application or there.
Burnt(g) ==
    \/ \E a \in Handed : g = a.refresh
    \/ \E t \in Tabs : /\ At(t, "store") \/ At(t, "publish") \/ At(t, "answer")
                       /\ tab[t].grant = "rotate" /\ g = tab[t].result.refresh

Used ==
    /\ \A g \in Guids : cache[g] # None => g <= issued /\ cache[g].refresh <= issued
    /\ \A g \in Guids : InCookie(g) \/ g \in spent => g <= issued
    /\ \A t \in Tabs, g \in Guids : Knows(t, g) \/ Renews(t, g) => g <= issued

Owned ==
    /\ \A t, u \in Tabs, g \in Guids : Knows(t, g) /\ t # u => ~Knows(u, g)
    /\ \A t, u \in Tabs, g \in Guids : Knows(t, g) => ~Renews(u, g)
    /\ \A t \in Tabs, g \in Guids : Knows(t, g) => ~InCookie(g)
    /\ \A g \in Guids : Burnt(g) => /\ g \in spent /\ ~InCookie(g)
                                    /\ \A t \in Tabs : ~Knows(t, g)

Unstored ==
    \A t \in Tabs, g \in Guids : Promised(t, g) =>
        /\ cache[g] = None /\ g \notin spent
        /\ At(t, "get") \/ At(t, "remove") => g # tab[t].key

Rotates ==
    \A t \in Tabs : (At(t, "get") \/ At(t, "remove")) /\ tab[t].grant = "rotate"
                    => tab[t].key = tab[t].result.refresh

IInv == TypeOK /\ Used /\ Owned /\ Unstored /\ Rotates /\ SpentTokensStaySpent

-----------------------------------------------------------------------------
\* A guid is a number, and None is no guid.
LEMMA GuidsAreNumbers == Guids \subseteq Nat /\ None \notin Guids /\ None \notin Users
  BY LoginAssumption DEF Guids

\* What a sign-in does to the tabs: one of them changes, or ends.
Becomes(t, y) == tab' = [tab EXCEPT ![t] = y]

\* Nothing is issued yet, and nobody signs in.
LEMMA InitOK == Init => IInv
  <1> SUFFICES ASSUME Init PROVE IInv
    OBVIOUS
  <1>1. TypeOK
    BY LoginAssumption DEF Init, TypeOK
  <1>2. /\ \A t \in Tabs : tab[t] = None
        /\ \A g \in Guids : cache[g] = None /\ codes[g] = None
        /\ \A b \in Browsers : cookie[b] = None
        /\ \A p \in Pages : page[p] = None
        /\ fetched = {} /\ spent = {}
    BY DEF Init
  <1>3. \A g \in Guids : ~InCookie(g) /\ ~Burnt(g)
    BY <1>2, GuidsAreNumbers DEF InCookie, Has, Carried, Burnt, Handed, At
  <1>4. \A t \in Tabs, g \in Guids : ~Knows(t, g) /\ ~Renews(t, g) /\ ~Promised(t, g)
    BY <1>2 DEF Knows, Renews, Promised, At
  <1>5. QED
    BY <1>1, <1>2, <1>3, <1>4 DEF IInv, Used, Owned, Unstored, Rotates, SpentTokensStaySpent, At

\* What one sign-in knew, and makes known or burns, leaves the rest as it was.
LEMMA OwnedStays ==
    ASSUME Owned, Used, issued \in Nat, spent \subseteq spent', NEW T,
           \A t, u \in T : t = u,
           \A t \in Tabs, g \in Guids :
             Knows(t, g)' => Knows(t, g) \/ (t \in T /\ ~(g <= issued)),
           \A t \in Tabs, g \in Guids : Renews(t, g)' => Renews(t, g) \/ InCookie(g),
           \A g \in Guids : InCookie(g)' =>
             InCookie(g) \/ (\E t \in Tabs : Knows(t, g) /\ ~Knows(t, g)' /\ ~Burnt(g)'),
           \A g \in Guids : Burnt(g)' =>
             \/ Burnt(g)
             \/ g \in spent' /\ ~InCookie(g)' /\ \E t \in Tabs : Knows(t, g) /\ ~Knows(t, g)'
    PROVE  Owned'
  <1>1. ASSUME NEW t \in Tabs, NEW u \in Tabs, NEW g \in Guids, Knows(t, g)', Knows(u, g)'
        PROVE  t = u
    BY <1>1 DEF Owned, Used
  <1>2. ASSUME NEW t \in Tabs, NEW u \in Tabs, NEW g \in Guids, Knows(t, g)'
        PROVE  ~Renews(u, g)'
    BY <1>2 DEF Owned, Used
  <1>3. ASSUME NEW t \in Tabs, NEW g \in Guids, Knows(t, g)'
        PROVE  ~InCookie(g)'
    BY <1>3 DEF Owned, Used
  <1>4. ASSUME NEW g \in Guids, Burnt(g)'
        PROVE  g \in spent' /\ ~InCookie(g)'
    BY <1>4 DEF Owned, Used
  <1>5. ASSUME NEW g \in Guids, NEW t \in Tabs, Burnt(g)'
        PROVE  ~Knows(t, g)'
    BY <1>5 DEF Owned, Used
  <1>6. QED
    BY <1>1, <1>2, <1>3, <1>4, <1>5 DEF Owned

\* The invariant after a step, from what the step does to one sign-in.
LEMMA Kept ==
    ASSUME IInv, TypeOK', issued' >= issued, spent \subseteq spent', Rotates', NEW T,
           \A t, u \in T : t = u,
           \A t \in Tabs, g \in Guids :
             Knows(t, g)' => g <= issued' /\ (Knows(t, g) \/ (t \in T /\ ~(g <= issued))),
           \A t \in Tabs, g \in Guids : Renews(t, g)' => Renews(t, g) \/ InCookie(g),
           \A g \in Guids : InCookie(g)' =>
             InCookie(g) \/ (\E t \in Tabs : Knows(t, g) /\ ~Knows(t, g)' /\ ~Burnt(g)'),
           \A g \in Guids : Burnt(g)' =>
             \/ Burnt(g)
             \/ g \in spent' /\ ~InCookie(g)' /\ \E t \in Tabs : Knows(t, g) /\ ~Knows(t, g)',
           \A g \in spent' : cache'[g] = None /\ g <= issued',
           \A g \in Guids : cache'[g] # None => g <= issued' /\ cache'[g].refresh <= issued',
           Unstored'
    PROVE  IInv'
  <1>1. issued \in Nat /\ issued' \in Nat /\ spent' \subseteq Guids /\ spent \subseteq Guids
    BY GuidsAreNumbers DEF IInv, TypeOK
  <1>2. Owned'
    <2>1. Owned /\ Used
      BY DEF IInv
    <2>2. QED
      BY <1>1, <2>1, OwnedStays
  <1>3. Used'
    <2>1. \A g \in Guids : g <= issued => g <= issued'
      BY <1>1, GuidsAreNumbers
    <2>2. \A g \in Guids : InCookie(g)' => g <= issued'
      BY <2>1 DEF IInv, Used
    <2>3. \A t \in Tabs, g \in Guids : Renews(t, g)' => g <= issued'
      BY <2>1 DEF IInv, Used
    <2>4. QED
      BY <2>2, <2>3 DEF Used
  <1>4. SpentTokensStaySpent'
    BY DEF SpentTokensStaySpent
  <1>5. QED
    BY <1>2, <1>3, <1>4 DEF IInv

\* No guid is taken back.
LEMMA Older ==
    ASSUME IInv, issued' \in Nat, issued' >= issued
    PROVE  /\ \A g \in Guids : g <= issued => g <= issued'
           /\ \A g \in Guids : cache[g] # None =>
                cache[g] \in Auth /\ g <= issued' /\ cache[g].refresh <= issued'
           /\ \A t \in Tabs, g \in Guids : Knows(t, g) \/ Renews(t, g) => g <= issued'
           /\ \A g \in spent : g \in Guids /\ cache[g] = None /\ g <= issued'
  <1>1. issued \in Nat /\ spent \subseteq Guids
    BY GuidsAreNumbers DEF IInv, TypeOK
  <1>2. \A g \in Guids : g <= issued => g <= issued'
    BY <1>1, GuidsAreNumbers
  <1>3. ASSUME NEW g \in Guids, cache[g] # None
        PROVE  cache[g] \in Auth /\ cache[g].refresh \in Guids
    BY <1>3 DEF IInv, TypeOK, Auth
  <1>4. \A g \in Guids : cache[g] # None => g <= issued' /\ cache[g].refresh <= issued'
    BY <1>2, <1>3 DEF IInv, Used
  <1>5. \A t \in Tabs, g \in Guids : Knows(t, g) \/ Renews(t, g) => g <= issued'
    BY <1>2 DEF IInv, Used
  <1>6. \A g \in spent : g \in Guids /\ cache[g] = None /\ g <= issued'
    BY <1>1, <1>2 DEF IInv, Used, SpentTokensStaySpent
  <1>7. QED
    BY <1>2, <1>3, <1>4, <1>5, <1>6

\* A step that leaves the tokens alone.
LEMMA Quiet ==
    ASSUME IInv, TypeOK', Rotates',
           issued' >= issued, cache' = cache, spent' = spent,
           \A t \in Tabs, g \in Guids : Knows(t, g)' => Knows(t, g),
           \A t \in Tabs, g \in Guids : Promised(t, g)' =>
             Promised(t, g) /\ ((At(t, "get") \/ At(t, "remove"))' =>
                                At(t, "get") \/ At(t, "remove")) /\ (g # tab[t].key => g # tab'[t].key),
           \A t \in Tabs, g \in Guids : Renews(t, g)' => Renews(t, g) \/ InCookie(g),
           \A g \in Guids : InCookie(g)' =>
             InCookie(g) \/ (\E t \in Tabs : Knows(t, g) /\ ~Knows(t, g)' /\ ~Burnt(g)'),
           \A g \in Guids : Burnt(g)' => Burnt(g)
    PROVE  IInv'
  <1>1. issued \in Nat /\ issued' \in Nat /\ spent \subseteq Guids
    BY GuidsAreNumbers DEF IInv, TypeOK
  <1>a. \A g \in Nat : g <= issued => g <= issued'
    BY <1>1
  <1>2. Unstored'
    BY DEF IInv, Unstored
  <1>3. \A t \in Tabs, g \in Guids : Knows(t, g)' => g <= issued' /\ Knows(t, g)
    BY <1>a, GuidsAreNumbers DEF IInv, Used
  <1>4. \A g \in spent' : cache'[g] = None /\ g <= issued'
    BY <1>1, <1>a, GuidsAreNumbers DEF IInv, SpentTokensStaySpent, Used
  <1>5. \A g \in Guids : cache'[g] # None => g <= issued' /\ cache'[g].refresh <= issued'
    <2>1. ASSUME NEW g \in Guids, cache[g] # None
          PROVE  g \in Nat /\ cache[g].refresh \in Nat
      BY <2>1, GuidsAreNumbers DEF IInv, TypeOK, Auth
    <2>2. QED
      BY <1>a, <2>1 DEF IInv, Used
  <1> DEFINE T == {}
  <1>6. \A t, u \in T : t = u
    OBVIOUS
  <1> HIDE DEF T
  <1>7. QED
    BY <1>2, <1>3, <1>4, <1>5, <1>6, Kept

-----------------------------------------------------------------------------
\* The login page again: a sign-in ends.
LEMMA Ends ==
    ASSUME IInv, NEW t \in Tabs, Refuse(t), troubled' \subseteq Browsers
    PROVE  IInv'
  <1>1. /\ tab'[t] = None /\ \A u \in Tabs \ {t} : tab'[u] = tab[u]
        /\ issued' = issued /\ cache' = cache /\ codes' = codes /\ fetched' = fetched
        /\ cookie' = cookie /\ page' = page /\ spent' = spent /\ account' = account
    BY DEF Refuse, IInv, TypeOK
  <1>2. TypeOK'
    <2>1. tab' \in [Tabs -> Tab \cup {None}]
      BY DEF Refuse, IInv, TypeOK
    <2>2. \A u \in Tabs : tab'[u] # None => Filled(tab'[u])
      BY <1>1 DEF IInv, TypeOK
    <2>3. QED
      BY <1>1, <2>1, <2>2 DEF IInv, TypeOK
  <1>3. ASSUME NEW u \in Tabs, NEW pc
        PROVE  At(u, pc)' => At(u, pc) /\ tab'[u] = tab[u]
    BY <1>1 DEF At
  <1>4. Rotates'
    BY <1>3 DEF IInv, Rotates
  <1>5. \A u \in Tabs, g \in Guids : Promised(u, g)' => Promised(u, g) /\ tab'[u] = tab[u]
    BY <1>1, <1>3 DEF Promised
  <1>6. \A u \in Tabs, g \in Guids : /\ Knows(u, g)' => Knows(u, g)
                                     /\ Renews(u, g)' => Renews(u, g)
    BY <1>3, <1>5 DEF Knows, Renews
  <1>7. \A g \in Guids : InCookie(g)' => InCookie(g)
    BY <1>1 DEF InCookie, Has, Carried
  <1>8. \A g \in Guids : Burnt(g)' => Burnt(g)
    BY <1>1, <1>3 DEF Burnt, Handed
  <1>9. issued' >= issued
    BY <1>1, GuidsAreNumbers DEF IInv, TypeOK
  <1>10. QED
    BY <1>1, <1>2, <1>3, <1>4, <1>5, <1>6, <1>7, <1>8, <1>9, Quiet

\* One sign-in goes on: its tab becomes y.
LEMMA TabsTyped ==
    ASSUME TypeOK, NEW t \in Tabs, NEW y \in Tab, Filled(y), Becomes(t, y)
    PROVE  /\ tab' \in [Tabs -> Tab \cup {None}]
           /\ \A u \in Tabs : tab'[u] # None => Filled(tab'[u])
           /\ tab'[t] = y /\ \A u \in Tabs \ {t} : tab'[u] = tab[u]
  <1>1. tab \in [Tabs -> Tab \cup {None}]
    BY DEF TypeOK
  <1>2. tab'[t] = y /\ \A u \in Tabs \ {t} : tab'[u] = tab[u]
    BY <1>1 DEF Becomes
  <1>3. tab' \in [Tabs -> Tab \cup {None}]
    BY <1>1 DEF Becomes
  <1>4. \A u \in Tabs : tab'[u] # None => Filled(tab'[u])
    BY <1>2 DEF TypeOK
  <1>5. QED
    BY <1>2, <1>3, <1>4

\* What the invariant says of the tabs but t stays true of them when only t changes.
LEMMA Others ==
    ASSUME NEW t \in Tabs, NEW u \in Tabs, u # t, tab'[u] = tab[u], cache' = cache, NEW g \in Guids
    PROVE  /\ Promised(u, g)' <=> Promised(u, g)
           /\ Knows(u, g)' <=> Knows(u, g)
           /\ Renews(u, g)' <=> Renews(u, g)
  <1>1. Promised(u, g)' <=> Promised(u, g)
    BY DEF Promised, At
  <1>2. QED
    BY <1>1 DEF Knows, Renews, At

\* A sign-in begins with its password, or with the token of the cookie.
LEMMA PasswordKeeps ==
    ASSUME IInv, NEW t \in Tabs, NEW b \in Browsers, NEW u \in Users,
           NEW key \in Guids \cup {None}, NEW grant, NEW pc,
           \/ key = None /\ grant = "code" /\ pc = "check"
           \/ key = cookie[b] /\ key # None /\ grant = "renew" /\ pc = "get",
           Begin(t, b, u, key, grant, pc)
    PROVE  IInv'
  <1> DEFINE y == [browser |-> b, user |-> u, key |-> key, got |-> None, result |-> None,
                   renewed |-> None, late |-> account[u] = "deleted", grant |-> grant, pc |-> pc]
  <1>1. y \in Tab /\ Filled(y)
    BY DEF Tab, Filled
  <1>2. /\ Becomes(t, y) /\ tab[t] = None
        /\ UNCHANGED <<account, issued, cache, codes, fetched, cookie, page, spent, troubled>>
    BY DEF Begin, Becomes
  <1>3. y # None
    BY <1>1, NoneAssumption
  <1> HIDE DEF y
  <1>4. tab'[t] = y /\ \A v \in Tabs \ {t} : tab'[v] = tab[v]
    BY <1>1, <1>2, TabsTyped DEF IInv
  <1>5. TypeOK'
    BY <1>1, <1>2, TabsTyped DEF IInv, TypeOK
  <1>6. ASSUME NEW v \in Tabs, NEW g \in Guids
        PROVE  /\ Promised(v, g)' => v # t /\ Promised(v, g)
               /\ Knows(v, g)' => Knows(v, g)
               /\ Renews(v, g)' => Renews(v, g) \/ InCookie(g)
    <2>1. CASE v = t
      BY <1>4, <2>1 DEF Promised, Knows, Renews, InCookie, Has, Carried, At, y
    <2>2. CASE v # t
      BY <1>2, <1>4, <2>2, Others
    <2>3. QED
      BY <2>1, <2>2
  <1>7. Rotates'
    BY <1>4 DEF IInv, Rotates, At, y
  <1>8. \A g \in Guids : /\ InCookie(g)' <=> InCookie(g)
                         /\ Burnt(g)' => Burnt(g)
    BY <1>2, <1>4 DEF InCookie, Has, Carried, Burnt, Handed, At, y
  <1>9. \A v \in Tabs, g \in Guids : Promised(v, g)' =>
          Promised(v, g) /\ ((At(v, "get") \/ At(v, "remove"))' =>
                             At(v, "get") \/ At(v, "remove")) /\ (g # tab[v].key => g # tab'[v].key)
    BY <1>4, <1>6 DEF At
  <1>10. issued' >= issued
    BY <1>2, GuidsAreNumbers DEF IInv, TypeOK
  <1>11. QED
    BY <1>2, <1>5, <1>6, <1>7, <1>8, <1>9, <1>10, Quiet

\* One sign-in goes on and learns of no other token.
LEMMA Goes ==
    ASSUME IInv, NEW t \in Tabs, NEW y \in Tab, Filled(y), Becomes(t, y), tab[t] # None,
           issued' \in 0..MaxGuids, issued' >= issued,
           codes' \in [Guids -> Auth \cup {None}],
           UNCHANGED <<account, cache, fetched, cookie, page, spent, troubled>>,
           \A g \in Guids : /\ Knows(t, g)' => Knows(t, g)
                            /\ Promised(t, g)' =>
                                 /\ Promised(t, g) /\ tab'[t].key = tab[t].key
                                 /\ At(t, "get") \/ At(t, "remove")
                            /\ Renews(t, g)' => Renews(t, g)
                            /\ Burnt(g)' => Burnt(g),
           y.pc \in {"get", "remove"} /\ y.grant = "rotate" => y.key = y.result.refresh
    PROVE  IInv'
  <1>1. tab'[t] = y /\ \A v \in Tabs \ {t} : tab'[v] = tab[v]
    BY TabsTyped DEF IInv
  <1>2. TypeOK'
    BY TabsTyped DEF IInv, TypeOK
  <1>3. Rotates'
    BY <1>1 DEF IInv, Rotates, At
  <1>4. ASSUME NEW v \in Tabs, NEW g \in Guids
        PROVE  /\ Promised(v, g)' =>
                    /\ Promised(v, g) /\ tab'[v].key = tab[v].key
                    /\ (At(v, "get") \/ At(v, "remove"))' => At(v, "get") \/ At(v, "remove")
               /\ Knows(v, g)' => Knows(v, g)
               /\ Renews(v, g)' => Renews(v, g)
    <2>1. CASE v = t
      BY <2>1
    <2>2. CASE v # t
      <3>1. tab'[v] = tab[v]
        BY <1>1, <2>2
      <3>2. QED
        BY <2>2, <3>1, Others DEF At
    <2>3. QED
      BY <2>1, <2>2
  <1>5. \A g \in Guids : InCookie(g)' => InCookie(g)
    BY DEF InCookie, Has, Carried
  <1>6. QED
    BY <1>2, <1>3, <1>4, <1>5, Quiet

\* The account is looked at, and no token.
LEMMA CheckKeeps == ASSUME IInv, NEW t \in Tabs, Check(t) PROVE IInv'
  <1>1. CASE Refuse(t)
    BY <1>1, Ends DEF Check, IInv, TypeOK
  <1>2. CASE ~Refuse(t)
    <2> DEFINE y == [tab[t] EXCEPT !.pc = "issue"]
    <2>1. /\ tab[t] # None /\ tab[t] \in Tab /\ tab[t].pc = "check" /\ Filled(tab[t])
          /\ UNCHANGED <<account, issued, cache, codes, fetched, cookie, page, spent, troubled>>
          /\ Becomes(t, y)
      BY <1>2 DEF Check, At, IInv, TypeOK, Becomes
    <2>2. y \in Tab /\ Filled(y) /\ y.pc = "issue" /\ y.grant = tab[t].grant
      BY <2>1 DEF Tab, Filled
    <2> HIDE DEF y
    <2>3. tab'[t] = y /\ \A v \in Tabs \ {t} : tab'[v] = tab[v]
      BY <2>1, <2>2, TabsTyped DEF IInv
    <2>4. ASSUME NEW g \in Guids
          PROVE  ~Knows(t, g)' /\ ~Promised(t, g)' /\ ~Renews(t, g)' /\ (Burnt(g)' => Burnt(g))
      <3>1. ~Knows(t, g)' /\ ~Promised(t, g)' /\ ~Renews(t, g)'
        BY <2>2, <2>3 DEF Knows, Promised, Renews, At
      <3>2. Burnt(g)' => Burnt(g)
        BY <2>1, <2>2, <2>3 DEF Burnt, Handed, At
      <3>3. QED
        BY <3>1, <3>2
    <2>5. issued' \in 0..MaxGuids /\ issued' >= issued /\ codes' \in [Guids -> Auth \cup {None}]
      BY <2>1, GuidsAreNumbers DEF IInv, TypeOK
    <2>6. QED
      BY <2>1, <2>2, <2>4, <2>5, Goes
  <1>3. QED
    BY <1>1, <1>2

\* The application's token is sent to be rotated.
LEMMA InfoKeeps == ASSUME IInv, NEW t \in Tabs, Info(t) PROVE IInv'
  <1>1. CASE Refuse(t)
    BY <1>1, Ends DEF Info, IInv, TypeOK
  <1>2. CASE ~Refuse(t)
    <2> DEFINE y == [tab[t] EXCEPT !.key = tab[t].result.refresh, !.grant = "rotate", !.pc = "get"]
    <2>1. /\ tab[t] # None /\ tab[t] \in Tab /\ tab[t].pc = "info" /\ Filled(tab[t])
          /\ UNCHANGED <<account, issued, cache, codes, fetched, cookie, page, spent, troubled>>
          /\ Becomes(t, y)
      BY <1>2 DEF Info, At, IInv, TypeOK, Becomes
    <2>2. tab[t].result \in Auth /\ tab[t].result.refresh \in Guids
      BY <2>1 DEF Filled, Tab, Auth
    <2>3. /\ y \in Tab /\ Filled(y) /\ y.pc = "get" /\ y.grant = "rotate"
          /\ y.key = tab[t].result.refresh /\ y.result = tab[t].result
      BY <2>1, <2>2, GuidsAreNumbers, NoneAssumption DEF Tab, Filled
    <2> HIDE DEF y
    <2>4. tab'[t] = y /\ \A v \in Tabs \ {t} : tab'[v] = tab[v]
      BY <2>1, <2>3, TabsTyped DEF IInv
    <2>5. ASSUME NEW g \in Guids
          PROVE  /\ Knows(t, g)' => Knows(t, g)
                 /\ ~Promised(t, g)' /\ ~Renews(t, g)' /\ (Burnt(g)' => Burnt(g))
      <3>1. (Knows(t, g)' => Knows(t, g)) /\ ~Promised(t, g)' /\ ~Renews(t, g)'
        BY <2>1, <2>3, <2>4 DEF Knows, Promised, Renews, At
      <3>2. Burnt(g)' => Burnt(g)
        BY <2>1, <2>3, <2>4 DEF Burnt, Handed, At
      <3>3. QED
        BY <3>1, <3>2
    <2>6. issued' \in 0..MaxGuids /\ issued' >= issued /\ codes' \in [Guids -> Auth \cup {None}]
      BY <2>1, GuidsAreNumbers DEF IInv, TypeOK
    <2>7. QED
      BY <2>1, <2>3, <2>5, <2>6, Goes
  <1>3. QED
    BY <1>1, <1>2

\* The response, whose token is spent by now, is stored behind a login code.
LEMMA PublishKeeps == ASSUME IInv, NEW t \in Tabs, Publish(t) PROVE IInv'
  <1> DEFINE y == [tab[t] EXCEPT !.pc = "answer"]
  <1>1. /\ tab[t] # None /\ tab[t] \in Tab /\ tab[t].pc = "publish" /\ Filled(tab[t])
        /\ UNCHANGED <<account, cache, fetched, cookie, page, spent, troubled>>
        /\ Becomes(t, y)
        /\ codes' = [codes EXCEPT ![Fresh] = tab[t].result]
        /\ issued + 1 <= MaxGuids /\ issued' = issued + 1
    BY DEF Publish, At, IInv, TypeOK, Becomes, Make
  <1>2. tab[t].result \in Auth /\ tab[t].grant = "rotate"
    BY <1>1 DEF Filled, Tab
  <1>3. /\ y \in Tab /\ Filled(y) /\ y.pc = "answer" /\ y.grant = tab[t].grant
        /\ y.result = tab[t].result /\ y.renewed = tab[t].renewed
    BY <1>1 DEF Tab, Filled
  <1> HIDE DEF y
  <1>4. tab'[t] = y /\ \A v \in Tabs \ {t} : tab'[v] = tab[v]
    BY <1>1, <1>3, TabsTyped DEF IInv
  <1>5. issued' \in 0..MaxGuids /\ issued' >= issued /\ codes' \in [Guids -> Auth \cup {None}]
    <2>1. issued \in 0..MaxGuids /\ codes \in [Guids -> Auth \cup {None}]
      BY DEF IInv, TypeOK
    <2>2. issued' \in 0..MaxGuids /\ issued' >= issued
      BY <1>1, <2>1, LoginAssumption
    <2>3. codes' \in [Guids -> Auth \cup {None}]
      BY <1>1, <1>2, <2>1
    <2>4. QED
      BY <2>2, <2>3
  <1>6. ASSUME NEW a \in Handed'
        PROVE  a \in Handed \/ a = tab[t].result
    BY <1>1, <1>6 DEF Handed, IInv, TypeOK
  <1>7. ASSUME NEW g \in Guids
        PROVE  /\ Knows(t, g)' => Knows(t, g)
               /\ ~Promised(t, g)' /\ ~Renews(t, g)' /\ (Burnt(g)' => Burnt(g))
    <2>1. (Knows(t, g)' => Knows(t, g)) /\ ~Promised(t, g)' /\ ~Renews(t, g)'
      BY <1>1, <1>3, <1>4 DEF Knows, Promised, Renews, At
    <2>2. Burnt(g)' => Burnt(g)
      BY <1>1, <1>2, <1>3, <1>4, <1>6 DEF Burnt, At
    <2>3. QED
      BY <2>1, <2>2
  <1>8. QED
    BY <1>1, <1>2, <1>3, <1>5, <1>7, Goes

\* The code and the token in its response are the next two guids.
LEMMA IssueKeeps == ASSUME IInv, NEW t \in Tabs, Issue(t) PROVE IInv'
  <1> DEFINE new == issued + 2
             y == [tab[t] EXCEPT !.key = new, !.pc = "get"]
  <1>1. issued \in 0..MaxGuids /\ MaxGuids \in Nat /\ cache \in [Guids -> Auth \cup {None}]
    BY LoginAssumption DEF IInv, TypeOK
  <1>2. /\ tab[t] # None /\ tab[t] \in Tab /\ tab[t].pc = "issue" /\ Filled(tab[t])
        /\ UNCHANGED <<account, codes, fetched, cookie, page, spent, troubled>>
        /\ Becomes(t, y)
        /\ issued + 2 <= MaxGuids /\ issued' = issued + 2
        /\ cache' = [cache EXCEPT ![new] = [user |-> tab[t].user, refresh |-> issued + 1]]
    BY DEF Issue, At, IInv, TypeOK, Becomes, Make, Fresh
  <1>3. new \in Guids /\ issued + 1 \in Guids /\ ~(new <= issued) /\ ~(issued + 1 <= issued)
    BY <1>1, <1>2 DEF Guids
  <1>4. [user |-> tab[t].user, refresh |-> issued + 1] \in Auth
    BY <1>2, <1>3 DEF Auth, Tab
  <1>5. /\ y \in Tab /\ Filled(y) /\ y.pc = "get" /\ y.key = new
        /\ y.grant = tab[t].grant /\ y.result = tab[t].result
    BY <1>2, <1>3, GuidsAreNumbers DEF Tab, Filled
  <1> HIDE DEF y
  <1>6. tab'[t] = y /\ \A v \in Tabs \ {t} : tab'[v] = tab[v]
    BY <1>2, <1>5, TabsTyped DEF IInv
  <1>7. /\ cache' \in [Guids -> Auth \cup {None}]
        /\ cache'[new].refresh = issued + 1 /\ cache'[new] # None
        /\ \A g \in Guids \ {new} : cache'[g] = cache[g]
    BY <1>1, <1>2, <1>3, <1>4, NoneAssumption
  <1>8. issued' \in 0..MaxGuids /\ issued' >= issued
    BY <1>1, <1>2
  <1>9. /\ \A g \in Guids : g <= issued => g <= issued' /\ g # new
        /\ \A g \in Guids : cache[g] # None => g <= issued' /\ cache[g].refresh <= issued'
        /\ \A g \in spent : g \in Guids /\ cache[g] = None /\ g <= issued'
    <2>1. issued' \in Nat
      BY <1>1, <1>2
    <2>2. \A g \in Guids : g <= issued => g # new
      BY <1>3
    <2>3. QED
      BY <1>8, <2>1, <2>2, Older
  <1>10. \A v \in Tabs, g \in Guids : Knows(v, g) \/ Renews(v, g) => g <= issued
    BY DEF IInv, Used
  <1>11. y.grant = "code"
    BY <1>2, <1>5 DEF Filled
  <1>12. ASSUME NEW g \in Guids
         PROVE  /\ Knows(t, g)' => g \in {new, issued + 1}
                /\ Promised(t, g)' => g = issued + 1
                /\ ~Renews(t, g)'
    BY <1>5, <1>6, <1>7, <1>11 DEF Knows, Promised, Renews, At
  <1>13. ASSUME NEW v \in Tabs \ {t}, NEW g \in Guids
         PROVE  /\ Promised(v, g)' => Promised(v, g) /\ tab'[v] = tab[v]
                /\ Knows(v, g)' => Knows(v, g)
                /\ Renews(v, g)' => Renews(v, g)
    <2>1. Promised(v, g)' => Promised(v, g)
      <3>1. CASE At(v, "get") /\ tab[v].grant = "code"
        <4>1. tab[v].key \in Guids
          BY <3>1 DEF At, IInv, TypeOK, Tab, Filled
        <4>2. Knows(v, tab[v].key)
          BY <3>1 DEF Knows
        <4>3. cache'[tab[v].key] = cache[tab[v].key]
          BY <1>7, <1>9, <1>10, <4>1, <4>2
        <4>4. QED
          BY <1>6, <4>3 DEF Promised, At
      <3>2. CASE ~(At(v, "get") /\ tab[v].grant = "code")
        BY <1>6, <3>2 DEF Promised, At
      <3>3. QED
        BY <3>1, <3>2
    <2>2. QED
      BY <1>6, <2>1 DEF Knows, Renews, At
  <1>14. TypeOK'
    BY <1>2, <1>5, <1>7, <1>8, TabsTyped DEF IInv, TypeOK
  <1>15. Rotates'
    BY <1>6, <1>11 DEF IInv, Rotates, At
  <1>16. Unstored'
    <2>1. ASSUME NEW v \in Tabs \ {t}, NEW g \in Guids, Promised(v, g)'
          PROVE  /\ cache'[g] = None /\ g \notin spent'
                 /\ (At(v, "get") \/ At(v, "remove"))' => g # tab'[v].key
      <3>1. Promised(v, g) /\ tab'[v] = tab[v]
        BY <1>13, <2>1
      <3>2. g # new
        BY <1>9, <1>10, <3>1 DEF Knows
      <3>3. QED
        BY <1>2, <1>7, <3>1, <3>2 DEF IInv, Unstored, At
    <2>2. /\ cache'[issued + 1] = None /\ issued + 1 \notin spent' /\ issued + 1 # tab'[t].key
      <3>1. issued + 1 # new
        BY <1>1
      <3>2. cache[issued + 1] = None /\ issued + 1 \notin spent
        BY <1>3 DEF IInv, Used
      <3>3. QED
        BY <1>2, <1>3, <1>5, <1>6, <1>7, <3>1, <3>2
    <2>3. QED
      BY <1>12, <2>1, <2>2 DEF Unstored
  <1>17. \A g \in Guids : (InCookie(g)' => InCookie(g)) /\ (Burnt(g)' => Burnt(g))
    BY <1>2, <1>5, <1>6 DEF InCookie, Has, Carried, Burnt, Handed, At
  <1>18. /\ \A g \in spent' : cache'[g] = None /\ g <= issued'
         /\ \A g \in Guids : cache'[g] # None => g <= issued' /\ cache'[g].refresh <= issued'
    <2>1. new <= issued' /\ issued + 1 <= issued'
      BY <1>1, <1>2
    <2>2. \A g \in spent : g # new
      BY <1>3 DEF IInv, Used, TypeOK
    <2>3. QED
      BY <1>2, <1>7, <1>9, <2>1, <2>2
  <1>19. \A v \in Tabs, g \in Guids : Knows(v, g)' =>
           g <= issued' /\ (Knows(v, g) \/ (v \in {t} /\ ~(g <= issued)))
    <2>1. new <= issued' /\ issued + 1 <= issued'
      BY <1>1, <1>2
    <2>2. QED
      BY <1>3, <1>9, <1>10, <1>12, <1>13, <2>1
  <1>20. spent \subseteq spent' /\ \A v, w \in {t} : v = w
    BY <1>2
  <1>21. \A v \in Tabs, g \in Guids : Renews(v, g)' => Renews(v, g)
    BY <1>12, <1>13
  <1> HIDE DEF new
  <1>22. QED
    BY <1>8, <1>14, <1>15, <1>16, <1>17, <1>18, <1>19, <1>20, <1>21, Kept

\* The refresh grant makes a token; the code grant hands on the one it was promised.
LEMMA GetKeeps == ASSUME IInv, NEW t \in Tabs, Get(t) PROVE IInv'
  <1> DEFINE found == cache[tab[t].key]
             z == [tab[t] EXCEPT !.got = found, !.pc = "remove"]
             y == [tab[t] EXCEPT !.got = [user |-> found.user, refresh |-> issued + 1],
                                 !.pc = "remove"]
  <1>1. /\ tab[t] # None /\ tab[t] \in Tab /\ tab[t].pc = "get" /\ Filled(tab[t])
        /\ UNCHANGED <<account, cache, codes, fetched, cookie, page, spent, troubled>>
        /\ \/ Refuse(t)
           \/ found # None /\ tab[t].grant = "code" /\ Becomes(t, z) /\ issued' = issued
           \/ /\ found # None /\ tab[t].grant # "code" /\ Becomes(t, y)
              /\ issued + 1 <= MaxGuids /\ issued' = issued + 1
    BY DEF Get, At, IInv, TypeOK, Becomes, Make, Fresh, Refuse
  <1>2. tab[t].key \in Guids /\ found \in Auth \cup {None}
    BY <1>1 DEF Filled, Tab, IInv, TypeOK
  <1>3. CASE Refuse(t)
    BY <1>1, <1>3, Ends DEF IInv, TypeOK
  <1>4. CASE found # None /\ tab[t].grant = "code" /\ Becomes(t, z) /\ issued' = issued
    <2>1. /\ z \in Tab /\ Filled(z) /\ z.pc = "remove" /\ z.got = found /\ z.key = tab[t].key
          /\ z.grant = "code" /\ z.result = tab[t].result
      BY <1>1, <1>2, <1>4 DEF Tab, Filled
    <2> HIDE DEF z
    <2>2. tab'[t] = z /\ \A v \in Tabs \ {t} : tab'[v] = tab[v]
      BY <1>4, <2>1, TabsTyped DEF IInv
    <2>3. ASSUME NEW g \in Guids
          PROVE  /\ Promised(t, g)' => Promised(t, g)
                 /\ Knows(t, g)' => Knows(t, g)
                 /\ ~Renews(t, g)' /\ (Burnt(g)' => Burnt(g))
      <3>1. Promised(t, g)' => Promised(t, g)
        BY <1>1, <1>4, <2>1, <2>2 DEF Promised, At
      <3>2. (Knows(t, g)' => Knows(t, g)) /\ ~Renews(t, g)'
        BY <1>1, <1>4, <2>1, <2>2, <3>1 DEF Knows, Renews, At
      <3>3. Burnt(g)' => Burnt(g)
        BY <1>1, <2>1, <2>2 DEF Burnt, Handed, At
      <3>4. QED
        BY <3>1, <3>2, <3>3
    <2>4. issued' \in 0..MaxGuids /\ issued' >= issued /\ codes' \in [Guids -> Auth \cup {None}]
      BY <1>1, <1>4, GuidsAreNumbers DEF IInv, TypeOK
    <2>5. At(t, "get") /\ tab'[t].key = tab[t].key
      BY <1>1, <2>1, <2>2 DEF At
    <2>6. QED
      BY <1>1, <1>4, <2>1, <2>3, <2>4, <2>5, Goes
  <1>5. CASE /\ found # None /\ tab[t].grant # "code" /\ Becomes(t, y)
             /\ issued + 1 <= MaxGuids /\ issued' = issued + 1
    <2>1. issued \in 0..MaxGuids /\ MaxGuids \in Nat
      BY LoginAssumption DEF IInv, TypeOK
    <2>2. issued + 1 \in Guids /\ ~(issued + 1 <= issued) /\ issued' \in 0..MaxGuids
          /\ issued' >= issued /\ issued + 1 <= issued'
      BY <1>5, <2>1 DEF Guids
    <2>3. [user |-> found.user, refresh |-> issued + 1] \in Auth
      BY <1>2, <1>5, <2>2 DEF Auth
    <2>4. /\ y \in Tab /\ Filled(y) /\ y.pc = "remove" /\ y.got.refresh = issued + 1
          /\ y.key = tab[t].key /\ y.grant = tab[t].grant /\ y.result = tab[t].result
      BY <1>1, <1>2, <1>5, <2>3, NoneAssumption DEF Tab, Filled
    <2> HIDE DEF y
    <2>5. tab'[t] = y /\ \A v \in Tabs \ {t} : tab'[v] = tab[v]
      BY <1>5, <2>4, TabsTyped DEF IInv
    <2>6. ASSUME NEW g \in Guids
          PROVE  /\ Promised(t, g)' => g = issued + 1
                 /\ Knows(t, g)' => Knows(t, g) \/ g = issued + 1
                 /\ Renews(t, g)' => Renews(t, g)
      <3>1. Promised(t, g)' => g = issued + 1
        BY <2>4, <2>5 DEF Promised, At
      <3>2. QED
        BY <1>1, <2>4, <2>5, <3>1 DEF Knows, Renews, At
    <2>7. ASSUME NEW v \in Tabs \ {t}, NEW g \in Guids
          PROVE  /\ Promised(v, g)' => Promised(v, g) /\ tab'[v] = tab[v]
                 /\ Knows(v, g)' => Knows(v, g)
                 /\ Renews(v, g)' => Renews(v, g)
      BY <1>1, <2>5, Others
    <2>8. TypeOK'
      BY <1>1, <1>5, <2>2, <2>4, TabsTyped DEF IInv, TypeOK
    <2>9. Rotates'
      BY <1>1, <2>4, <2>5 DEF IInv, Rotates, At
    <2>10. Unstored'
      <3>1. ASSUME NEW v \in Tabs \ {t}, NEW g \in Guids, Promised(v, g)'
            PROVE  /\ cache'[g] = None /\ g \notin spent'
                   /\ (At(v, "get") \/ At(v, "remove"))' => g # tab'[v].key
        BY <1>1, <2>7, <3>1 DEF IInv, Unstored, At
      <3>2. cache'[issued + 1] = None /\ issued + 1 \notin spent'
        BY <1>1, <2>2 DEF IInv, Used
      <3>3. tab[t].key <= issued
        BY <1>1, <1>2, <1>5 DEF IInv, Used, Knows, Renews, At
      <3>4. issued + 1 # tab'[t].key
        BY <2>2, <2>4, <2>5, <3>3
      <3>5. QED
        BY <2>6, <3>1, <3>2, <3>4 DEF Unstored
    <2>11. \A g \in Guids : (InCookie(g)' => InCookie(g)) /\ (Burnt(g)' => Burnt(g))
      BY <1>1, <2>4, <2>5 DEF InCookie, Has, Carried, Burnt, Handed, At
    <2>12. \A v \in Tabs, g \in Guids : Knows(v, g)' =>
             g <= issued' /\ (Knows(v, g) \/ (v \in {t} /\ ~(g <= issued)))
      BY <2>2, <2>6, <2>7, Older
    <2>13. /\ \A g \in spent' : cache'[g] = None /\ g <= issued'
           /\ \A g \in Guids : cache'[g] # None => g <= issued' /\ cache'[g].refresh <= issued'
      BY <1>1, <2>2, Older
    <2>14. spent \subseteq spent' /\ \A v, w \in {t} : v = w
      BY <1>1
    <2>15. \A v \in Tabs, g \in Guids : Renews(v, g)' => Renews(v, g)
      BY <2>6, <2>7
    <2>16. QED
      BY <2>2, <2>8, <2>9, <2>10, <2>11, <2>12, <2>13, <2>14, <2>15, Kept
  <1>6. QED
    BY <1>1, <1>3, <1>4, <1>5

\* What was redeemed is nobody else's; for the rotation it is the application's token.
LEMMA RemoveKeeps == ASSUME IInv, NEW t \in Tabs, Remove(t) PROVE IInv'
  <1> DEFINE key == tab[t].key
             y == [tab[t] EXCEPT !.pc = "store"]
  <1>1. /\ tab[t] # None /\ tab[t] \in Tab /\ tab[t].pc = "remove" /\ Filled(tab[t])
        /\ UNCHANGED <<account, issued, codes, fetched, cookie, page, troubled>>
        /\ Becomes(t, y)
        /\ cache' = [cache EXCEPT ![key] = None] /\ spent' = spent \cup {key}
    BY DEF Remove, At, IInv, TypeOK, Becomes
  <1>2. key \in Guids
    BY <1>1 DEF Filled, Tab
  <1>3. /\ y \in Tab /\ Filled(y) /\ y.pc = "store" /\ y.key = key /\ y.got = tab[t].got
        /\ y.grant = tab[t].grant /\ y.result = tab[t].result
    BY <1>1 DEF Tab, Filled
  <1>4. Knows(t, key) \/ Renews(t, key)
    BY <1>1 DEF Knows, Renews, At
  <1> HIDE DEF y
  <1>5. tab'[t] = y /\ \A v \in Tabs \ {t} : tab'[v] = tab[v]
    BY <1>1, <1>3, TabsTyped DEF IInv
  <1>6. /\ cache' \in [Guids -> Auth \cup {None}]
        /\ cache'[key] = None /\ \A g \in Guids \ {key} : cache'[g] = cache[g]
    BY <1>1, <1>2 DEF IInv, TypeOK
  <1>7. issued' \in 0..MaxGuids /\ issued' \in Nat /\ issued' >= issued
    BY <1>1, GuidsAreNumbers DEF IInv, TypeOK
  <1>8. ASSUME NEW g \in Guids
        PROVE  /\ Promised(t, g)' => Promised(t, g)
               /\ Knows(t, g)' => Knows(t, g) /\ g # key
               /\ ~Renews(t, g)'
    <2>1. Promised(t, g)' => Promised(t, g) /\ g # key
      BY <1>1, <1>3, <1>5 DEF Promised, At, IInv, Unstored
    <2>2. QED
      BY <1>3, <1>5, <2>1 DEF Knows, Renews, At
  <1>9. ASSUME NEW v \in Tabs \ {t}, NEW g \in Guids
        PROVE  /\ Promised(v, g)' => Promised(v, g) /\ tab'[v] = tab[v]
               /\ Knows(v, g)' => Knows(v, g)
               /\ Renews(v, g)' => Renews(v, g)
    <2>1. Promised(v, g)' => Promised(v, g)
      <3>1. CASE At(v, "get") /\ tab[v].grant = "code"
        <4>1. tab[v].key \in Guids
          BY <3>1 DEF At, IInv, TypeOK, Tab, Filled
        <4>2. Knows(v, tab[v].key)
          BY <3>1 DEF Knows
        <4>3. tab[v].key # key
          BY <1>4, <4>1, <4>2 DEF IInv, Owned
        <4>4. QED
          BY <1>5, <1>6, <4>1, <4>3 DEF Promised, At
      <3>2. CASE ~(At(v, "get") /\ tab[v].grant = "code")
        BY <1>5, <3>2 DEF Promised, At
      <3>3. QED
        BY <3>1, <3>2
    <2>2. QED
      BY <1>5, <2>1 DEF Knows, Renews, At
  <1>10. TypeOK'
    BY <1>1, <1>2, <1>3, <1>6, <1>7, TabsTyped DEF IInv, TypeOK
  <1>11. Rotates'
    BY <1>3, <1>5 DEF IInv, Rotates, At
  <1>12. Unstored'
    <2>1. ASSUME NEW v \in Tabs, NEW g \in Guids, Promised(v, g)'
          PROVE  /\ cache'[g] = None /\ g \notin spent'
                 /\ (At(v, "get") \/ At(v, "remove"))' => g # tab'[v].key
      <3>1. Promised(v, g) /\ Knows(v, g)'
        BY <1>8, <1>9, <2>1 DEF Knows
      <3>2. g # key
        BY <1>2, <1>4, <1>8, <3>1 DEF IInv, Owned, Knows
      <3>3. cache'[g] = None /\ g \notin spent'
        BY <1>1, <1>6, <3>1, <3>2 DEF IInv, Unstored
      <3>4. (At(v, "get") \/ At(v, "remove"))' => g # tab'[v].key
        BY <1>3, <1>5, <3>1 DEF IInv, Unstored, At
      <3>5. QED
        BY <3>3, <3>4
    <2>2. QED
      BY <2>1 DEF Unstored
  <1>13. \A g \in Guids : InCookie(g)' <=> InCookie(g)
    BY <1>1 DEF InCookie, Has, Carried
  <1>14. ASSUME NEW g \in Guids, Burnt(g)'
         PROVE  \/ Burnt(g)
                \/ g \in spent' /\ ~InCookie(g)' /\ \E v \in Tabs : Knows(v, g) /\ ~Knows(v, g)'
    <2>1. CASE tab[t].grant = "rotate" /\ g = tab[t].result.refresh
      <3>1. g = key /\ Knows(t, g)
        BY <1>1, <2>1 DEF Knows, At, IInv, Rotates
      <3>2. g \in spent' /\ ~Knows(t, g)'
        BY <1>1, <1>8, <3>1
      <3>3. ~InCookie(g)'
        BY <1>13, <3>1 DEF IInv, Owned
      <3>4. QED
        BY <3>1, <3>2, <3>3
    <2>2. CASE ~(tab[t].grant = "rotate" /\ g = tab[t].result.refresh)
      BY <1>1, <1>3, <1>5, <1>14, <2>2 DEF Burnt, Handed, At
    <2>3. QED
      BY <2>1, <2>2
  <1>15. \A v \in Tabs, g \in Guids : Knows(v, g)' => g <= issued' /\ Knows(v, g)
    BY <1>7, <1>8, <1>9, Older
  <1>16. \A g \in spent' : cache'[g] = None /\ g <= issued'
    BY <1>1, <1>2, <1>4, <1>6, <1>7, Older
  <1>17. \A g \in Guids : cache'[g] # None => g <= issued' /\ cache'[g].refresh <= issued'
    BY <1>6, <1>7, Older
  <1> DEFINE T == {}
  <1>18. spent \subseteq spent' /\ \A v, w \in T : v = w
    BY <1>1
  <1> HIDE DEF T
  <1>19. \A v \in Tabs, g \in Guids : Renews(v, g)' => Renews(v, g)
    BY <1>8, <1>9
  <1>20. QED
    BY <1>7, <1>10, <1>11, <1>12, <1>13, <1>14, <1>15, <1>16, <1>17, <1>18, <1>19, Kept

\* What is stored was this sign-in's alone, and was not in the cache before.
LEMMA StoreKeeps == ASSUME IInv, NEW t \in Tabs, Store(t) PROVE IInv'
  <1> DEFINE got == tab[t].got
             y == IF tab[t].grant = "rotate"
                  THEN [tab[t] EXCEPT !.renewed = got.refresh, !.pc = "publish"]
                  ELSE [tab[t] EXCEPT !.result = got, !.pc = "info"]
  <1>1. /\ tab[t] # None /\ tab[t] \in Tab /\ tab[t].pc = "store" /\ Filled(tab[t])
        /\ UNCHANGED <<account, issued, codes, fetched, cookie, page, spent, troubled>>
        /\ Becomes(t, y)
        /\ cache' = [cache EXCEPT ![got.refresh] = got]
    BY DEF Store, At, IInv, TypeOK, Becomes
  <1>2. got \in Auth /\ got.refresh \in Guids /\ got # None
    BY <1>1, NoneAssumption DEF Filled, Tab, Auth
  <1>3. /\ y \in Tab /\ Filled(y) /\ y.grant = tab[t].grant
        /\ \/ /\ y.grant = "rotate" /\ y.pc = "publish" /\ y.renewed = got.refresh
              /\ y.result = tab[t].result
           \/ y.grant # "rotate" /\ y.pc = "info" /\ y.result = got
    <2>1. CASE tab[t].grant = "rotate"
      BY <1>1, <1>2, <2>1, GuidsAreNumbers DEF Tab, Filled
    <2>2. CASE tab[t].grant # "rotate"
      BY <1>1, <1>2, <2>2, GuidsAreNumbers DEF Tab, Filled
    <2>3. QED
      BY <2>1, <2>2
  <1>4. Promised(t, got.refresh) /\ Knows(t, got.refresh)
    BY <1>1 DEF Promised, Knows, At
  <1> HIDE DEF y
  <1>5. tab'[t] = y /\ \A v \in Tabs \ {t} : tab'[v] = tab[v]
    BY <1>1, <1>3, TabsTyped DEF IInv
  <1>6. /\ cache' \in [Guids -> Auth \cup {None}]
        /\ cache'[got.refresh] = got
        /\ \A g \in Guids \ {got.refresh} : cache'[g] = cache[g]
    BY <1>1, <1>2 DEF IInv, TypeOK
  <1>7. issued' \in 0..MaxGuids /\ issued' \in Nat /\ issued' >= issued
    BY <1>1, GuidsAreNumbers DEF IInv, TypeOK
  <1>8. ASSUME NEW g \in Guids
        PROVE  ~Promised(t, g)' /\ (Knows(t, g)' => g = got.refresh) /\ ~Renews(t, g)'
    BY <1>3, <1>5 DEF Promised, Knows, Renews, At
  <1>9. ASSUME NEW v \in Tabs \ {t}, NEW g \in Guids
        PROVE  /\ Promised(v, g)' => Promised(v, g) /\ tab'[v] = tab[v]
               /\ Knows(v, g)' => Knows(v, g)
               /\ Renews(v, g)' => Renews(v, g)
    <2>1. Promised(v, g)' => Promised(v, g)
      <3>1. CASE At(v, "get") /\ tab[v].grant = "code"
        <4>1. tab[v].key \in Guids
          BY <3>1 DEF At, IInv, TypeOK, Tab, Filled
        <4>2. Knows(v, tab[v].key)
          BY <3>1 DEF Knows
        <4>3. tab[v].key # got.refresh
          BY <1>2, <1>4, <4>1, <4>2 DEF IInv, Owned
        <4>4. QED
          BY <1>5, <1>6, <4>1, <4>3 DEF Promised, At
      <3>2. CASE ~(At(v, "get") /\ tab[v].grant = "code")
        BY <1>5, <3>2 DEF Promised, At
      <3>3. QED
        BY <3>1, <3>2
    <2>2. QED
      BY <1>5, <2>1 DEF Knows, Renews, At
  <1>10. TypeOK'
    BY <1>1, <1>3, <1>6, <1>7, TabsTyped DEF IInv, TypeOK
  <1>11. Rotates'
    BY <1>3, <1>5 DEF IInv, Rotates, At
  <1>12. Unstored'
    <2>1. ASSUME NEW v \in Tabs, NEW g \in Guids, Promised(v, g)'
          PROVE  /\ cache'[g] = None /\ g \notin spent'
                 /\ (At(v, "get") \/ At(v, "remove"))' => g # tab'[v].key
      <3>1. v # t /\ Promised(v, g) /\ tab'[v] = tab[v]
        BY <1>8, <1>9, <2>1
      <3>2. g # got.refresh
        BY <1>2, <1>4, <3>1 DEF IInv, Owned, Knows
      <3>3. QED
        BY <1>1, <1>6, <3>1, <3>2 DEF IInv, Unstored, At
    <2>2. QED
      BY <2>1 DEF Unstored
  <1>13. \A g \in Guids : (InCookie(g)' => InCookie(g)) /\ (Burnt(g)' => Burnt(g))
    BY <1>1, <1>3, <1>5 DEF InCookie, Has, Carried, Burnt, Handed, At
  <1>14. \A v \in Tabs, g \in Guids : Knows(v, g)' => g <= issued' /\ Knows(v, g)
    BY <1>4, <1>7, <1>8, <1>9, Older
  <1>15. \A g \in spent' : cache'[g] = None /\ g <= issued'
    <2>1. got.refresh \notin spent
      BY <1>2, <1>4 DEF IInv, Unstored
    <2>2. QED
      BY <1>1, <1>6, <1>7, <2>1, Older
  <1>16. \A g \in Guids : cache'[g] # None => g <= issued' /\ cache'[g].refresh <= issued'
    BY <1>2, <1>4, <1>6, <1>7, Older
  <1> DEFINE T == {}
  <1>17. spent \subseteq spent' /\ \A v, w \in T : v = w
    BY <1>1
  <1> HIDE DEF T
  <1>18. \A v \in Tabs, g \in Guids : Renews(v, g)' => Renews(v, g)
    BY <1>8, <1>9
  <1>19. QED
    BY <1>7, <1>10, <1>11, <1>12, <1>13, <1>14, <1>15, <1>16, <1>17, <1>18, Kept

\* A page that is outrun is still the page of its browser, with its token.
LEMMA OutrunKeeps ==
    ASSUME NEW x \in Page \cup {None}, NEW b
    PROVE  /\ Outrun(x, b) \in Page \cup {None}
           /\ Outrun(x, b) # None <=> x # None
           /\ x # None => /\ Outrun(x, b).browser = x.browser /\ Outrun(x, b).token = x.token
                          /\ Outrun(x, b).outrun = (x.outrun \/ x.browser = b)
  <1>1. CASE x = None
    BY <1>1 DEF Outrun
  <1>2. CASE x # None
    BY <1>2, NoneAssumption DEF Outrun, Page
  <1>3. QED
    BY <1>1, <1>2

\* The rotated token goes into the cookie, and the sign-in ends.
LEMMA AnswerKeeps == ASSUME IInv, NEW t \in Tabs, Answer(t) PROVE IInv'
  <1>1. /\ tab[t] # None /\ tab[t] \in Tab /\ tab[t].pc \in {"answer", "publish"}
        /\ Filled(tab[t])
        /\ tab'[t] = None /\ \A v \in Tabs \ {t} : tab'[v] = tab[v]
        /\ UNCHANGED <<account, issued, cache, codes, fetched, spent, troubled>>
        /\ cookie' = [cookie EXCEPT ![tab[t].browser] = tab[t].renewed]
        /\ page' = [p \in Pages |-> Outrun(page[p], tab[t].browser)]
    BY DEF Answer, At, IInv, TypeOK
  <1>2. tab[t].browser \in Browsers /\ tab[t].renewed \in Guids
    BY <1>1 DEF Tab, Filled
  <1>3. TypeOK'
    <2>1. tab' \in [Tabs -> Tab \cup {None}] /\ cookie' \in [Browsers -> Guids \cup {None}]
      BY <1>1, <1>2 DEF Answer, IInv, TypeOK
    <2>2. \A v \in Tabs : tab'[v] # None => Filled(tab'[v])
      BY <1>1 DEF IInv, TypeOK
    <2>3. page' \in [Pages -> Page \cup {None}]
      BY <1>1, OutrunKeeps DEF IInv, TypeOK
    <2>4. QED
      BY <1>1, <2>1, <2>2, <2>3 DEF IInv, TypeOK
  <1>4. ASSUME NEW v \in Tabs, NEW pc
        PROVE  At(v, pc)' => At(v, pc) /\ tab'[v] = tab[v]
    BY <1>1 DEF At
  <1>5. Rotates'
    BY <1>4 DEF IInv, Rotates
  <1>6. \A v \in Tabs, g \in Guids : Promised(v, g)' => Promised(v, g) /\ tab'[v] = tab[v]
    BY <1>1, <1>4 DEF Promised
  <1>7. \A v \in Tabs, g \in Guids : /\ Knows(v, g)' => Knows(v, g)
                                     /\ Renews(v, g)' => Renews(v, g)
    BY <1>4, <1>6 DEF Knows, Renews
  <1>8. \A g \in Guids : Burnt(g)' => Burnt(g)
    BY <1>1, <1>4 DEF Burnt, Handed
  <1>9. ASSUME NEW g \in Guids, InCookie(g)'
        PROVE  InCookie(g) \/ \E v \in Tabs : Knows(v, g) /\ ~Knows(v, g)' /\ ~Burnt(g)'
    <2>1. CASE g = tab[t].renewed
      <3>1. Knows(t, g)
        BY <1>1, <2>1 DEF Knows, At
      <3>2. ~Knows(t, g)'
        BY <1>1 DEF Knows, Promised, At
      <3>3. ~Burnt(g)'
        BY <1>8, <3>1 DEF IInv, Owned
      <3>4. QED
        BY <3>1, <3>2, <3>3
    <2>2. CASE g # tab[t].renewed
      <3>1. PICK b \in Browsers : Has(b, g)'
        BY <1>9 DEF InCookie
      <3>2. Has(b, g)
        BY <1>1, <2>2, <3>1, OutrunKeeps DEF Has, Carried, IInv, TypeOK
      <3>3. QED
        BY <3>2 DEF InCookie
    <2>3. QED
      BY <2>1, <2>2
  <1>10. issued' >= issued
    BY <1>1, GuidsAreNumbers DEF IInv, TypeOK
  <1>11. QED
    BY <1>1, <1>3, <1>4, <1>5, <1>6, <1>7, <1>8, <1>9, <1>10, Quiet

-----------------------------------------------------------------------------
\* The applications, the browsers and the accounts leave the grants alone.
LEMMA Around ==
    ASSUME IInv, UNCHANGED <<issued, cache, tab, spent>>,
           account' \in [Users -> {"active", "inactive", "deleted"}],
           codes' \in [Guids -> Auth \cup {None}],
           fetched' \subseteq Auth, Handed' \subseteq Handed,
           cookie' \in [Browsers -> Guids \cup {None}],
           page' \in [Pages -> Page \cup {None}],
           \A b \in Browsers, g \in Guids : Has(b, g)' => Has(b, g),
           troubled' \subseteq Browsers
    PROVE  IInv'
  <1>1. TypeOK'
    BY DEF IInv, TypeOK
  <1>2. \A v \in Tabs, g \in Guids : /\ Promised(v, g)' <=> Promised(v, g)
                                     /\ Knows(v, g)' <=> Knows(v, g)
                                     /\ Renews(v, g)' <=> Renews(v, g)
    BY DEF Promised, Knows, Renews, At
  <1>3. \A g \in Guids : InCookie(g)' => InCookie(g)
    BY DEF InCookie
  <1>4. \A g \in Guids : Burnt(g)' => Burnt(g)
    BY DEF Burnt, At
  <1>5. Rotates'
    BY DEF IInv, Rotates, At
  <1>6. issued' >= issued
    BY GuidsAreNumbers DEF IInv, TypeOK
  <1>7. \A v \in Tabs : (At(v, "get") \/ At(v, "remove"))' => At(v, "get") \/ At(v, "remove")
    BY DEF At
  <1>8. QED
    BY <1>1, <1>2, <1>3, <1>4, <1>5, <1>6, <1>7, Quiet

\* The application fetches the response.
LEMMA FetchKeeps == ASSUME IInv, NEW h \in Guids, Fetch(h) PROVE IInv'
  <1>1. codes \in [Guids -> Auth \cup {None}] /\ codes[h] \in Auth /\ fetched \subseteq Auth
    BY DEF Fetch, IInv, TypeOK
  <1>2. codes' \in [Guids -> Auth \cup {None}] /\ \A g \in Guids : codes'[g] \in {codes[g], None}
    BY <1>1 DEF Fetch
  <1>3. Handed' \subseteq Handed
    BY <1>2 DEF Fetch, Handed
  <1>4. QED
    BY <1>1, <1>2, <1>3, Around DEF Fetch, Has, Carried, IInv, TypeOK

\* Nobody fetched it in time.
LEMMA ExpireCodeKeeps == ASSUME IInv, NEW h \in Guids, ExpireCode(h) PROVE IInv'
  <1>1. codes' \in [Guids -> Auth \cup {None}] /\ \A g \in Guids : codes'[g] \in {codes[g], None}
    BY DEF ExpireCode, IInv, TypeOK
  <1>2. Handed' \subseteq Handed
    BY <1>1 DEF ExpireCode, Handed
  <1>3. QED
    BY <1>1, <1>2, Around DEF ExpireCode, Has, Carried, IInv, TypeOK

\* The cookie is forgotten; its token stays where it is.
LEMMA LogoutKeeps == ASSUME IInv, NEW b \in Browsers, Logout(b) PROVE IInv'
  <1>1. /\ cookie' \in [Browsers -> Guids \cup {None}]
        /\ \A c \in Browsers : cookie'[c] \in {cookie[c], None}
    BY DEF Logout, IInv, TypeOK
  <1>2. Handed' = Handed
    BY DEF Logout, Handed
  <1>3. \A c \in Browsers, g \in Guids : Has(c, g)' => Has(c, g)
    BY <1>1, GuidsAreNumbers DEF Logout, Has, Carried
  <1>4. QED
    BY <1>1, <1>2, <1>3, Around DEF Logout, IInv, TypeOK

\* A page carries the token of a cookie, and at most brings it back.
LEMMA PageKeeps == ASSUME IInv, NEW p \in Pages, Visit(p) \/ Show(p) \/ Reissue(p) PROVE IInv'
  <1>1. cookie \in [Browsers -> Guids \cup {None}] /\ page \in [Pages -> Page \cup {None}]
    BY DEF IInv, TypeOK
  <1>2. Handed' = Handed
    BY DEF Visit, Show, Reissue, Handed
  <1>3. CASE Visit(p)
    <2>1. PICK b \in Browsers :
            /\ cookie[b] # None
            /\ page' = [page EXCEPT ![p] = [browser |-> b, token |-> cookie[b], outrun |-> FALSE]]
      BY <1>3 DEF Visit
    <2> DEFINE x == [browser |-> b, token |-> cookie[b], outrun |-> FALSE]
    <2>2. x \in Page /\ x.browser = b /\ x.token = cookie[b]
      BY <1>1, <2>1 DEF Page
    <2>3. page' = [page EXCEPT ![p] = x]
      BY <2>1
    <2> HIDE DEF x
    <2>4. page' \in [Pages -> Page \cup {None}]
      BY <1>1, <2>2, <2>3
    <2>5. \A c \in Browsers, g \in Guids : Has(c, g)' => Has(c, g)
      BY <1>1, <1>3, <2>2, <2>3 DEF Visit, Has, Carried
    <2>6. QED
      BY <1>2, <1>3, <2>4, <2>5, Around DEF Visit, IInv, TypeOK
  <1>4. CASE Show(p)
    BY <1>1, <1>2, <1>4, Around DEF Show, Has, Carried, IInv, TypeOK
  <1>5. CASE Reissue(p)
    <2>1. page[p] # None /\ page[p].browser \in Browsers /\ page[p].token \in Guids
      BY <1>1, <1>5 DEF Reissue, Page
    <2>2. cookie' \in [Browsers -> Guids \cup {None}] /\ page' \in [Pages -> Page \cup {None}]
      BY <1>1, <1>5, <2>1 DEF Reissue
    <2>3. \A c \in Browsers, g \in Guids : Has(c, g)' => Has(c, g)
      BY <1>1, <1>5, <2>1 DEF Reissue, Has, Carried
    <2>4. QED
      BY <1>2, <1>5, <2>2, <2>3, Around DEF Reissue, IInv, TypeOK
  <1>6. QED
    BY <1>3, <1>4, <1>5

\* A deletion reaches no token.
LEMMA DeleteUserKeeps == ASSUME IInv, NEW u \in Users, DeleteUser(u) PROVE IInv'
  <1>1. account' \in [Users -> {"active", "inactive", "deleted"}] /\ troubled' \subseteq Browsers
    BY DEF DeleteUser, IInv, TypeOK
  <1>2. Handed' = Handed
    BY DEF DeleteUser, Handed
  <1>3. QED
    BY <1>1, <1>2, Around DEF DeleteUser, Has, Carried, IInv, TypeOK

\* A token that expires is spent.
LEMMA ExpireKeeps == ASSUME IInv, NEW h \in Guids, Expire(h) PROVE IInv'
  <1>1. /\ cache' \in [Guids -> Auth \cup {None}] /\ cache[h] # None
        /\ cache'[h] = None /\ \A g \in Guids \ {h} : cache'[g] = cache[g]
        /\ spent' = spent \cup {h}
        /\ UNCHANGED <<account, issued, codes, fetched, cookie, tab, page>>
    BY DEF Expire, IInv, TypeOK
  <1>2. TypeOK'
    BY <1>1 DEF Expire, IInv, TypeOK
  <1>3. issued' \in Nat /\ issued' >= issued
    BY <1>1, GuidsAreNumbers DEF IInv, TypeOK
  <1>4. ASSUME NEW v \in Tabs, NEW g \in Guids, Promised(v, g)'
        PROVE  Promised(v, g)
    <2>1. CASE At(v, "get") /\ tab[v].grant = "code"
      <3>1. tab[v].key \in Guids
        BY <2>1 DEF At, IInv, TypeOK, Tab, Filled
      <3>2. cache'[tab[v].key] # None => cache'[tab[v].key] = cache[tab[v].key]
        BY <1>1, <3>1
      <3>3. QED
        BY <1>1, <1>4, <2>1, <3>2 DEF Promised, At
    <2>2. CASE ~(At(v, "get") /\ tab[v].grant = "code")
      BY <1>1, <1>4, <2>2 DEF Promised, At
    <2>3. QED
      BY <2>1, <2>2
  <1>5. \A v \in Tabs, g \in Guids : /\ Knows(v, g)' => g <= issued' /\ Knows(v, g)
                                     /\ Renews(v, g)' => Renews(v, g)
    <2>1. \A v \in Tabs, g \in Guids : /\ Knows(v, g)' => Knows(v, g)
                                       /\ Renews(v, g)' => Renews(v, g)
      BY <1>1, <1>4 DEF Knows, Renews, At
    <2>2. QED
      BY <1>3, <2>1, Older
  <1>6. \A g \in Guids : (InCookie(g)' => InCookie(g)) /\ (Burnt(g)' => Burnt(g))
    BY <1>1 DEF InCookie, Has, Carried, Burnt, Handed, At
  <1>7. Rotates'
    BY <1>1 DEF IInv, Rotates, At
  <1>8. Unstored'
    BY <1>1, <1>4 DEF IInv, Unstored, At
  <1>9. \A g \in spent' : cache'[g] = None /\ g <= issued'
    BY <1>1, <1>3, Older
  <1>10. \A g \in Guids : cache'[g] # None => g <= issued' /\ cache'[g].refresh <= issued'
    BY <1>1, <1>3, Older
  <1> DEFINE T == {}
  <1>11. spent \subseteq spent' /\ \A v, w \in T : v = w
    BY <1>1
  <1> HIDE DEF T
  <1>12. QED
    BY <1>2, <1>3, <1>5, <1>6, <1>7, <1>8, <1>9, <1>10, <1>11, Kept

-----------------------------------------------------------------------------
\* Each action of a sign-in, by its lemma.
LEMMA StepKeeps == ASSUME IInv, NEW t \in Tabs, Step(t) PROVE IInv'
  <1>1. CASE Password(t)
    <2>1. PICK b \in Browsers, u \in Users : Begin(t, b, u, None, "code", "check")
      BY <1>1 DEF Password
    <2>2. QED
      BY <2>1, PasswordKeeps
  <1>2. CASE Return(t)
    <2>1. PICK b \in Browsers, u \in Users :
            cookie[b] # None /\ Begin(t, b, u, cookie[b], "renew", "get")
      BY <1>2 DEF Return
    <2>2. cookie[b] \in Guids \cup {None}
      BY DEF IInv, TypeOK
    <2>3. QED
      BY <2>1, <2>2, PasswordKeeps
  <1>3. CASE Fail(t)
    <2>1. troubled' \subseteq Browsers /\ Refuse(t)
      BY <1>3 DEF Fail, IInv, TypeOK, Tab
    <2>2. QED
      BY <2>1, Ends
  <1>4. QED
    BY <1>1, <1>2, <1>3, CheckKeeps, IssueKeeps, GetKeeps, RemoveKeeps, StoreKeeps,
       InfoKeeps, PublishKeeps, AnswerKeeps DEF Step

\* The invariant is inductive.
LEMMA NextOK == IInv /\ [Next]_vars => IInv'
  <1> SUFFICES ASSUME IInv, [Next]_vars PROVE IInv'
    OBVIOUS
  <1>1. CASE Next
    BY <1>1, StepKeeps, FetchKeeps, ExpireKeeps, ExpireCodeKeeps, LogoutKeeps, PageKeeps,
       DeleteUserKeeps DEF Next
  <1>2. CASE UNCHANGED vars
    <2>1. TypeOK'
      BY <1>2 DEF vars, IInv, TypeOK
    <2>2. Handed' = Handed /\ UNCHANGED <<issued, cache, tab, spent, troubled>>
      BY <1>2 DEF vars, Handed
    <2>3. \A b \in Browsers, g \in Guids : Has(b, g)' => Has(b, g)
      BY <1>2 DEF vars, Has, Carried
    <2>4. QED
      BY <1>2, <2>1, <2>2, <2>3, Around DEF vars, IInv, TypeOK
  <1>3. QED
    BY <1>1, <1>2

\* The invariant always holds.
LEMMA Invariance == Spec => []IInv
  <1>1. Init => IInv
    BY InitOK
  <1>2. IInv /\ [Next]_vars => IInv'
    BY NextOK
  <1>3. QED
    BY <1>1, <1>2, PTL DEF Spec

\* The values every sign-in, cookie and cache entry keeps.
THEOREM TypeCorrect == Spec => []TypeOK
  <1>1. IInv => TypeOK
    BY DEF IInv
  <1>2. QED
    BY <1>1, Invariance, PTL

\* However the grants of any number of tabs interleave, what was redeemed or has
\* expired is never accepted again: no Store writes under a spent token.
THEOREM TokensStaySpent == Spec => []SpentTokensStaySpent
  <1>1. IInv => SpentTokensStaySpent
    BY DEF IInv
  <1>2. QED
    BY <1>1, Invariance, PTL

\* What an application is handed was redeemed for the cookie, and is in no cookie.
THEOREM ApplicationsGetSpent == Spec => []ApplicationsGetSpentTokens
  <1>1. ASSUME IInv PROVE ApplicationsGetSpentTokens
    <2> SUFFICES ASSUME NEW a \in Handed
                 PROVE  cache[a.refresh] = None /\ \A b \in Browsers : a.refresh # cookie[b]
      BY DEF ApplicationsGetSpentTokens
    <2>1. a \in Auth /\ a.refresh \in Guids
      BY <1>1 DEF Handed, IInv, TypeOK, Auth
    <2>2. Burnt(a.refresh)
      BY DEF Burnt
    <2>3. a.refresh \in spent /\ ~InCookie(a.refresh)
      BY <1>1, <2>1, <2>2 DEF IInv, Owned
    <2>4. QED
      BY <1>1, <2>3 DEF IInv, SpentTokensStaySpent, InCookie, Has, Carried
  <1>2. QED
    BY <1>1, Invariance, PTL

-----------------------------------------------------------------------------
(* A grant answers with the account the sign-in is for, so that userInfo     *)
(* looks at the right one.                                                   *)
Whose(t) == tab[t] # None =>
    /\ tab[t].pc = "get" /\ tab[t].grant # "rotate" /\ cache[tab[t].key] # None
         => cache[tab[t].key].user = tab[t].user
    /\ tab[t].pc \in {"remove", "store"} /\ tab[t].grant # "rotate"
         => tab[t].got.user = tab[t].user
    /\ tab[t].pc = "info" => tab[t].result.user = tab[t].user
    /\ tab[t].late => /\ account[tab[t].user] = "deleted"
                      /\ tab[t].grant # "rotate" /\ tab[t].renewed = None

AllWhose == \A t \in Tabs : Whose(t)

\* A step of one sign-in does not move another.
LEMMA TabsStay ==
    ASSUME TypeOK, Next, NEW u \in Tabs, ~Step(u)
    PROVE  tab'[u] = tab[u]
  <1>1. CASE \E t \in Tabs : Step(t)
    <2>1. PICK t \in Tabs : Step(t)
      BY <1>1
    <2>2. t # u /\ tab \in [Tabs -> Tab \cup {None}]
      BY <2>1 DEF TypeOK
    <2>3. \E y : tab' = [tab EXCEPT ![t] = y]
      BY <2>1 DEF Step, Password, Return, Begin, Check, Issue, Get, Remove,
         Store, Info, Publish, Answer, Fail, Refuse
    <2>4. QED
      BY <2>2, <2>3
  <1>2. CASE UNCHANGED tab
    BY <1>2
  <1>3. QED
    BY <1>1, <1>2 DEF Next, Fetch, Expire, ExpireCode, Logout,
       Visit, Show, Reissue, DeleteUser

\* What a sign-in is about to redeem changes only by being removed.
LEMMA KeySteady ==
    ASSUME IInv, NEW u \in Tabs, At(u, "get"), Next,
           \A t \in Tabs : Step(t) => t # u
    PROVE  cache'[tab[u].key] \in {cache[tab[u].key], None}
  <1> DEFINE key == tab[u].key
  <1>1. cache \in [Guids -> Auth \cup {None}]
    BY DEF IInv, TypeOK
  <1>2. key \in Guids
    BY DEF At, IInv, TypeOK, Tab, Filled
  <1>3. Knows(u, key) \/ Renews(u, key)
    BY DEF Knows, Renews
  <1>4. key <= issued
    BY <1>2, <1>3 DEF IInv, Used
  <1> HIDE DEF key
  <1>5. SUFFICES cache'[key] \in {cache[key], None}
    BY DEF key
  <1>6. CASE \E t \in Tabs : Step(t)
    <2>1. PICK t \in Tabs : Step(t)
      BY <1>6
    <2>2. t # u
      BY <2>1
    <2>3. CASE Issue(t)
      <3>1. issued + 2 # key
        BY <1>2, <1>4, GuidsAreNumbers DEF IInv, TypeOK
      <3>2. QED
        BY <1>1, <1>2, <2>3, <3>1 DEF Issue
    <2>4. CASE Remove(t)
      BY <1>1, <1>2, <2>4 DEF Remove
    <2>5. CASE Store(t)
      <3>1. tab[t].got.refresh \in Guids
        BY <2>5 DEF Store, At, IInv, TypeOK, Tab, Filled, Auth
      <3>2. Knows(t, tab[t].got.refresh)
        BY <2>5 DEF Store, Knows, Promised, At
      <3>3. tab[t].got.refresh # key
        BY <1>2, <1>3, <2>2, <3>1, <3>2 DEF IInv, Owned
      <3>4. QED
        BY <1>1, <1>2, <2>5, <3>3 DEF Store
    <2>6. CASE UNCHANGED cache
      BY <2>6
    <2>7. QED
      BY <2>1, <2>3, <2>4, <2>5, <2>6
         DEF Step, Password, Return, Begin, Check, Get, Refuse, Info, Publish, Answer, Fail
  <1>7. CASE \E g \in Guids : Expire(g)
    BY <1>1, <1>2, <1>7 DEF Expire
  <1>8. CASE UNCHANGED cache
    BY <1>8
  <1>9. QED
    BY <1>6, <1>7, <1>8 DEF Next, Fetch, ExpireCode, Logout,
       Visit, Show, Reissue, DeleteUser

\* A deletion is final, so a sign-in that does not move stays right about its user.
LEMMA WhoseStays ==
    ASSUME IInv, NEW u \in Tabs, Whose(u), tab'[u] = tab[u], Next,
           \A t \in Tabs : Step(t) => t # u
    PROVE  Whose(u)'
  <1> SUFFICES ASSUME tab[u] # None PROVE Whose(u)'
    BY DEF Whose
  <1>1. tab[u].user \in Users
    BY DEF IInv, TypeOK, Tab
  <1>2. account[tab[u].user] = "deleted" => account'[tab[u].user] = "deleted"
    BY <1>1 DEF IInv, TypeOK, Next, Step, Password, Return, Begin, Check, Issue, Get, Remove,
       Store, Info, Publish, Answer, Fail, Refuse, Fetch, Expire, ExpireCode, Logout,
       Visit, Show, Reissue, DeleteUser
  <1>3. tab[u].pc = "get" => cache'[tab[u].key] \in {cache[tab[u].key], None}
    BY KeySteady DEF At
  <1>4. QED
    BY <1>2, <1>3 DEF Whose

\* The step of the sign-in itself.
LEMMA WhoseGoes ==
    ASSUME IInv, NEW t \in Tabs, Whose(t), Step(t)
    PROVE  Whose(t)'
  <1>1. CASE \/ \E b \in Browsers, u \in Users : Begin(t, b, u, None, "code", "check")
             \/ \E b \in Browsers, u \in Users :
                  /\ cache[cookie[b]] # None => u = cache[cookie[b]].user
                  /\ Begin(t, b, u, cookie[b], "renew", "get")
    <2>1. PICK b, u, key, grant, pc :
            /\ Begin(t, b, u, key, grant, pc) /\ grant # "rotate"
            /\ \/ pc = "check"
               \/ pc = "get" /\ (cache[key] # None => u = cache[key].user)
      BY <1>1
    <2> DEFINE y == [browser |-> b, user |-> u, key |-> key, got |-> None, result |-> None,
                     renewed |-> None, late |-> account[u] = "deleted", grant |-> grant, pc |-> pc]
    <2>2. tab'[t] = y /\ account' = account /\ cache' = cache
      BY <2>1 DEF Begin, IInv, TypeOK
    <2>3. y.late => account[u] = "deleted"
      OBVIOUS
    <2>4. /\ y.user = u /\ y.key = key /\ y.renewed = None /\ y.grant = grant /\ y.pc = pc
      OBVIOUS
    <2> HIDE DEF y
    <2>5. QED
      BY <2>1, <2>2, <2>3, <2>4 DEF Whose
  <1>2. CASE Refuse(t) \/ Answer(t) \/ Fail(t)
    BY <1>2 DEF Refuse, Answer, Fail, Whose, IInv, TypeOK
  <1>3. ASSUME tab[t] # None
        PROVE  tab \in [Tabs -> Tab \cup {None}] /\ tab[t] \in Tab /\ Filled(tab[t])
               /\ cache \in [Guids -> Auth \cup {None}]
    BY <1>3 DEF IInv, TypeOK
  <1>4. CASE Check(t) /\ ~Refuse(t)
    BY <1>3, <1>4 DEF Check, At, Whose, Tab
  <1>5. CASE Issue(t)
    <2>1. issued + 2 \in Guids
      BY <1>5, LoginAssumption DEF Issue, Make, IInv, TypeOK, Guids
    <2>2. QED
      BY <1>3, <1>5, <2>1 DEF Issue, At, Whose, Tab
  <1>6. CASE Get(t) /\ ~Refuse(t)
    BY <1>3, <1>6 DEF Get, At, Whose, Tab
  <1>7. CASE Remove(t)
    BY <1>3, <1>7 DEF Remove, At, Whose, Tab
  <1>8. CASE Store(t)
    BY <1>3, <1>8 DEF Store, At, Whose, Tab
  <1>9. CASE Info(t) /\ ~Refuse(t)
    BY <1>3, <1>9 DEF Info, At, Whose, Tab
  <1>10. CASE Publish(t)
    BY <1>3, <1>10 DEF Publish, At, Whose, Tab
  <1>11. QED
    BY <1>1, <1>2, <1>4, <1>5, <1>6, <1>7, <1>8, <1>9, <1>10 DEF Step, Password, Return

\* The sign-in that moves, and those that do not.
LEMMA WhoseOK == IInv /\ AllWhose /\ [Next]_vars => AllWhose'
  <1> SUFFICES ASSUME IInv, AllWhose, [Next]_vars, NEW u \in Tabs PROVE Whose(u)'
    BY DEF AllWhose
  <1>1. CASE Next /\ Step(u)
    BY <1>1, WhoseGoes DEF AllWhose
  <1>2. CASE Next /\ ~Step(u)
    <2>1. tab'[u] = tab[u]
      BY <1>2, TabsStay DEF IInv
    <2>2. \A t \in Tabs : Step(t) => t # u
      BY <1>2
    <2>3. QED
      BY <1>2, <2>1, <2>2, WhoseStays DEF AllWhose
  <1>3. CASE UNCHANGED vars
    BY <1>3 DEF vars, AllWhose, Whose
  <1>4. QED
    BY <1>1, <1>2, <1>3

\* A request that begins after the account's deletion reaches no cookie and no
\* login code, although the refresh grant does not look at the account.
THEOREM DeletedStayOut == Spec => []DeletedUsersStayOut
  <1>1. Init => AllWhose
    BY DEF Init, AllWhose, Whose
  <1>2. IInv /\ AllWhose /\ [Next]_vars => AllWhose'
    BY WhoseOK
  <1>3. IInv /\ AllWhose => DeletedUsersStayOut
    BY DEF AllWhose, Whose, DeletedUsersStayOut, IInv, TypeOK, Filled
  <1>4. QED
    BY <1>1, <1>2, <1>3, Invariance, PTL DEF Spec

-----------------------------------------------------------------------------
(* Racing tabs: each cookie is of one browser, and a tab that has taken its  *)
(* token out of the cache holds, or will store, the one that replaces it.    *)
OneBrowser ==
    /\ \A b, c \in Browsers, g \in Guids : Has(b, g) /\ Has(c, g) => b = c
    /\ \A t \in Tabs, b \in Browsers, g \in Guids : Renews(t, g) /\ Has(b, g) => tab[t].browser = b

\* The tokens a browser counts on: an outrun page may only do harm.
Current(b, g) ==
    \/ g = cookie[b]
    \/ \E p \in Pages : /\ page[p] # None /\ page[p].browser = b
                        /\ page[p].token = g /\ ~page[p].outrun

\* What an answered sign-in does to cookies and pages.
LEMMA Answered ==
    ASSUME IInv, NEW t \in Tabs, Answer(t), NEW b \in Browsers, NEW g \in Guids
    PROVE  /\ Has(b, g)' => Has(b, g) \/ (tab[t].browser = b /\ g = tab[t].renewed)
           /\ Current(b, g)' => IF tab[t].browser = b THEN g = tab[t].renewed ELSE Current(b, g)
  <1>1. cookie \in [Browsers -> Guids \cup {None}] /\ page \in [Pages -> Page \cup {None}]
    BY DEF IInv, TypeOK
  <1>2. /\ cookie' = [cookie EXCEPT ![tab[t].browser] = tab[t].renewed]
        /\ \A p \in Pages : page'[p] = Outrun(page[p], tab[t].browser)
    BY DEF Answer
  <1>3. ASSUME NEW p \in Pages, page'[p] # None
        PROVE  /\ page[p] # None /\ page'[p].browser = page[p].browser
               /\ page'[p].token = page[p].token
               /\ page'[p].outrun = (page[p].outrun \/ page[p].browser = tab[t].browser)
    BY <1>1, <1>2, <1>3, OutrunKeeps
  <1>4. Has(b, g)' => Has(b, g) \/ (tab[t].browser = b /\ g = tab[t].renewed)
    BY <1>1, <1>2, <1>3 DEF Has, Carried
  <1>5. Current(b, g)' => IF tab[t].browser = b THEN g = tab[t].renewed ELSE Current(b, g)
    BY <1>1, <1>2, <1>3 DEF Current
  <1>6. QED
    BY <1>4, <1>5

\* Where a new cookie, and what a page carries, comes from.
LEMMA HasFrom ==
    ASSUME IInv, Next, NEW b \in Browsers, NEW g \in Guids
    PROVE  /\ Has(b, g)' => \/ Has(b, g)
                            \/ \E t \in Tabs : Answer(t) /\ tab[t].browser = b /\ g = tab[t].renewed
           /\ Current(b, g)' /\ b \notin troubled' =>
                \/ \E t \in Tabs : Answer(t) /\ tab[t].browser = b /\ g = tab[t].renewed
                \/ Current(b, g) /\ \A t \in Tabs : Answer(t) => tab[t].browser # b
  <1>1. cookie \in [Browsers -> Guids \cup {None}] /\ page \in [Pages -> Page \cup {None}]
    BY DEF IInv, TypeOK
  <1>2. CASE \E t \in Tabs : Answer(t)
    BY <1>2, Answered
  <1> SUFFICES ASSUME ~ \E t \in Tabs : Answer(t)
               PROVE  /\ Has(b, g)' => Has(b, g)
                      /\ Current(b, g)' /\ b \notin troubled' => Current(b, g)
    BY <1>2
  <1>3. CASE \E c \in Browsers : Logout(c)
    BY <1>1, <1>3, GuidsAreNumbers DEF Logout, Has, Carried, Current
  <1>4. ASSUME NEW p \in Pages, Visit(p)
        PROVE  (Has(b, g)' => Has(b, g)) /\ (Current(b, g)' => Current(b, g))
    <2>1. PICK c \in Browsers :
            page' = [page EXCEPT ![p] = [browser |-> c, token |-> cookie[c], outrun |-> FALSE]]
      BY <1>4 DEF Visit
    <2>2. /\ page'[p].browser = c /\ page'[p].token = cookie[c]
          /\ \A q \in Pages \ {p} : page'[q] = page[q]
      BY <1>1, <2>1
    <2>3. QED
      BY <1>4, <2>2 DEF Visit, Has, Carried, Current
  <1>5. ASSUME NEW p \in Pages, Show(p)
        PROVE  (Has(b, g)' => Has(b, g)) /\ (Current(b, g)' => Current(b, g))
    BY <1>1, <1>5 DEF Show, Has, Carried, Current
  <1>6. ASSUME NEW p \in Pages, Reissue(p)
        PROVE  /\ Has(b, g)' => Has(b, g)
               /\ Current(b, g)' /\ b \notin troubled' => Current(b, g)
    <2>1. page[p] # None /\ page[p] \in Page
      BY <1>1, <1>6 DEF Reissue
    <2>2. /\ cookie'[b] = IF page[p].browser = b THEN page[p].token ELSE cookie[b]
          /\ page'[p] = None /\ \A q \in Pages \ {p} : page'[q] = page[q]
          /\ page[p].browser = b /\ page[p].outrun => b \in troubled'
      BY <1>1, <1>6 DEF Reissue
    <2>3. QED
      BY <2>1, <2>2 DEF Has, Carried, Current
  <1>7. CASE UNCHANGED <<cookie, page>>
    BY <1>7 DEF Has, Carried, Current
  <1>8. QED
    BY <1>3, <1>4, <1>5, <1>6, <1>7 DEF Next, Step, Password, Return, Begin, Check, Issue, Get,
       Remove, Store, Info, Publish, Fail, Refuse, Fetch, Expire, ExpireCode, DeleteUser

\* Where a tab has the token from that it renews.
LEMMA RenewsFrom ==
    ASSUME IInv, Next, NEW t \in Tabs, NEW g \in Guids, Renews(t, g)'
    PROVE  \/ Renews(t, g) /\ tab'[t].browser = tab[t].browser
           \/ \E b \in Browsers : tab'[t].browser = b /\ g = cookie[b] /\ UNCHANGED cookie
  <1>1. tab \in [Tabs -> Tab \cup {None}]
    BY DEF IInv, TypeOK
  <1>2. CASE ~Step(t)
    BY <1>2, TabsStay DEF IInv, Renews, At
  <1>3. CASE \E b \in Browsers, u \in Users : Begin(t, b, u, None, "code", "check")
    BY <1>1, <1>3 DEF Begin, Renews, At
  <1>4. CASE \E b \in Browsers, u \in Users : Begin(t, b, u, cookie[b], "renew", "get")
    BY <1>1, <1>4 DEF Begin, Renews, At
  <1>5. CASE Refuse(t) \/ Fail(t) \/ Answer(t)
    BY <1>1, <1>5 DEF Refuse, Fail, Answer, Renews, At
  <1>6. CASE (Check(t) /\ ~Refuse(t)) \/ Issue(t) \/ Publish(t) \/ Remove(t)
    <2>1. tab[t] \in Tab /\ Filled(tab[t])
      BY <1>6 DEF Check, Issue, Publish, Remove, At, IInv, TypeOK
    <2>2. QED
      BY <1>1, <1>6, <2>1 DEF Check, Issue, Publish, Remove, Renews, At, Tab, Filled
  <1>7. CASE Get(t) /\ ~Refuse(t)
    <2>1. tab[t] \in Tab
      BY <1>7 DEF Get, At, IInv, TypeOK
    <2>2. QED
      BY <1>1, <1>7, <2>1 DEF Get, Renews, At, Tab
  <1>8. CASE Store(t)
    <2>1. tab[t] \in Tab
      BY <1>8 DEF Store, At, IInv, TypeOK
    <2>2. QED
      BY <1>1, <1>8, <2>1 DEF Store, Renews, At, Tab
  <1>9. CASE Info(t) /\ ~Refuse(t)
    <2>1. tab[t] \in Tab
      BY <1>9 DEF Info, At, IInv, TypeOK
    <2>2. QED
      BY <1>1, <1>9, <2>1 DEF Info, Renews, At, Tab
  <1>10. QED
    BY <1>2, <1>3, <1>4, <1>5, <1>6, <1>7, <1>8, <1>9 DEF Step, Password, Return

\* A rotated token is in no other cookie, and nobody renews it yet.
LEMMA OneBrowserOK == IInv /\ OneBrowser /\ Next => OneBrowser'
  <1> SUFFICES ASSUME IInv, OneBrowser, Next PROVE OneBrowser'
    OBVIOUS
  <1>1. tab \in [Tabs -> Tab \cup {None}]
    BY DEF IInv, TypeOK
  <1>2. ASSUME NEW t \in Tabs, Answer(t)
        PROVE  /\ tab[t].renewed \in Guids
               /\ \A b \in Browsers : ~Has(b, tab[t].renewed)
               /\ \A u \in Tabs : ~Renews(u, tab[t].renewed)
               /\ \A u \in Tabs : tab'[u] \in {tab[u], None}
    <2>1. tab[t].renewed \in Guids /\ Knows(t, tab[t].renewed)
      BY <1>1, <1>2 DEF Answer, Knows, At, IInv, TypeOK, Tab, Filled
    <2>2. \A b \in Browsers : ~Has(b, tab[t].renewed)
      BY <2>1 DEF IInv, Owned, InCookie
    <2>3. QED
      BY <1>1, <1>2, <2>1, <2>2 DEF Answer, IInv, Owned
  <1>3. ASSUME NEW b \in Browsers, NEW c \in Browsers, NEW g \in Guids, Has(b, g)', Has(c, g)'
        PROVE  b = c
    <2>1. CASE Has(b, g) /\ Has(c, g)
      BY <2>1 DEF OneBrowser
    <2>2. ASSUME NEW t \in Tabs, Answer(t), g = tab[t].renewed
          PROVE  b = c
      <3>1. ~Has(b, g) /\ ~Has(c, g)
        BY <1>2, <2>2
      <3>2. tab[t].browser = b /\ tab[t].browser = c
        BY <1>3, <2>2, <3>1, Answered
      <3>3. QED
        BY <3>2
    <2>3. QED
      BY <1>3, <2>1, <2>2, HasFrom
  <1>4. ASSUME NEW u \in Tabs, NEW b \in Browsers, NEW g \in Guids, Renews(u, g)', Has(b, g)'
        PROVE  tab'[u].browser = b
    <2>1. CASE Has(b, g)
      <3>1. CASE Renews(u, g) /\ tab'[u].browser = tab[u].browser
        BY <2>1, <3>1 DEF OneBrowser
      <3>2. ASSUME NEW c \in Browsers, tab'[u].browser = c, g = cookie[c]
            PROVE  tab'[u].browser = b
        BY <2>1, <3>2 DEF OneBrowser, Has
      <3>3. QED
        BY <1>4, <3>1, <3>2, RenewsFrom
    <2>2. ASSUME NEW t \in Tabs, Answer(t), g = tab[t].renewed
          PROVE  FALSE
      <3>1. ~Renews(u, g)
        BY <1>2, <2>2
      <3>2. Renews(u, g)
        BY <1>2, <1>4, <2>2 DEF Renews, At
      <3>3. QED
        BY <3>1, <3>2
    <2>3. QED
      BY <1>4, <2>1, <2>2, HasFrom
  <1>5. QED
    BY <1>3, <1>4 DEF OneBrowser

\* Past the first Get: this tab comes back with a cookie, if nothing fails.
Committed(t, b) ==
    /\ tab[t] # None /\ tab[t].browser = b
    /\ \/ tab[t].pc \in {"remove", "store", "info", "publish", "answer"}
       \/ tab[t].pc = "get" /\ tab[t].grant = "rotate"

\* The token in the cache that a committed tab counts on.
Held(t, g) ==
    \/ At(t, "info") /\ g = tab[t].result.refresh
    \/ At(t, "get") /\ tab[t].grant = "rotate" /\ g = tab[t].key
    \/ (At(t, "publish") \/ At(t, "answer")) /\ g = tab[t].renewed

Calm(b) == b \notin troubled =>
    /\ \A u \in Users : account[u] # "deleted"
    /\ \A t \in Tabs, g \in Guids : Held(t, g) /\ tab[t].browser = b => cache[g] # None
    /\ \A g \in Guids : Current(b, g) => cache[g] # None \/ \E t \in Tabs : Committed(t, b)

AllCalm == \A b \in Browsers : Calm(b)

\* How a token gets out of the cache.
LEMMA Lost ==
    ASSUME IInv, Next, NEW g \in Guids, cache[g] # None, cache'[g] = None
    PROVE  \/ \E u \in Tabs : Remove(u) /\ g = tab[u].key
           \/ Expire(g)
  <1>1. cache \in [Guids -> Auth \cup {None}]
    BY DEF IInv, TypeOK
  <1>2. CASE \E t \in Tabs : Issue(t)
    <2>1. PICK t \in Tabs : Issue(t)
      BY <1>2
    <2>2. cache'[g] = cache[g] \/ cache'[g] = [user |-> tab[t].user, refresh |-> Fresh]
      BY <1>1, <2>1 DEF Issue
    <2>3. issued + 1 \in Guids /\ tab[t].user \in Users
      BY <2>1, LoginAssumption DEF Issue, Make, At, IInv, TypeOK, Tab, Guids
    <2>4. [user |-> tab[t].user, refresh |-> Fresh] \in Auth
      BY <2>3 DEF Auth, Fresh
    <2>5. QED
      BY <2>2, <2>4, NoneAssumption
  <1>3. CASE \E t \in Tabs : Store(t)
    <2>1. PICK t \in Tabs : Store(t)
      BY <1>3
    <2>2. tab[t].got \in Auth
      BY <2>1 DEF Store, At, IInv, TypeOK, Tab, Filled
    <2>3. QED
      BY <1>1, <2>1, <2>2, NoneAssumption DEF Store
  <1>4. CASE \E t \in Tabs : Remove(t)
    BY <1>1, <1>4 DEF Remove
  <1>5. CASE \E h \in Guids : Expire(h)
    BY <1>1, <1>5 DEF Expire
  <1>6. CASE UNCHANGED cache
    BY <1>6
  <1>7. QED
    BY <1>2, <1>3, <1>4, <1>5, <1>6 DEF Next, Step, Password, Return, Begin, Check, Get,
       Info, Publish, Answer, Fail, Refuse, Fetch, ExpireCode, Logout,
       Visit, Show, Reissue, DeleteUser

\* What a tab that does not move holds stays in the cache.
LEMMA HeldStays ==
    ASSUME IInv, Next, NEW t \in Tabs, ~Step(t), NEW g \in Guids, Held(t, g),
           tab[t].browser \notin troubled', cache[g] # None
    PROVE  cache'[g] # None
  <1> SUFFICES ASSUME cache'[g] = None PROVE FALSE
    OBVIOUS
  <1>1. Knows(t, g)
    BY DEF Held, Knows
  <1>2. ASSUME NEW u \in Tabs, Remove(u), g = tab[u].key
        PROVE  FALSE
    <2>1. Knows(u, g) \/ Renews(u, g)
      BY <1>2 DEF Remove, Knows, Renews
    <2>2. u # t
      BY <1>2 DEF Step
    <2>3. QED
      BY <1>1, <2>1, <2>2 DEF IInv, Owned
  <1>3. CASE Expire(g)
    <2>1. tab[t] # None /\ tab[t].browser \in Browsers
      BY DEF Held, At, IInv, TypeOK, Tab
    <2>2. tab[t].browser \in troubled'
      BY <1>3, <2>1 DEF Expire, Running
    <2>3. QED
      BY <2>2
  <1>4. QED
    BY <1>2, <1>3, Lost

\* A request does not change its browser.
LEMMA BrowserStays ==
    ASSUME IInv, NEW t \in Tabs, Step(t), tab[t] # None, tab'[t] # None
    PROVE  tab'[t].browser = tab[t].browser
  <1>1. tab \in [Tabs -> Tab \cup {None}] /\ tab[t] \in Tab
    BY DEF IInv, TypeOK
  <1>2. ~Refuse(t) /\ ~Fail(t) /\ ~Answer(t) /\ ~Password(t) /\ ~Return(t)
    BY <1>1 DEF Refuse, Fail, Answer, Password, Return, Begin
  <1>3. Check(t) \/ Issue(t) \/ Get(t) \/ Remove(t) \/ Store(t) \/ Info(t) \/ Publish(t)
    BY <1>2 DEF Step
  <1>4. CASE Check(t) \/ Issue(t) \/ Remove(t) \/ Info(t) \/ Publish(t)
    BY <1>1, <1>2, <1>4 DEF Check, Issue, Remove, Info, Publish, Tab
  <1>5. CASE Get(t)
    BY <1>1, <1>2, <1>5 DEF Get, Tab
  <1>6. CASE Store(t)
    BY <1>1, <1>6 DEF Store, Tab
  <1>7. QED
    BY <1>3, <1>4, <1>5, <1>6

\* A committed tab moves on with a token that is in the cache, and is not refused.
LEMMA HeldGoes ==
    ASSUME IInv, NEW t \in Tabs, Step(t), tab[t] # None,
           NEW b, b = tab[t].browser, b \notin troubled',
           \A u \in Users : account[u] # "deleted",
           \A g \in Guids : Held(t, g) => cache[g] # None
    PROVE  /\ \A g \in Guids : Held(t, g)' => cache'[g] # None
           /\ Committed(t, b) => Committed(t, b)' \/ Answer(t)
  <1>1. /\ tab \in [Tabs -> Tab \cup {None}] /\ tab[t] \in Tab /\ Filled(tab[t])
        /\ cache \in [Guids -> Auth \cup {None}]
        /\ \A x \in Tab : x # None
    BY NoneAssumption DEF IInv, TypeOK
  <1>2. CASE Check(t)
    <2>1. ~Committed(t, b)
      BY <1>1, <1>2 DEF Check, Committed, At
    <2>2. \A g \in Guids : ~Held(t, g)'
      BY <1>1, <1>2 DEF Check, Refuse, Held, At, Tab
    <2>3. QED
      BY <2>1, <2>2
  <1>3. CASE Issue(t)
    <2>1. ~Committed(t, b) /\ tab[t].grant = "code"
      BY <1>1, <1>3 DEF Issue, Committed, At, Filled
    <2>2. \A g \in Guids : ~Held(t, g)'
      BY <1>1, <1>3, <2>1 DEF Issue, Held, At, Tab
    <2>3. QED
      BY <2>1, <2>2
  <1>4. CASE Get(t)
    <2>1. \/ Refuse(t) /\ cache[tab[t].key] = None
          \/ tab'[t] # None /\ tab'[t].browser = tab[t].browser /\ tab'[t].pc = "remove"
      <3>1. tab[t].key \in Guids
        BY <1>1, <1>4 DEF Get, At, Filled, Tab
      <3>2. CASE cache[tab[t].key] = None
        BY <1>4, <3>2 DEF Get
      <3>3. ASSUME NEW x \in Auth, tab' = [tab EXCEPT ![t].got = x, ![t].pc = "remove"]
            PROVE  tab'[t] # None /\ tab'[t].browser = tab[t].browser /\ tab'[t].pc = "remove"
        <4> DEFINE y == [tab[t] EXCEPT !.got = x, !.pc = "remove"]
        <4>1. y \in Tab /\ y.browser = tab[t].browser /\ y.pc = "remove"
          BY <1>1 DEF Tab
        <4>2. tab'[t] = y
          BY <1>1, <3>3
        <4> HIDE DEF y
        <4>3. QED
          BY <1>1, <4>1, <4>2
      <3>4. CASE cache[tab[t].key] # None
        <4>1. cache[tab[t].key] \in Auth
          BY <1>1, <3>1, <3>4
        <4>2. issued + 1 <= MaxGuids => [user |-> cache[tab[t].key].user, refresh |-> Fresh] \in Auth
          BY <4>1, LoginAssumption DEF Auth, Fresh, Guids, IInv, TypeOK
        <4>3. \E x \in Auth : tab' = [tab EXCEPT ![t].got = x, ![t].pc = "remove"]
          BY <1>4, <3>4, <4>1, <4>2 DEF Get, Make
        <4>4. QED
          BY <3>3, <4>3
      <3>5. QED
        BY <3>2, <3>4
    <2>2. Committed(t, b) => tab'[t] # None
      <3>1. ASSUME tab[t].grant = "rotate" PROVE cache[tab[t].key] # None
        <4>1. tab[t].key \in Guids /\ Held(t, tab[t].key)
          BY <1>1, <1>4, <3>1 DEF Get, At, Filled, Tab, Held
        <4>2. QED
          BY <4>1
      <3>2. QED
        BY <1>4, <3>1, <2>1 DEF Get, At, Committed
    <2>3. \A g \in Guids : ~Held(t, g)'
      BY <1>1, <1>4 DEF Get, Refuse, Held, At, Tab
    <2>4. Refuse(t) => tab'[t] = None
      BY <1>1 DEF Refuse
    <2>5. QED
      BY <2>1, <2>2, <2>3, <2>4 DEF Committed
  <1>5. CASE Remove(t)
    <2>1. /\ [tab[t] EXCEPT !.pc = "store"] \in Tab
          /\ tab'[t] = [tab[t] EXCEPT !.pc = "store"]
      BY <1>1, <1>5 DEF Remove, Tab
    <2>2. tab'[t] # None /\ tab'[t].browser = tab[t].browser /\ tab'[t].pc = "store"
      BY <1>1, <2>1 DEF Tab
    <2>3. QED
      BY <2>2 DEF Held, At, Committed
  <1>6. CASE Store(t)
    <2>1. tab[t].got \in Auth /\ tab[t].got.refresh \in Guids
      BY <1>1, <1>6 DEF Store, At, Filled, Tab, Auth
    <2>2. /\ tab'[t].browser = tab[t].browser
          /\ \/ tab'[t].pc = "publish" /\ tab'[t].renewed = tab[t].got.refresh
             \/ tab'[t].pc = "info" /\ tab'[t].result = tab[t].got
          /\ cache'[tab[t].got.refresh] = tab[t].got
      BY <1>1, <1>6, <2>1 DEF Store, Tab
    <2>3. tab'[t] # None
      <3>1. CASE tab[t].grant = "rotate"
        <4>1. [tab[t] EXCEPT !.renewed = tab[t].got.refresh, !.pc = "publish"] \in Tab
          BY <1>1, <2>1 DEF Tab
        <4>2. QED
          BY <1>1, <1>6, <3>1, <4>1 DEF Store
      <3>2. CASE tab[t].grant # "rotate"
        <4>1. [tab[t] EXCEPT !.result = tab[t].got, !.pc = "info"] \in Tab
          BY <1>1, <2>1 DEF Tab
        <4>2. QED
          BY <1>1, <1>6, <3>2, <4>1 DEF Store
      <3>3. QED
        BY <3>1, <3>2
    <2>4. QED
      BY <2>1, <2>2, <2>3, NoneAssumption DEF Held, At, Committed
  <1>7. CASE Info(t)
    <2>1. tab[t].result \in Auth /\ tab[t].result.user \in Users /\ tab[t].result.refresh \in Guids
      BY <1>1, <1>7 DEF Info, At, Filled, Tab, Auth
    <2>2. UNCHANGED cache /\ tab' = [tab EXCEPT ![t].key = tab[t].result.refresh,
                                                ![t].grant = "rotate", ![t].pc = "get"]
      BY <1>7, <2>1 DEF Info
    <2>3. /\ tab'[t].browser = tab[t].browser /\ tab'[t].pc = "get" /\ tab'[t].grant = "rotate"
          /\ tab'[t].key = tab[t].result.refresh
      BY <1>1, <2>2 DEF Tab
    <2>4. tab'[t] # None
      <3>1. [tab[t] EXCEPT !.key = tab[t].result.refresh, !.grant = "rotate", !.pc = "get"] \in Tab
        BY <1>1, <2>1 DEF Tab
      <3>2. QED
        BY <1>1, <2>2, <3>1
    <2>5. Held(t, tab[t].result.refresh)
      BY <1>7 DEF Info, Held
    <2>6. QED
      BY <2>1, <2>2, <2>3, <2>4, <2>5 DEF Held, At, Committed
  <1>8. CASE Publish(t)
    <2>1. /\ [tab[t] EXCEPT !.pc = "answer"] \in Tab
          /\ tab'[t] = [tab[t] EXCEPT !.pc = "answer"]
      BY <1>1, <1>8 DEF Publish, Tab
    <2>2. /\ tab'[t] # None /\ tab'[t].browser = tab[t].browser /\ tab'[t].pc = "answer"
          /\ tab'[t].renewed = tab[t].renewed /\ UNCHANGED cache /\ tab[t].pc = "publish"
      BY <1>1, <1>8, <2>1 DEF Tab, Publish, At
    <2>3. QED
      BY <2>2 DEF Held, At, Committed
  <1>9. CASE Answer(t)
    BY <1>1, <1>9 DEF Answer, Held, At
  <1>10. CASE Fail(t)
    BY <1>10 DEF Fail
  <1>11. ~Password(t) /\ ~Return(t)
    BY DEF Password, Return, Begin
  <1>12. QED
    BY <1>2, <1>3, <1>4, <1>5, <1>6, <1>7, <1>8, <1>9, <1>10, <1>11 DEF Step

\* Trouble is not forgotten, and a deletion troubles every browser.
LEMMA TroubleStays ==
    ASSUME IInv, Next, NEW b \in Browsers, b \notin troubled'
    PROVE  b \notin troubled /\ account' = account
  <1>1. troubled \subseteq Browsers
    BY DEF IInv, TypeOK
  <1>2. ~ \E u \in Users : DeleteUser(u)
    BY DEF DeleteUser
  <1>3. QED
    BY <1>1, <1>2 DEF Next, Step, Password, Return, Begin, Check, Issue, Get, Remove,
       Store, Info, Publish, Answer, Fail, Refuse, Fetch, Expire, ExpireCode, Logout,
       Visit, Show, Reissue

\* A sign-in that begins holds nothing.
LEMMA BeginHolds ==
    ASSUME IInv, NEW t \in Tabs, Step(t), tab[t] = None, NEW g \in Guids
    PROVE  ~Held(t, g)'
  <1>1. tab \in [Tabs -> Tab \cup {None}]
    BY DEF IInv, TypeOK
  <1>2. Password(t) \/ Return(t) \/ Refuse(t)
    BY DEF Step, Check, Issue, Get, Remove, Store, Info, Publish, Answer, Fail, At
  <1>3. ASSUME NEW b, NEW u, NEW key, NEW grant, NEW pc, grant # "rotate",
               pc \in {"check", "get"}, Begin(t, b, u, key, grant, pc)
        PROVE  ~Held(t, g)'
    BY <1>1, <1>3 DEF Begin, Held, At
  <1>4. CASE Refuse(t)
    BY <1>1, <1>4 DEF Refuse, Held, At
  <1>5. QED
    BY <1>2, <1>3, <1>4 DEF Password, Return

\* A token is redeemed only by a tab that comes back with another.
LEMMA CalmOK == IInv /\ OneBrowser /\ AllCalm /\ Next => AllCalm'
  <1> SUFFICES ASSUME IInv, OneBrowser, AllCalm, Next,
                      NEW b \in Browsers, b \notin troubled'
               PROVE  Calm(b)'
    BY DEF AllCalm, Calm
  <1>1. b \notin troubled /\ account' = account
    BY TroubleStays
  <1>2. /\ \A u \in Users : account[u] # "deleted"
        /\ \A t \in Tabs, g \in Guids : Held(t, g) /\ tab[t].browser = b => cache[g] # None
        /\ \A g \in Guids : Current(b, g) => cache[g] # None \/ \E t \in Tabs : Committed(t, b)
    BY <1>1 DEF AllCalm, Calm
  <1>3. cookie \in [Browsers -> Guids \cup {None}] /\ page \in [Pages -> Page \cup {None}]
    BY DEF IInv, TypeOK
  <1>4. ASSUME NEW t \in Tabs, NEW g \in Guids, Held(t, g)', tab'[t].browser = b
        PROVE  cache'[g] # None
    <2>1. CASE ~Step(t)
      <3>1. tab'[t] = tab[t]
        BY <2>1, TabsStay DEF IInv
      <3>2. Held(t, g) /\ tab[t].browser = b
        BY <1>4, <3>1 DEF Held, At
      <3>3. QED
        BY <1>2, <2>1, <3>2, HeldStays
    <2>2. CASE Step(t) /\ tab[t] = None
      BY <1>4, <2>2, BeginHolds
    <2>3. CASE Step(t) /\ tab[t] # None
      <3>1. tab'[t] # None
        BY <1>4 DEF Held, At
      <3>2. CASE tab[t].browser = b
        BY <1>2, <1>4, <2>3, <3>2, HeldGoes
      <3>3. CASE tab[t].browser # b
        BY <1>4, <2>3, <3>1, <3>3, BrowserStays
      <3>4. QED
        BY <3>2, <3>3
    <2>4. QED
      BY <2>1, <2>2, <2>3
  <1>5. ASSUME NEW g \in Guids, Current(b, g)'
        PROVE  cache'[g] # None \/ \E t \in Tabs : Committed(t, b)'
    <2>1. ASSUME NEW t \in Tabs, Answer(t), tab[t].browser = b
          PROVE  cache'[g] # None
      <3>1. g = tab[t].renewed
        BY <1>5, <2>1, Answered
      <3>2. Held(t, g) /\ cache' = cache
        BY <2>1, <3>1 DEF Answer, Held
      <3>3. QED
        BY <1>2, <2>1, <3>2
    <2>2. CASE Current(b, g) /\ \E t \in Tabs : Committed(t, b)
      <3>1. PICK t \in Tabs : Committed(t, b)
        BY <2>2
      <3>2. CASE Step(t)
        <4>1. tab[t] # None /\ tab[t].browser = b
          BY <3>1 DEF Committed
        <4>2. Committed(t, b)' \/ Answer(t)
          BY <1>2, <3>1, <3>2, <4>1, HeldGoes DEF Committed
        <4>3. QED
          BY <2>1, <4>1, <4>2
      <3>3. CASE ~Step(t)
        BY <3>1, <3>3, TabsStay DEF IInv, Committed
      <3>4. QED
        BY <3>2, <3>3
    <2>3. CASE Current(b, g) /\ cache[g] # None
      <3> SUFFICES ASSUME cache'[g] = None
                   PROVE  \E t \in Tabs : Committed(t, b)'
        OBVIOUS
      <3>1. Has(b, g)
        BY <2>3 DEF Current, Has, Carried
      <3>2. ASSUME NEW u \in Tabs, Remove(u), g = tab[u].key
            PROVE  Committed(u, b)'
        <4>1. tab[u] \in Tab /\ tab \in [Tabs -> Tab \cup {None}]
          BY <3>2 DEF Remove, At, IInv, TypeOK
        <4>2. ~Knows(u, g)
          BY <3>1 DEF IInv, Owned, InCookie
        <4>3. Renews(u, g)
          BY <3>2, <4>2 DEF Remove, Knows, Renews
        <4>4. tab[u].browser = b
          BY <3>1, <4>3 DEF OneBrowser
        <4> DEFINE y == [tab[u] EXCEPT !.pc = "store"]
        <4>5. y \in Tab /\ y.browser = b /\ y.pc = "store"
          BY <4>1, <4>4 DEF Tab
        <4>6. tab'[u] = y
          BY <3>2, <4>1 DEF Remove
        <4> HIDE DEF y
        <4>7. QED
          BY <4>5, <4>6, NoneAssumption DEF Committed
      <3>3. ~Expire(g)
        BY <3>1 DEF Expire, Has
      <3>4. QED
        BY <2>3, <3>2, <3>3, Lost
    <2>4. QED
      BY <1>2, <1>5, <2>1, <2>2, <2>3, HasFrom
  <1>6. QED
    BY <1>1, <1>2, <1>4, <1>5 DEF Calm

\* Tabs of one browser that race for its cookie do not sign it out: each that has
\* redeemed a token comes back with another, and the cookie it leaves is live.
THEOREM RacesKeepTheCookie == Spec => []CookieOutlivesRaces
  <1>1. Init => OneBrowser /\ AllCalm
    BY GuidsAreNumbers
       DEF Init, OneBrowser, Renews, Has, Carried, Current, At, AllCalm, Calm, Held
  <1>2. IInv /\ OneBrowser /\ AllCalm /\ [Next]_vars => OneBrowser' /\ AllCalm'
    <2> SUFFICES ASSUME IInv, OneBrowser, AllCalm, [Next]_vars PROVE OneBrowser' /\ AllCalm'
      OBVIOUS
    <2>1. CASE Next
      BY <2>1, OneBrowserOK, CalmOK
    <2>2. CASE UNCHANGED vars
      <3>1. OneBrowser'
        BY <2>2 DEF vars, OneBrowser, Renews, Has, Carried, At
      <3>2. AllCalm'
        BY <2>2 DEF vars, AllCalm, Calm, Current, Held, Committed, At
      <3>3. QED
        BY <3>1, <3>2
    <2>3. QED
      BY <2>1, <2>2
  <1>3. IInv /\ AllCalm => CookieOutlivesRaces
    BY DEF AllCalm, Calm, Current, Committed, CookieOutlivesRaces, Running, IInv, TypeOK
  <1>4. QED
    BY <1>1, <1>2, <1>3, Invariance, PTL DEF Spec
=============================================================================
