----------------------- MODULE ScrollPaginationProofs -----------------------
(* Proofs about ScrollPagination, for every set of visits, frames and filters, *)
(* every length of the lists and every number of edits.                    *)
EXTENDS ScrollPagination, TLAPS

\* One page is open, and only an open page is registered.
OneOpen ==
    /\ \A p, q \in Pages : life[p] = "open" /\ life[q] = "open" => p = q
    /\ \A p \in Pages : script[p] = "registered" => life[p] = "open"

\* A page that was never opened has asked for nothing.
NewOK ==
    \A p \in Pages : life[p] = "new" =>
        shown[p] = <<>> /\ hasMore[p] /\ ~isLoading[p] /\ categories[p] = "none"

Waits(f, p) == frame[f] # None /\ frame[f].at = "waiting" /\ frame[f].page = p

\* A load holds isLoading of its page, and the frame that waits for it.
CallsOK ==
    \A k \in calls :
        /\ isLoading[k.page]
        /\ k.by \in Frames => Waits(k.by, k.page)

\* The throttle is held by a frame of the registered page or one that will find it.
TickOK ==
    isTicking => /\ dotNetReference # None
                 /\ \/ lost[dotNetReference]
                    \/ \E f \in Frames : /\ frame[f] # None
                                         /\ frame[f].page \in {None, dotNetReference}

\* The next page that is loaded, or will be, continues the list.
ListOK ==
    \A p \in Pages : ~mixed[p] =>
        /\ \A i \in 1 .. Len(shown[p]) : shown[p][i] = <<filter[p], i - 1>>
        /\ ~hasMore[p] => Len(shown[p]) = FullPages[filter[p]] + 1
        /\ hasMore[p] => Len(shown[p]) <= FullPages[filter[p]]
        /\ \A k \in calls : k.page = p => /\ hasMore[p]
                                          /\ k.index = Len(shown[p]) /\ k.filter = filter[p]

IInv ==
    /\ TypeOK /\ ReferenceIsAlive /\ OneLoadAtATime
    /\ OneOpen /\ NewOK /\ CallsOK /\ TickOK /\ ListOK

-----------------------------------------------------------------------------
LEMMA InitOK == Init => IInv
  <1> USE FilterAssumption, EditsAssumption DEF Init
  <1>1. Init => TypeOK
    <2>1. Init => /\ dotNetReference \in Pages \cup {None} /\ isTicking \in BOOLEAN
                  /\ frame \in [Frames -> Frame \cup {None}]
      <3>1. \A S : None \in S => [f \in Frames |-> None] \in [Frames -> S]
        OBVIOUS
      <3>2. QED
        BY <3>1
    <2>2. Init => /\ life \in [Pages -> {"new", "open", "closed"}]
                  /\ categories \in [Pages -> {"none", "asked"}]
                  /\ script \in [Pages -> {"none", "importing", "registered"}]
      OBVIOUS
    <2>3. Init => filter \in [Pages -> Filters] /\ shown \in [Pages -> Seq(Filters \X Nat)]
      OBVIOUS
    <2>4. Init => /\ hasMore \in [Pages -> BOOLEAN] /\ isLoading \in [Pages -> BOOLEAN]
                  /\ mixed \in [Pages -> BOOLEAN] /\ lost \in [Pages -> BOOLEAN]
                  /\ calls \in SUBSET Call /\ edits \in 0 .. MaxEdits
      OBVIOUS
    <2>5. QED
      BY <2>1, <2>2, <2>3, <2>4 DEF TypeOK
  <1>2. Init => ReferenceIsAlive /\ OneLoadAtATime /\ OneOpen /\ NewOK /\ CallsOK /\ TickOK
    BY NoneAssumption DEF ReferenceIsAlive, OneLoadAtATime, OneOpen, NewOK, CallsOK, TickOK
  <1>3. Init => ListOK
    BY DEF ListOK
  <1>4. QED
    BY <1>1, <1>2, <1>3 DEF IInv

\* The fields of a request under way.
LEMMA CallTyped ==
    ASSUME TypeOK, NEW k \in calls
    PROVE  k.page \in Pages /\ k.by \in Callers /\ k.index \in Nat /\ k.filter \in Filters
  BY DEF TypeOK, Call

-----------------------------------------------------------------------------
(* Requests                                                                *)

\* A call that goes out continues the list of its page.
LEMMA LoadStep ==
    ASSUME IInv, NEW p \in Pages, NEW by \in Callers, LoadNextPage(p, by),
           UNCHANGED <<shown, hasMore, filter, mixed>>,
           by \in Frames /\ ~Refuses(p) => frame' = [frame EXCEPT ![by] = [at |-> "waiting", page |-> p]],
           by \in Frames => frame[by] = None \/ frame[by].at = "scheduled",
           \A f \in Frames \ {by} : frame'[f] = frame[f]
    PROVE  /\ isLoading' \in [Pages -> BOOLEAN] /\ calls' \in SUBSET Call
           /\ OneLoadAtATime' /\ CallsOK' /\ ListOK'
           /\ \A q \in Pages \ {p} : isLoading'[q] = isLoading[q]
  <1>0. TypeOK /\ OneLoadAtATime /\ CallsOK /\ ListOK
    BY DEF IInv
  <1>1. CASE Refuses(p)
    <2>1. UNCHANGED <<isLoading, calls>>
      BY <1>1 DEF LoadNextPage
    <2>2. \A k \in calls : k.by \in Frames => frame'[k.by] = frame[k.by]
      BY <1>0 DEF CallsOK, Waits
    <2>3. CallsOK'
      BY <1>0, <2>1, <2>2 DEF CallsOK, Waits
    <2>4. QED
      BY <1>0, <2>1, <2>3 DEF TypeOK, OneLoadAtATime, ListOK
  <1>2. CASE ~Refuses(p)
    <2> DEFINE new == [page |-> p, by |-> by, index |-> Len(shown[p]), filter |-> filter[p]]
    <2>1. /\ isLoading' = [isLoading EXCEPT ![p] = TRUE]
          /\ calls' = calls \cup {new}
          /\ ~isLoading[p] /\ hasMore[p]
      BY <1>0, <1>2 DEF LoadNextPage, Refuses, TypeOK
    <2>2. new \in Call
      BY <1>0 DEF TypeOK, Call
    <2>3. \A k \in calls : k.page # p /\ k.page \in Pages
      BY <1>0, <2>1, CallTyped DEF CallsOK
    <2>4. OneLoadAtATime'
      BY <1>0, <2>1, <2>3 DEF OneLoadAtATime
    <2>5. \A k \in calls : k.by \in Frames => frame'[k.by] = frame[k.by]
      BY <1>0 DEF CallsOK, Waits
    <2>6. by \in Frames => Waits(by, p)'
      <3>1. by \in Frames => frame'[by] = [at |-> "waiting", page |-> p]
        BY <1>0, <1>2 DEF TypeOK
      <3>2. [at |-> "waiting", page |-> p] \in Frame
        BY DEF Frame
      <3>3. QED
        BY <3>1, <3>2, NoneAssumption DEF Waits
    <2>7. CallsOK'
      <3>1. ASSUME NEW k \in calls'
            PROVE  isLoading'[k.page] /\ (k.by \in Frames => Waits(k.by, k.page)')
        <4>1. CASE k \in calls
          BY <1>0, <2>1, <2>3, <2>5, <4>1 DEF CallsOK, TypeOK, Waits
        <4>2. CASE k = new
          BY <1>0, <2>1, <2>6, <4>2 DEF TypeOK
        <4>3. QED
          BY <2>1, <4>1, <4>2
      <3>2. QED
        BY <3>1 DEF CallsOK
    <2>8. ListOK'
      BY <1>0, <2>1, <2>3 DEF ListOK, TypeOK
    <2>9. QED
      BY <1>0, <2>1, <2>2, <2>4, <2>7, <2>8 DEF TypeOK
  <1>3. QED
    BY <1>1, <1>2

\* The products of a page arrive.
LEMMA ArriveStep == ASSUME IInv, NEW k \in calls, Arrive(k) PROVE IInv'
  <1> DEFINE p == k.page
  <1>0. TypeOK /\ ReferenceIsAlive /\ OneLoadAtATime /\ OneOpen /\ NewOK /\ CallsOK /\ TickOK /\ ListOK
    BY DEF IInv
  <1>1. /\ k \in Call /\ p \in Pages /\ k.index \in Nat /\ k.filter \in Filters
        /\ FullPages[k.filter] \in Nat
    BY <1>0, FilterAssumption, CallTyped DEF TypeOK
  <1>2. /\ calls' = calls \ {k}
        /\ shown' = [shown EXCEPT ![p] = Append(@, <<k.filter, k.index>>)]
        /\ hasMore' = [hasMore EXCEPT ![p] = k.index < FullPages[k.filter]]
        /\ isLoading' = [isLoading EXCEPT ![p] = FALSE]
        /\ UNCHANGED <<dotNetReference, isTicking, life, categories, script, filter, edits,
                       mixed, lost>>
    BY DEF Arrive
  <1>3. /\ k.by \in Frames => frame' = [frame EXCEPT ![k.by] = [at |-> "answered", page |-> p]]
        /\ k.by \notin Frames => frame' = frame
    BY DEF Arrive, Settle
  <1>4. \A l \in calls' : l \in calls /\ l.page # p /\ l \in Call
    BY <1>0, <1>2 DEF OneLoadAtATime, TypeOK
  <1>5. TypeOK'
    <2>1. frame' \in [Frames -> Frame \cup {None}]
      <3>1. [at |-> "answered", page |-> p] \in Frame
        BY <1>1 DEF Frame
      <3>2. QED
        BY <1>0, <1>3, <3>1 DEF TypeOK
    <2>2. shown' \in [Pages -> Seq(Filters \X Nat)]
      BY <1>0, <1>1, <1>2 DEF TypeOK
    <2>3. hasMore' \in [Pages -> BOOLEAN] /\ isLoading' \in [Pages -> BOOLEAN]
      BY <1>0, <1>1, <1>2 DEF TypeOK
    <2>4. QED
      BY <1>0, <1>2, <2>1, <2>2, <2>3 DEF TypeOK
  <1>6. ReferenceIsAlive' /\ OneOpen' /\ NewOK'
    <2>1. isLoading[p]
      BY <1>0 DEF CallsOK
    <2>2. \A q \in Pages \ {p} : shown'[q] = shown[q] /\ hasMore'[q] = hasMore[q]
                                 /\ isLoading'[q] = isLoading[q]
      BY <1>0, <1>2 DEF TypeOK
    <2>3. QED
      BY <1>0, <1>2, <2>1, <2>2 DEF ReferenceIsAlive, OneOpen, NewOK
  <1>7. OneLoadAtATime'
    BY <1>0, <1>4 DEF OneLoadAtATime
  <1>8. CallsOK'
    <2>1. ASSUME NEW l \in calls' PROVE isLoading'[l.page]
      BY <1>0, <1>2, <1>4, CallTyped DEF CallsOK, TypeOK
    <2>2. ASSUME NEW l \in calls', l.by \in Frames
          PROVE  Waits(l.by, l.page)'
      <3>1. Waits(l.by, l.page) /\ l.page # p
        BY <1>0, <1>4, <2>2 DEF CallsOK
      <3>2. k.by \in Frames => Waits(k.by, p)
        BY <1>0 DEF CallsOK
      <3>3. l.by # k.by
        BY <2>2, <3>1, <3>2 DEF Waits
      <3>4. QED
        BY <1>0, <1>3, <2>2, <3>1, <3>3 DEF TypeOK, Waits
    <2>3. QED
      BY <2>1, <2>2 DEF CallsOK
  <1>9. TickOK'
    <2>1. \A f \in Frames : frame[f] # None => frame'[f] # None /\ frame'[f].page = frame[f].page
      <3>1. CASE k.by \in Frames
        <4>1. Waits(k.by, p)
          BY <1>0, <3>1 DEF CallsOK
        <4>2. [at |-> "answered", page |-> p] \in Frame
          BY <1>1 DEF Frame
        <4>3. frame'[k.by] = [at |-> "answered", page |-> p] /\ frame'[k.by] # None
          BY <1>0, <1>3, <3>1, <4>2, NoneAssumption DEF TypeOK
        <4>4. \A f \in Frames \ {k.by} : frame'[f] = frame[f]
          BY <1>0, <1>3, <3>1 DEF TypeOK
        <4>5. QED
          BY <4>1, <4>3, <4>4 DEF Waits
      <3>2. CASE k.by \notin Frames
        BY <1>3, <3>2
      <3>3. QED
        BY <3>1, <3>2
    <2>2. QED
      BY <1>0, <1>2, <2>1 DEF TickOK
  <1>10. ListOK'
    <2>1. ASSUME NEW q \in Pages, q # p
          PROVE  shown'[q] = shown[q] /\ hasMore'[q] = hasMore[q]
      BY <1>0, <1>2, <2>1 DEF TypeOK
    <2>2. shown'[p] = Append(shown[p], <<k.filter, k.index>>)
          /\ hasMore'[p] = (k.index < FullPages[k.filter])
      BY <1>0, <1>1, <1>2 DEF TypeOK
    <2>3. ASSUME ~mixed[p]
          PROVE  /\ \A i \in 1 .. Len(shown'[p]) : shown'[p][i] = <<filter[p], i - 1>>
                 /\ ~hasMore'[p] => Len(shown'[p]) = FullPages[filter[p]] + 1
                 /\ hasMore'[p] => Len(shown'[p]) <= FullPages[filter[p]]
      <3>1. k.index = Len(shown[p]) /\ k.filter = filter[p] /\ Len(shown[p]) <= FullPages[filter[p]]
        BY <1>0, <1>1, <2>3 DEF ListOK
      <3>2. shown[p] \in Seq(Filters \X Nat) /\ Len(shown'[p]) = Len(shown[p]) + 1
            /\ Len(shown[p]) \in Nat
        BY <1>0, <1>1, <2>2 DEF TypeOK
      <3>3. ASSUME NEW i \in 1 .. Len(shown'[p]) PROVE shown'[p][i] = <<filter[p], i - 1>>
        <4>1. CASE i = Len(shown[p]) + 1
          BY <2>2, <3>1, <3>2, <4>1
        <4>2. CASE i # Len(shown[p]) + 1
          <5>1. i \in 1 .. Len(shown[p]) /\ shown'[p][i] = shown[p][i]
            BY <2>2, <3>2, <3>3, <4>2
          <5>2. QED
            BY <1>0, <1>1, <2>3, <5>1 DEF ListOK
        <4>3. QED
          BY <4>1, <4>2
      <3>4. /\ ~hasMore'[p] => Len(shown'[p]) = FullPages[filter[p]] + 1
            /\ hasMore'[p] => Len(shown'[p]) <= FullPages[filter[p]]
        <4>1. FullPages[filter[p]] \in Nat
          BY <1>1, <3>1
        <4>2. hasMore'[p] <=> Len(shown[p]) < FullPages[filter[p]]
          BY <2>2, <3>1, Zenon
        <4>3. QED
          BY <3>1, <3>2, <4>1, <4>2
      <3>5. QED
        BY <3>3, <3>4
    <2>4. QED
      BY <1>0, <1>2, <1>4, <2>1, <2>3 DEF ListOK
  <1>11. QED
    BY <1>5, <1>6, <1>7, <1>8, <1>9, <1>10 DEF IInv

\* A request fails: its frame goes, its page keeps isLoading and is lost.
LEMMA FailStep == ASSUME IInv, NEW k \in calls, Fail(k) PROVE IInv'
  <1> DEFINE p == k.page
  <1>0. TypeOK /\ ReferenceIsAlive /\ OneLoadAtATime /\ OneOpen /\ NewOK /\ CallsOK /\ TickOK /\ ListOK
    BY DEF IInv
  <1>1. p \in Pages
    BY <1>0, CallTyped
  <1>2. /\ calls' = calls \ {k}
        /\ lost' = [lost EXCEPT ![p] = TRUE]
        /\ frame' = IF k.by \in Frames THEN [frame EXCEPT ![k.by] = None] ELSE frame
        /\ UNCHANGED <<dotNetReference, isTicking, life, categories, script, filter, shown,
                       hasMore, isLoading, edits, mixed>>
    BY DEF Fail, Settle
  <1>3. \A f \in Frames \ {k.by} : frame'[f] = frame[f]
    BY <1>0, <1>2 DEF TypeOK
  <1>4. k.by \in Frames => Waits(k.by, p)
    BY <1>0 DEF CallsOK
  <1>5. TypeOK'
    <2>1. frame' \in [Frames -> Frame \cup {None}] /\ lost' \in [Pages -> BOOLEAN]
      BY <1>0, <1>2 DEF TypeOK
    <2>2. QED
      BY <1>0, <1>2, <2>1 DEF TypeOK
  <1>6. ReferenceIsAlive' /\ OneOpen' /\ NewOK' /\ OneLoadAtATime'
    BY <1>0, <1>2 DEF ReferenceIsAlive, OneOpen, NewOK, OneLoadAtATime
  <1>7. CallsOK'
    <2>1. ASSUME NEW l \in calls' PROVE isLoading'[l.page]
      BY <1>0, <1>2 DEF CallsOK
    <2>2. ASSUME NEW l \in calls', l.by \in Frames PROVE Waits(l.by, l.page)'
      <3>1. Waits(l.by, l.page) /\ l \in calls /\ l # k
        BY <1>0, <1>2, <2>2 DEF CallsOK
      <3>2. l.by # k.by
        BY <1>0, <1>4, <2>2, <3>1 DEF OneLoadAtATime, Waits
      <3>3. QED
        BY <1>3, <2>2, <3>1, <3>2 DEF Waits
    <2>3. QED
      BY <2>1, <2>2 DEF CallsOK
  <1>8. TickOK'
    <2>1. SUFFICES ASSUME isTicking, ~lost'[dotNetReference]
                   PROVE  /\ dotNetReference # None
                          /\ \E f \in Frames : /\ frame'[f] # None
                                               /\ frame'[f].page \in {None, dotNetReference}
      BY <1>0, <1>2 DEF TickOK
    <2>2. dotNetReference # None /\ dotNetReference \in Pages
      BY <1>0, <2>1 DEF TickOK, TypeOK
    <2>3. dotNetReference # p /\ ~lost[dotNetReference]
      BY <1>0, <1>1, <1>2, <2>1, <2>2 DEF TypeOK
    <2>4. PICK f \in Frames : frame[f] # None /\ frame[f].page \in {None, dotNetReference}
      BY <1>0, <2>1, <2>3 DEF TickOK
    <2>5. f # k.by
      BY <1>1, <1>4, <2>3, <2>4, NoneAssumption DEF Waits
    <2>6. QED
      BY <1>3, <2>2, <2>4, <2>5
  <1>9. ListOK'
    BY <1>0, <1>2 DEF ListOK
  <1>10. QED
    BY <1>5, <1>6, <1>7, <1>8, <1>9 DEF IInv

-----------------------------------------------------------------------------
(* The component's life                                                    *)

LEMMA OpenStep == ASSUME IInv, NEW p \in Pages, Open(p) PROVE IInv'
  <1>0. TypeOK /\ ReferenceIsAlive /\ OneLoadAtATime /\ OneOpen /\ NewOK /\ CallsOK /\ TickOK /\ ListOK
    BY DEF IInv
  <1>1. PICK g \in Filters : filter' = [filter EXCEPT ![p] = g]
    BY DEF Open
  <1>2. /\ life[p] = "new" /\ \A q \in Pages : life[q] # "open"
        /\ life' = [life EXCEPT ![p] = "open"]
        /\ categories' = [categories EXCEPT ![p] = "asked"]
        /\ script' = [script EXCEPT ![p] = "importing"]
        /\ UNCHANGED <<script_vars, list_vars, edits, mixed, lost>>
    BY DEF Open
  <1> USE DEF script_vars, list_vars
  <1>3. TypeOK'
    <2>1. /\ life' \in [Pages -> {"new", "open", "closed"}]
          /\ categories' \in [Pages -> {"none", "asked"}]
          /\ script' \in [Pages -> {"none", "importing", "registered"}]
          /\ filter' \in [Pages -> Filters]
      BY <1>0, <1>1, <1>2 DEF TypeOK
    <2>2. QED
      BY <1>0, <1>2, <2>1 DEF TypeOK
  <1>4. ReferenceIsAlive' /\ OneOpen' /\ NewOK'
    BY <1>0, <1>2 DEF ReferenceIsAlive, OneOpen, NewOK, TypeOK
  <1>5. OneLoadAtATime' /\ CallsOK' /\ TickOK'
    BY <1>0, <1>2 DEF OneLoadAtATime, CallsOK, Waits, TickOK
  <1>6. ListOK'
    <2>1. /\ shown[p] = <<>> /\ hasMore[p]
          /\ \A k \in calls : k.page # p
      BY <1>0, <1>2 DEF NewOK, CallsOK
    <2>2. /\ \A q \in Pages \ {p} : filter'[q] = filter[q]
          /\ filter'[p] = g /\ FullPages[g] \in Nat
      BY <1>0, <1>1, FilterAssumption DEF TypeOK
    <2>3. QED
      BY <1>0, <1>2, <2>1, <2>2 DEF ListOK
  <1>7. QED
    BY <1>3, <1>4, <1>5, <1>6 DEF IInv

LEMMA CategoriesArriveStep ==
    ASSUME IInv, NEW p \in Pages, CategoriesArrive(p) PROVE IInv'
  <1>0. TypeOK /\ ReferenceIsAlive /\ OneLoadAtATime /\ OneOpen /\ NewOK /\ CallsOK /\ TickOK /\ ListOK
    BY DEF IInv
  <1>1. /\ categories[p] = "asked"
        /\ categories' = [categories EXCEPT ![p] = "none"]
        /\ LoadNextPage(p, "init")
        /\ UNCHANGED <<script_vars, life, script, filter, shown, hasMore, edits, mixed, lost>>
    BY DEF CategoriesArrive
  <1> USE DEF script_vars
  <1>2. /\ isLoading' \in [Pages -> BOOLEAN] /\ calls' \in SUBSET Call
        /\ OneLoadAtATime' /\ CallsOK' /\ ListOK'
        /\ \A q \in Pages \ {p} : isLoading'[q] = isLoading[q]
    <2>1. "init" \in Callers /\ "init" \notin Frames
      BY FramesAssumption DEF Callers
    <2>2. QED
      BY <1>1, <2>1, LoadStep
  <1>3. TypeOK'
    <2>1. categories' \in [Pages -> {"none", "asked"}]
      BY <1>0, <1>1 DEF TypeOK
    <2>2. QED
      BY <1>0, <1>1, <1>2, <2>1 DEF TypeOK
  <1>4. ReferenceIsAlive' /\ OneOpen' /\ TickOK'
    BY <1>0, <1>1 DEF ReferenceIsAlive, OneOpen, TickOK
  <1>5. NewOK'
    <2>1. life[p] # "new"
      BY <1>0, <1>1 DEF NewOK
    <2>2. \A q \in Pages \ {p} : categories'[q] = categories[q]
      BY <1>0, <1>1 DEF TypeOK
    <2>3. QED
      BY <1>0, <1>1, <1>2, <2>1, <2>2 DEF NewOK
  <1>6. QED
    BY <1>2, <1>3, <1>4, <1>5 DEF IInv

LEMMA CategoriesFailStep ==
    ASSUME IInv, NEW p \in Pages, CategoriesFail(p) PROVE IInv'
  <1>0. TypeOK /\ ReferenceIsAlive /\ OneLoadAtATime /\ OneOpen /\ NewOK /\ CallsOK /\ TickOK /\ ListOK
    BY DEF IInv
  <1>1. /\ categories' = [categories EXCEPT ![p] = "none"]
        /\ lost' = [lost EXCEPT ![p] = TRUE]
        /\ UNCHANGED <<script_vars, list_vars, life, script, filter, edits, mixed>>
    BY DEF CategoriesFail
  <1> USE DEF script_vars, list_vars
  <1>2. TypeOK'
    <2>1. categories' \in [Pages -> {"none", "asked"}] /\ lost' \in [Pages -> BOOLEAN]
      BY <1>0, <1>1 DEF TypeOK
    <2>2. QED
      BY <1>0, <1>1, <2>1 DEF TypeOK
  <1>3. ReferenceIsAlive' /\ OneOpen' /\ OneLoadAtATime' /\ CallsOK' /\ ListOK'
    BY <1>0, <1>1 DEF ReferenceIsAlive, OneOpen, OneLoadAtATime, CallsOK, Waits, ListOK
  <1>4. NewOK'
    BY <1>0, <1>1 DEF NewOK, TypeOK
  <1>5. TickOK'
    <2>1. \A q \in Pages : lost[q] => lost'[q]
      BY <1>0, <1>1 DEF TypeOK
    <2>2. QED
      BY <1>0, <1>1, <2>1 DEF TickOK, TypeOK
  <1>6. QED
    BY <1>2, <1>3, <1>4, <1>5 DEF IInv

LEMMA RegisterStep == ASSUME IInv, NEW p \in Pages, Register(p) PROVE IInv'
  <1>0. TypeOK /\ ReferenceIsAlive /\ OneLoadAtATime /\ OneOpen /\ NewOK /\ CallsOK /\ TickOK /\ ListOK
    BY DEF IInv
  <1>1. /\ script[p] = "importing"
        /\ UNCHANGED <<list_vars, isTicking, frame, life, categories, filter, edits, mixed, lost>>
    BY DEF Register
  <1> USE DEF list_vars
  <1>2. OneLoadAtATime' /\ NewOK' /\ CallsOK' /\ ListOK'
    BY <1>0, <1>1 DEF OneLoadAtATime, NewOK, CallsOK, Waits, ListOK
  <1>3. CASE life[p] = "open"
    <2>1. script' = [script EXCEPT ![p] = "registered"] /\ dotNetReference' = p
      BY <1>3 DEF Register
    <2>2. TypeOK'
      <3>1. script' \in [Pages -> {"none", "importing", "registered"}]
            /\ dotNetReference' \in Pages \cup {None}
        BY <1>0, <2>1 DEF TypeOK
      <3>2. QED
        BY <1>0, <1>1, <3>1 DEF TypeOK
    <2>3. ReferenceIsAlive' /\ OneOpen'
      BY <1>0, <1>1, <1>3, <2>1 DEF ReferenceIsAlive, OneOpen, TypeOK
    <2>4. dotNetReference = None
      BY <1>0, <1>1, <1>3 DEF ReferenceIsAlive, OneOpen, TypeOK
    <2>5. TickOK'
      BY <1>0, <1>1, <2>4 DEF TickOK
    <2>6. QED
      BY <1>2, <2>2, <2>3, <2>5 DEF IInv
  <1>4. CASE life[p] # "open"
    <2>1. script' = [script EXCEPT ![p] = "none"] /\ UNCHANGED dotNetReference
      BY <1>4 DEF Register
    <2>2. TypeOK'
      <3>1. script' \in [Pages -> {"none", "importing", "registered"}]
        BY <1>0, <2>1 DEF TypeOK
      <3>2. QED
        BY <1>0, <1>1, <2>1, <3>1 DEF TypeOK
    <2>3. ReferenceIsAlive' /\ OneOpen'
      BY <1>0, <1>1, <1>4, <2>1 DEF ReferenceIsAlive, OneOpen, TypeOK
    <2>4. TickOK'
      BY <1>0, <1>1, <2>1 DEF TickOK
    <2>5. QED
      BY <1>2, <2>2, <2>3, <2>4 DEF IInv
  <1>5. QED
    BY <1>3, <1>4

LEMMA ImportFailsStep == ASSUME IInv, NEW p \in Pages, ImportFails(p) PROVE IInv'
  <1>0. TypeOK /\ ReferenceIsAlive /\ OneLoadAtATime /\ OneOpen /\ NewOK /\ CallsOK /\ TickOK /\ ListOK
    BY DEF IInv
  <1>1. /\ script[p] = "importing"
        /\ script' = [script EXCEPT ![p] = "none"]
        /\ lost' = [lost EXCEPT ![p] = TRUE]
        /\ UNCHANGED <<script_vars, list_vars, life, categories, filter, edits, mixed>>
    BY DEF ImportFails
  <1> USE DEF script_vars, list_vars
  <1>2. TypeOK'
    <2>1. script' \in [Pages -> {"none", "importing", "registered"}]
          /\ lost' \in [Pages -> BOOLEAN]
      BY <1>0, <1>1 DEF TypeOK
    <2>2. QED
      BY <1>0, <1>1, <2>1 DEF TypeOK
  <1>3. OneLoadAtATime' /\ NewOK' /\ CallsOK' /\ ListOK'
    BY <1>0, <1>1 DEF OneLoadAtATime, NewOK, CallsOK, Waits, ListOK
  <1>4. ReferenceIsAlive' /\ OneOpen'
    BY <1>0, <1>1 DEF ReferenceIsAlive, OneOpen, TypeOK
  <1>5. TickOK'
    <2>1. \A q \in Pages : lost[q] => lost'[q]
      BY <1>0, <1>1 DEF TypeOK
    <2>2. QED
      BY <1>0, <1>1, <2>1 DEF TickOK, TypeOK
  <1>6. QED
    BY <1>2, <1>3, <1>4, <1>5 DEF IInv

LEMMA CloseStep == ASSUME IInv, NEW p \in Pages, Close(p) PROVE IInv'
  <1>0. TypeOK /\ ReferenceIsAlive /\ OneLoadAtATime /\ OneOpen /\ NewOK /\ CallsOK /\ TickOK /\ ListOK
    BY DEF IInv
  <1>1. /\ life[p] = "open"
        /\ life' = [life EXCEPT ![p] = "closed"]
        /\ UNCHANGED <<list_vars, frame, categories, filter, edits, mixed, lost>>
    BY DEF Close
  <1> USE DEF list_vars
  <1>2. OneLoadAtATime' /\ NewOK' /\ CallsOK' /\ ListOK'
    BY <1>0, <1>1 DEF OneLoadAtATime, NewOK, CallsOK, Waits, ListOK, TypeOK
  <1>3. life' \in [Pages -> {"new", "open", "closed"}]
    BY <1>0, <1>1 DEF TypeOK
  <1>4. CASE script[p] = "registered"
    <2>1. dotNetReference' = None /\ isTicking' = FALSE /\ script' = [script EXCEPT ![p] = "none"]
      BY <1>4 DEF Close
    <2>2. TypeOK'
      <3>1. script' \in [Pages -> {"none", "importing", "registered"}]
        BY <1>0, <2>1 DEF TypeOK
      <3>2. QED
        BY <1>0, <1>1, <1>3, <2>1, <3>1 DEF TypeOK
    <2>3. ReferenceIsAlive' /\ OneOpen' /\ TickOK'
      BY <1>0, <1>1, <2>1, NoneAssumption DEF ReferenceIsAlive, OneOpen, TickOK, TypeOK
    <2>4. QED
      BY <1>2, <2>2, <2>3 DEF IInv
  <1>5. CASE script[p] # "registered"
    <2>1. UNCHANGED <<dotNetReference, isTicking, script>>
      BY <1>5 DEF Close
    <2>2. TypeOK'
      BY <1>0, <1>1, <1>3, <2>1 DEF TypeOK
    <2>3. ReferenceIsAlive' /\ OneOpen' /\ TickOK'
      BY <1>0, <1>1, <1>5, <2>1 DEF ReferenceIsAlive, OneOpen, TickOK, TypeOK
    <2>4. QED
      BY <1>2, <2>2, <2>3 DEF IInv
  <1>6. QED
    BY <1>4, <1>5

-----------------------------------------------------------------------------
(* The filters                                                             *)

LEMMA TypeStep == ASSUME IInv, NEW p \in Pages, Type(p) PROVE IInv'
  <1>0. TypeOK /\ ReferenceIsAlive /\ OneLoadAtATime /\ OneOpen /\ NewOK /\ CallsOK /\ TickOK /\ ListOK
    BY DEF IInv
  <1>1. PICK g \in Filters : filter' = [filter EXCEPT ![p] = g]
    BY DEF Type
  <1>2. /\ life[p] = "open" /\ edits' = edits + 1 /\ edits < MaxEdits
        /\ mixed' = [mixed EXCEPT ![p] = @ \/ shown[p] # <<>> \/ isLoading[p]]
        /\ UNCHANGED <<script_vars, list_vars, life, categories, script, lost>>
    BY DEF Type, Edit
  <1> USE DEF script_vars, list_vars
  <1>3. TypeOK'
    <2>1. filter' \in [Pages -> Filters] /\ mixed' \in [Pages -> BOOLEAN]
      BY <1>0, <1>1, <1>2 DEF TypeOK
    <2>2. edits' \in 0 .. MaxEdits
      BY <1>0, <1>2, EditsAssumption DEF TypeOK
    <2>3. QED
      BY <1>0, <1>2, <2>1, <2>2 DEF TypeOK
  <1>4. ReferenceIsAlive' /\ OneOpen' /\ NewOK' /\ OneLoadAtATime' /\ CallsOK' /\ TickOK'
    BY <1>0, <1>2 DEF ReferenceIsAlive, OneOpen, NewOK, OneLoadAtATime, CallsOK, Waits, TickOK
  <1>5. ListOK'
    <2>1. ASSUME NEW q \in Pages, q # p
          PROVE  filter'[q] = filter[q] /\ (mixed'[q] <=> mixed[q])
      BY <1>0, <1>1, <1>2, <2>1 DEF TypeOK
    <2>2. ASSUME ~mixed'[p]
          PROVE  /\ shown[p] = <<>> /\ hasMore[p] /\ \A k \in calls : k.page # p
                 /\ FullPages[filter'[p]] \in Nat
      <3>1. ~mixed[p] /\ shown[p] = <<>> /\ ~isLoading[p]
        BY <1>0, <1>2, <2>2 DEF TypeOK
      <3>2. FullPages[filter[p]] \in Nat /\ FullPages[filter'[p]] \in Nat
        BY <1>0, <1>1, FilterAssumption DEF TypeOK
      <3>3. hasMore[p]
        BY <1>0, <3>1, <3>2 DEF ListOK
      <3>4. \A k \in calls : k.page # p
        BY <1>0, <3>1 DEF CallsOK
      <3>5. QED
        BY <3>1, <3>2, <3>3, <3>4
    <2>3. QED
      BY <1>0, <1>2, <2>1, <2>2 DEF ListOK
  <1>6. QED
    BY <1>3, <1>4, <1>5 DEF IInv

\* "Search" and "Clear": the list starts again, with a call unless one is under way.
LEMMA RestartStep ==
    ASSUME IInv, NEW p \in Pages, NEW g \in Filters, life[p] = "open", Restart(p), Edit,
           filter' = [filter EXCEPT ![p] = g],
           UNCHANGED <<script_vars, life, categories, script, lost>>
    PROVE  IInv'
  <1>0. TypeOK /\ ReferenceIsAlive /\ OneLoadAtATime /\ OneOpen /\ NewOK /\ CallsOK /\ TickOK /\ ListOK
    BY DEF IInv
  <1> DEFINE new == [page |-> p, by |-> "click", index |-> 0, filter |-> g]
  <1>1. /\ shown' = [shown EXCEPT ![p] = <<>>]
        /\ hasMore' = [hasMore EXCEPT ![p] = TRUE]
        /\ mixed' = [mixed EXCEPT ![p] = isLoading[p]]
        /\ UNCHANGED <<dotNetReference, isTicking, frame, life, categories, script, lost>>
    BY DEF Restart, script_vars
  <1>2. /\ isLoading[p] => UNCHANGED <<isLoading, calls>>
        /\ ~isLoading[p] => /\ isLoading' = [isLoading EXCEPT ![p] = TRUE]
                            /\ calls' = calls \cup {new}
    BY <1>0 DEF Restart, TypeOK
  <1>3. ASSUME NEW q \in Pages, q # p
        PROVE  /\ shown'[q] = shown[q] /\ hasMore'[q] = hasMore[q] /\ filter'[q] = filter[q]
               /\ (mixed'[q] <=> mixed[q]) /\ isLoading'[q] = isLoading[q]
    BY <1>0, <1>1, <1>2, <1>3 DEF TypeOK
  <1>4. /\ shown'[p] = <<>> /\ hasMore'[p] /\ filter'[p] = g /\ isLoading'[p]
        /\ (mixed'[p] <=> isLoading[p])
    BY <1>0, <1>1, <1>2 DEF TypeOK
  <1>5. ~isLoading[p] => \A k \in calls : k.page # p
    BY <1>0 DEF CallsOK
  <1>6. "click" \in Callers /\ "click" \notin Frames
    BY FramesAssumption DEF Callers
  <1>7. TypeOK'
    <2>1. /\ filter' \in [Pages -> Filters] /\ shown' \in [Pages -> Seq(Filters \X Nat)]
      BY <1>0, <1>1 DEF TypeOK
    <2>2. /\ hasMore' \in [Pages -> BOOLEAN] /\ mixed' \in [Pages -> BOOLEAN]
          /\ isLoading' \in [Pages -> BOOLEAN]
      BY <1>0, <1>1, <1>2 DEF TypeOK
    <2>3. calls' \in SUBSET Call
      BY <1>0, <1>2, <1>6 DEF TypeOK, Call
    <2>4. edits' \in 0 .. MaxEdits
      BY <1>0, EditsAssumption DEF TypeOK, Edit
    <2>5. QED
      BY <1>0, <1>1, <2>1, <2>2, <2>3, <2>4 DEF TypeOK
  <1>8. ReferenceIsAlive' /\ OneOpen' /\ TickOK'
    BY <1>0, <1>1 DEF ReferenceIsAlive, OneOpen, TickOK
  <1>9. NewOK'
    BY <1>0, <1>1, <1>3 DEF NewOK
  <1>10. OneLoadAtATime'
    BY <1>0, <1>2, <1>5 DEF OneLoadAtATime
  <1>11. CallsOK'
    <2>1. ASSUME NEW k \in calls' PROVE isLoading'[k.page]
      <3>1. CASE k \in calls
        <4>1. k.page \in Pages /\ isLoading[k.page]
          BY <1>0, <3>1, CallTyped DEF CallsOK
        <4>2. QED
          BY <1>3, <1>4, <4>1
      <3>2. CASE k = new
        BY <1>4, <3>2
      <3>3. QED
        BY <1>2, <3>1, <3>2
    <2>2. ASSUME NEW k \in calls', k.by \in Frames PROVE Waits(k.by, k.page)'
      <3>1. k \in calls
        BY <1>2, <1>6, <2>2
      <3>2. QED
        BY <1>0, <1>1, <2>2, <3>1 DEF CallsOK, Waits
    <2>3. QED
      BY <2>1, <2>2 DEF CallsOK
  <1>12. ListOK'
    <2>1. ASSUME NEW q \in Pages, q # p, NEW k \in calls', k.page = q
          PROVE  k \in calls
      BY <1>2, <2>1
    <2>2. ASSUME ~mixed'[p], NEW k \in calls', k.page = p
          PROVE  k = new
      BY <1>2, <1>4, <1>5, <2>2
    <2>3. FullPages[g] \in Nat
      BY FilterAssumption
    <2>4. QED
      BY <1>0, <1>3, <1>4, <2>1, <2>2, <2>3 DEF ListOK
  <1>13. QED
    BY <1>7, <1>8, <1>9, <1>10, <1>11, <1>12 DEF IInv

LEMMA FilterStep ==
    ASSUME IInv, NEW p \in Pages, ApplyFilters(p) \/ ClearFilters(p) PROVE IInv'
  <1>1. CASE ApplyFilters(p)
    <2>1. filter[p] \in Filters /\ filter' = [filter EXCEPT ![p] = filter[p]]
      BY <1>1 DEF IInv, TypeOK, ApplyFilters
    <2>2. QED
      BY <1>1, <2>1, RestartStep DEF ApplyFilters
  <1>2. CASE ClearFilters(p)
    BY <1>2, RestartStep, FilterAssumption DEF ClearFilters
  <1>3. QED
    BY <1>1, <1>2

-----------------------------------------------------------------------------
(* The script                                                              *)

\* A frame that no request waits for moves on, or starts.
LEMMA FrameStep ==
    ASSUME IInv, NEW f \in Frames, NEW s \in Frame \cup {None},
           frame[f] = None \/ frame[f].at # "waiting",
           frame' = [frame EXCEPT ![f] = s],
           UNCHANGED <<list_vars, dotNetReference, life, categories, script, filter, edits,
                       mixed, lost>>,
           isTicking' \in BOOLEAN, TickOK'
    PROVE  IInv'
  <1>0. TypeOK /\ ReferenceIsAlive /\ OneLoadAtATime /\ OneOpen /\ NewOK /\ CallsOK /\ ListOK
    BY DEF IInv
  <1> USE DEF list_vars
  <1>1. TypeOK'
    <2>1. frame' \in [Frames -> Frame \cup {None}]
      BY <1>0 DEF TypeOK
    <2>2. QED
      BY <1>0, <2>1 DEF TypeOK
  <1>2. ReferenceIsAlive' /\ OneLoadAtATime' /\ OneOpen' /\ NewOK' /\ ListOK'
    BY <1>0 DEF ReferenceIsAlive, OneLoadAtATime, OneOpen, NewOK, ListOK
  <1>3. \A g \in Frames \ {f} : frame'[g] = frame[g]
    BY <1>0 DEF TypeOK
  <1>4. CallsOK'
    BY <1>0, <1>3 DEF CallsOK, Waits
  <1>5. QED
    BY <1>1, <1>2, <1>4 DEF IInv

LEMMA ScriptStep == ASSUME IInv, NEW f \in Frames, Script(f) PROVE IInv'
  <1>0. TypeOK /\ ReferenceIsAlive /\ OneLoadAtATime /\ OneOpen /\ NewOK /\ CallsOK /\ TickOK /\ ListOK
    BY DEF IInv
  <1>1. CASE OnScroll(f)
    <2> DEFINE s == [at |-> "scheduled", page |-> None]
    <2>1. s \in Frame
      BY DEF Frame
    <2>2. frame'[f] = s /\ frame'[f] # None
      BY <1>0, <1>1, <2>1, NoneAssumption DEF OnScroll, TypeOK
    <2>3. TickOK'
      BY <1>1, <2>2 DEF OnScroll, TickOK
    <2>4. isTicking' \in BOOLEAN /\ frame[f] = None /\ frame' = [frame EXCEPT ![f] = s]
          /\ UNCHANGED <<list_vars, dotNetReference, life, categories, script, filter, edits,
                         mixed, lost>>
      BY <1>1 DEF OnScroll
    <2>5. QED
      BY <2>1, <2>3, <2>4, FrameStep
  <1>2. CASE NotYetThere(f) \/ Answered(f)
    <2>1. /\ isTicking' = FALSE /\ frame' = [frame EXCEPT ![f] = None]
          /\ frame[f].at # "waiting"
          /\ UNCHANGED <<list_vars, dotNetReference, life, categories, script, filter, edits,
                         mixed, lost>>
      BY <1>2 DEF NotYetThere, Scheduled, Answered
    <2>2. TickOK'
      BY <2>1 DEF TickOK
    <2>3. QED
      BY <2>1, <2>2, FrameStep
  <1>3. CASE NobodyThere(f)
    <2>1. /\ dotNetReference = None /\ UNCHANGED isTicking
          /\ frame' = [frame EXCEPT ![f] = None]
          /\ frame[f].at # "waiting"
          /\ UNCHANGED <<list_vars, dotNetReference, life, categories, script, filter, edits,
                         mixed, lost>>
      BY <1>3 DEF NobodyThere, Scheduled
    <2>2. ~isTicking
      BY <1>0, <2>1 DEF TickOK
    <2>3. TickOK' /\ isTicking' \in BOOLEAN
      BY <1>0, <2>1, <2>2 DEF TickOK, TypeOK
    <2>4. QED
      BY <2>1, <2>3, FrameStep
  <1>4. CASE AtTheEnd(f)
    <2> DEFINE p == dotNetReference
               s == [at |-> IF Refuses(p) THEN "answered" ELSE "waiting", page |-> p]
    <2>1. /\ Scheduled(f) /\ p # None
          /\ frame' = [frame EXCEPT ![f] = s]
          /\ LoadNextPage(p, f)
          /\ UNCHANGED <<dotNetReference, isTicking, life, categories, script, filter, shown,
                         hasMore, edits, mixed, lost>>
      BY <1>4 DEF AtTheEnd
    <2>2. p \in Pages /\ f \in Callers
      BY <1>0, <2>1 DEF TypeOK, Callers
    <2>3. s \in Frame
      BY <2>2 DEF Frame
    <2>4. frame' \in [Frames -> Frame \cup {None}]
      BY <1>0, <2>1, <2>3 DEF TypeOK
    <2>5. \A g \in Frames \ {f} : frame'[g] = frame[g]
      BY <1>0, <2>1 DEF TypeOK
    <2>6. frame'[f] = s /\ frame'[f] # None /\ frame'[f].page = p
      BY <1>0, <2>1, <2>3, NoneAssumption DEF TypeOK
    <2>7. ~Refuses(p) => frame' = [frame EXCEPT ![f] = [at |-> "waiting", page |-> p]]
      BY <2>1
    <2>8. /\ isLoading' \in [Pages -> BOOLEAN] /\ calls' \in SUBSET Call
          /\ OneLoadAtATime' /\ CallsOK' /\ ListOK'
          /\ \A q \in Pages \ {p} : isLoading'[q] = isLoading[q]
      BY <2>1, <2>2, <2>5, <2>7, LoadStep DEF Scheduled
    <2>9. TypeOK'
      BY <1>0, <2>1, <2>4, <2>8 DEF TypeOK
    <2>10. ReferenceIsAlive' /\ OneOpen'
      BY <1>0, <2>1 DEF ReferenceIsAlive, OneOpen
    <2>11. NewOK'
      BY <1>0, <2>1, <2>2, <2>8 DEF NewOK, ReferenceIsAlive
    <2>12. TickOK'
      BY <2>1, <2>6 DEF TickOK
    <2>13. QED
      BY <2>8, <2>9, <2>10, <2>11, <2>12 DEF IInv
  <1>5. QED
    BY <1>1, <1>2, <1>3, <1>4 DEF Script

-----------------------------------------------------------------------------
\* The inductive invariant.
THEOREM Invariance == Spec => []IInv
  <1>1. IInv /\ [Next]_vars => IInv'
    <2> SUFFICES ASSUME IInv, [Next]_vars PROVE IInv'
      OBVIOUS
    <2>1. ASSUME NEW p \in Pages, Browser(p) PROVE IInv'
      BY <2>1, OpenStep, CategoriesArriveStep, CategoriesFailStep, RegisterStep,
         ImportFailsStep, CloseStep, TypeStep, FilterStep DEF Browser
    <2>2. ASSUME NEW k \in calls, Arrive(k) \/ Fail(k) PROVE IInv'
      BY <2>2, ArriveStep, FailStep
    <2>3. CASE UNCHANGED vars
      <3>1. UNCHANGED <<dotNetReference, isTicking, frame, life, categories, script, filter>>
            /\ UNCHANGED <<shown, hasMore, isLoading, calls, edits, mixed, lost>>
        BY <2>3 DEF vars
      <3>2. TypeOK'
        BY <3>1 DEF IInv, TypeOK
      <3>3. ReferenceIsAlive' /\ OneLoadAtATime' /\ OneOpen' /\ NewOK'
        BY <3>1 DEF IInv, ReferenceIsAlive, OneLoadAtATime, OneOpen, NewOK
      <3>4. CallsOK' /\ TickOK' /\ ListOK'
        BY <3>1 DEF IInv, CallsOK, Waits, TickOK, ListOK
      <3>5. QED
        BY <3>2, <3>3, <3>4 DEF IInv
    <2>4. QED
      BY <2>1, <2>2, <2>3, ScriptStep DEF Next
  <1>2. QED
    BY <1>1, InitOK, PTL DEF Spec

\* The state always has its type.
THEOREM TypeCorrect == Spec => []TypeOK
  BY Invariance, PTL DEF IInv

\* The script calls the page that is open and registered, and no other
\* (registerScrollPagination, unregisterScrollPagination, DisposeAsync).
THEOREM ReferenceStaysAlive == Spec => []ReferenceIsAlive
  BY Invariance, PTL DEF IInv

\* LoadNextPageAsync of one page never has two requests under way.
THEOREM OneLoad == Spec => []OneLoadAtATime
  BY Invariance, PTL DEF IInv

\* The throttle of onScroll is always owed by a frame, or a request failed.
THEOREM TickOwed == Spec => []TickIsOwed
  <1>1. IInv => TickIsOwed
    BY DEF IInv, TickOK, TickIsOwed
  <1>2. QED
    BY <1>1, Invariance, PTL

\* The list is the first pages of its filter, in order and without a repetition.
THEOREM ListInOrder == Spec => []ShownInOrder
  <1>1. IInv => ShownInOrder
    BY DEF IInv, ListOK, ShownInOrder
  <1>2. QED
    BY <1>1, Invariance, PTL

\* No step gets a visit out of a failed request.
THEOREM NoWayOut == Spec => FailureIsForGood
  <1>1. ASSUME IInv, [Next]_vars, NEW p \in Pages, Stuck(p)
        PROVE  Stuck(p)' /\ shown'[p] \in {shown[p], <<>>}
    <2>0. TypeOK /\ OneLoadAtATime /\ CallsOK
      BY <1>1 DEF IInv
    <2>1. isLoading[p] /\ \A k \in calls : k.page # p
      BY <1>1 DEF Stuck
    <2>2. ASSUME NEW q \in Pages, NEW by, LoadNextPage(q, by)
          PROVE  isLoading'[p] /\ \A k \in calls' : k.page # p
      <3>1. CASE Refuses(q)
        BY <2>1, <2>2, <3>1 DEF LoadNextPage
      <3>2. CASE ~Refuses(q)
        <4>1. q # p
          BY <2>1, <3>2 DEF Refuses
        <4>2. isLoading' = [isLoading EXCEPT ![q] = TRUE]
              /\ \A k \in calls' : k \in calls \/ k.page = q
          BY <2>2, <3>2 DEF LoadNextPage
        <4>3. QED
          BY <2>0, <2>1, <4>1, <4>2 DEF TypeOK
      <3>3. QED
        BY <3>1, <3>2
    <2>3. ASSUME NEW q \in Pages, Restart(q)
          PROVE  /\ isLoading'[p] /\ \A k \in calls' : k.page # p
                 /\ shown'[p] \in {shown[p], <<>>}
      <3>1. shown'[p] \in {shown[p], <<>>}
        BY <2>0, <2>3 DEF Restart, TypeOK
      <3>2. isLoading'[p] /\ \A k \in calls' : k.page # p
        <4>1. CASE isLoading[q]
          BY <2>1, <2>3, <4>1 DEF Restart
        <4>2. CASE ~isLoading[q]
          <5>1. isLoading' = [isLoading EXCEPT ![q] = TRUE]
                /\ \A k \in calls' : k \in calls \/ k.page = q
            BY <2>3, <4>2 DEF Restart
          <5>2. q # p
            BY <2>1, <4>2
          <5>3. QED
            BY <2>0, <2>1, <5>1, <5>2 DEF TypeOK
        <4>3. QED
          BY <4>1, <4>2
      <3>3. QED
        BY <3>1, <3>2
    <2>4. ASSUME NEW q \in Pages, Browser(q)
          PROVE  Stuck(p)' /\ shown'[p] \in {shown[p], <<>>}
      <3>1. CASE CategoriesArrive(q)
        BY <2>2, <3>1 DEF CategoriesArrive, Stuck
      <3>2. CASE ApplyFilters(q) \/ ClearFilters(q)
        BY <2>3, <3>2 DEF ApplyFilters, ClearFilters, Stuck
      <3>3. CASE Open(q) \/ CategoriesFail(q) \/ Register(q) \/ ImportFails(q) \/ Close(q) \/ Type(q)
        <4>1. UNCHANGED list_vars
          BY <3>3 DEF Open, CategoriesFail, Register, ImportFails, Close, Type
        <4>2. QED
          BY <2>1, <4>1 DEF list_vars, Stuck
      <3>4. QED
        BY <2>4, <3>1, <3>2, <3>3 DEF Browser
    <2>5. ASSUME NEW f \in Frames, Script(f)
          PROVE  Stuck(p)' /\ shown'[p] \in {shown[p], <<>>}
      <3>1. CASE AtTheEnd(f)
        <4>1. dotNetReference \in Pages /\ LoadNextPage(dotNetReference, f) /\ UNCHANGED shown
          BY <2>0, <3>1 DEF AtTheEnd, TypeOK
        <4>2. QED
          BY <2>2, <4>1 DEF Stuck
      <3>2. CASE OnScroll(f) \/ NotYetThere(f) \/ NobodyThere(f) \/ Answered(f)
        BY <2>1, <3>2 DEF OnScroll, NotYetThere, NobodyThere, Answered, list_vars, Stuck
      <3>3. QED
        BY <2>5, <3>1, <3>2 DEF Script
    <2>6. ASSUME NEW k \in calls, Arrive(k) \/ Fail(k)
          PROVE  Stuck(p)' /\ shown'[p] \in {shown[p], <<>>}
      <3>1. k.page # p /\ calls' = calls \ {k}
        BY <2>1, <2>6 DEF Arrive, Fail
      <3>2. isLoading'[p] = isLoading[p] /\ shown'[p] = shown[p]
        BY <2>0, <2>6, <3>1 DEF Arrive, Fail, TypeOK
      <3>3. QED
        BY <2>1, <3>1, <3>2 DEF Stuck
    <2>7. CASE UNCHANGED vars
      BY <2>1, <2>7 DEF vars, Stuck
    <2>8. QED
      BY <1>1, <2>4, <2>5, <2>6, <2>7 DEF Next
  <1>2. IInv /\ [Next]_vars
        => [\A p \in Pages : Stuck(p) => Stuck(p)' /\ shown'[p] \in {shown[p], <<>>}]_vars
    BY <1>1
  <1>3. QED
    BY <1>2, Invariance, PTL DEF Spec, FailureIsForGood
=============================================================================
