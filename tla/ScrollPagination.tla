-------------------------- MODULE ScrollPagination --------------------------
(***************************************************************************)
(* market.web: the endless list of products.  scrollPagination.js is one   *)
(* module for the whole browser tab: a reference to the page that listens  *)
(* and a flag that throttles scroll events.  The page (List.razor) loads   *)
(* the next page of products when it opens, when the script says so and    *)
(* when the filters are applied, and guards the load with isLoading.       *)
(* Both run on the one thread of the browser, so only the awaits           *)
(* interleave: the animation frame, the call into .NET, its answer, the    *)
(* import of the script and the HTTP requests.                             *)
(***************************************************************************)
EXTENDS Naturals, Sequences, FiniteSets

CONSTANTS Pages,      \* the visits of /products, one instance of the component each
          Frames,     \* BOUND: the calls of onScroll that can be under way at a time
          Filters,    \* the values of search text and category (the order is left out)
          NoFilter,   \* neither: what "Clear" sets
          FullPages,  \* FullPages[f]: how many full pages filter f has
          MaxEdits,   \* BOUND: how often the reader changes or applies the filters
          None

ASSUME FilterAssumption == NoFilter \in Filters /\ FullPages \in [Filters -> Nat]
ASSUME EditsAssumption == MaxEdits \in Nat
ASSUME FramesAssumption == Frames \cap {"init", "click"} = {}

\* Who is waiting for a load: an animation frame, OnInitializedAsync or a click.
Callers == Frames \cup {"init", "click"}

VARIABLES dotNetReference, \* the page the script calls, or None
          isTicking,       \* the script's throttle
          frame,           \* frame[f]: a frame of onScroll, the page it called, or None
          life,            \* life[p]: "new", "open" or "closed"
          categories,      \* categories[p]: "asked" while OnInitializedAsync waits for them
          script,          \* script[p]: "importing", "registered", or "none"
          filter,          \* filter[p]: what the filter fields hold now
          shown,           \* shown[p]: products, page by page: <<filter, index>>
          hasMore, isLoading,
          calls,           \* the GetPagedAsync requests under way
          edits,           \* how often the reader touched the filters
          mixed,           \* history: the filter changed under the list of p
          lost             \* history: a request of p failed

script_vars == <<dotNetReference, isTicking, frame>>
list_vars == <<shown, hasMore, isLoading, calls>>
vars == <<dotNetReference, isTicking, frame, life, categories, script, filter, shown,
          hasMore, isLoading, calls, edits, mixed, lost>>

Call == [page : Pages, by : Callers, index : Nat, filter : Filters]
Frame == [at : {"scheduled"}, page : {None}] \cup [at : {"waiting", "answered"}, page : Pages]

ASSUME NoneAssumption == None \notin Pages /\ None \notin Frame

TypeOK ==
    /\ dotNetReference \in Pages \cup {None} /\ isTicking \in BOOLEAN
    /\ frame \in [Frames -> Frame \cup {None}]
    /\ life \in [Pages -> {"new", "open", "closed"}]
    /\ categories \in [Pages -> {"none", "asked"}]
    /\ script \in [Pages -> {"none", "importing", "registered"}]
    /\ filter \in [Pages -> Filters]
    /\ shown \in [Pages -> Seq(Filters \X Nat)]
    /\ hasMore \in [Pages -> BOOLEAN] /\ isLoading \in [Pages -> BOOLEAN]
    /\ calls \in SUBSET Call
    /\ edits \in 0 .. MaxEdits
    /\ mixed \in [Pages -> BOOLEAN] /\ lost \in [Pages -> BOOLEAN]

Init ==
    /\ dotNetReference = None /\ isTicking = FALSE
    /\ frame = [f \in Frames |-> None]
    /\ life = [p \in Pages |-> "new"]
    /\ categories = [p \in Pages |-> "none"] /\ script = [p \in Pages |-> "none"]
    /\ filter = [p \in Pages |-> NoFilter]
    /\ shown = [p \in Pages |-> <<>>]
    /\ hasMore = [p \in Pages |-> TRUE] /\ isLoading = [p \in Pages |-> FALSE]
    /\ calls = {}
    /\ edits = 0
    /\ mixed = [p \in Pages |-> FALSE] /\ lost = [p \in Pages |-> FALSE]

-----------------------------------------------------------------------------
(* LoadNextPageAsync                                                       *)

\* Mutant: only hasMore is looked at.
RefusesAtTheEnd(p) == ~hasMore[p]

\* "if (isLoading || !hasMore) return"
Refuses(p) == isLoading[p] \/ ~hasMore[p]

\* The page index is products.Count in pages: both grow and are reset together.
LoadNextPage(p, by) ==
    IF Refuses(p) THEN UNCHANGED <<isLoading, calls>>
    ELSE /\ isLoading' = [isLoading EXCEPT ![p] = TRUE]
         /\ calls' = calls \cup {[page |-> p, by |-> by, index |-> Len(shown[p]),
                                  filter |-> filter[p]]}

\* invokeMethodAsync of the frame that waits for k, if it is one, settles.
Settle(k, outcome) ==
    frame' = IF k.by \in Frames THEN [frame EXCEPT ![k.by] = outcome] ELSE frame

\* Mutant: the page index starts again with what is already there.
ArriveAgain(k) ==
    /\ calls' = calls \ {k}
    /\ shown' = [shown EXCEPT ![k.page] = Append(@, <<k.filter, k.index>>)]
    /\ hasMore' = [hasMore EXCEPT ![k.page] = k.index <= FullPages[k.filter]]
    /\ isLoading' = [isLoading EXCEPT ![k.page] = FALSE]
    /\ Settle(k, [at |-> "answered", page |-> k.page])
    /\ UNCHANGED <<dotNetReference, isTicking, life, categories, script, filter, edits,
                   mixed, lost>>

\* The products of one page are appended; a short page is the last one.
Arrive(k) ==
    /\ calls' = calls \ {k}
    /\ shown' = [shown EXCEPT ![k.page] = Append(@, <<k.filter, k.index>>)]
    /\ hasMore' = [hasMore EXCEPT ![k.page] = k.index < FullPages[k.filter]]
    /\ isLoading' = [isLoading EXCEPT ![k.page] = FALSE]
    /\ Settle(k, [at |-> "answered", page |-> k.page])
    /\ UNCHANGED <<dotNetReference, isTicking, life, categories, script, filter, edits,
                   mixed, lost>>

\* GetFromJsonAsync throws: nothing resets isLoading, and the script's await
\* rejects before it resets isTicking.
Fail(k) ==
    /\ calls' = calls \ {k}
    /\ lost' = [lost EXCEPT ![k.page] = TRUE]
    /\ Settle(k, None)
    /\ UNCHANGED <<dotNetReference, isTicking, life, categories, script, filter, shown,
                   hasMore, isLoading, edits, mixed>>

-----------------------------------------------------------------------------
(* The component's life                                                    *)

\* Navigation to /products?categoryId=..&search=..; the first render is drawn, and
\* the script imported, while OnInitializedAsync waits for the categories.
Open(p) == \E f \in Filters :
    /\ life[p] = "new" /\ \A q \in Pages : life[q] # "open"
    /\ life' = [life EXCEPT ![p] = "open"]
    /\ filter' = [filter EXCEPT ![p] = f]
    /\ categories' = [categories EXCEPT ![p] = "asked"]
    /\ script' = [script EXCEPT ![p] = "importing"]
    /\ UNCHANGED <<script_vars, list_vars, edits, mixed, lost>>

CategoriesArrive(p) ==
    /\ categories[p] = "asked"
    /\ categories' = [categories EXCEPT ![p] = "none"]
    /\ LoadNextPage(p, "init")
    /\ UNCHANGED <<script_vars, life, script, filter, shown, hasMore, edits, mixed, lost>>

CategoriesFail(p) ==
    /\ categories[p] = "asked"
    /\ categories' = [categories EXCEPT ![p] = "none"]
    /\ lost' = [lost EXCEPT ![p] = TRUE]
    /\ UNCHANGED <<script_vars, list_vars, life, script, filter, edits, mixed>>

\* Mutant: a page that was closed meanwhile registers too.
RegisterClosed(p) ==
    /\ script[p] = "importing"
    /\ script' = [script EXCEPT ![p] = "registered"]
    /\ dotNetReference' = p
    /\ UNCHANGED <<list_vars, isTicking, frame, life, categories, filter, edits, mixed, lost>>

\* registerScrollPagination(dotNetRef).  DisposeAsync of a page whose import is
\* still under way disposes dotNetRef, which then cannot be passed any more.
Register(p) ==
    /\ script[p] = "importing"
    /\ IF life[p] = "open"
       THEN script' = [script EXCEPT ![p] = "registered"] /\ dotNetReference' = p
       ELSE script' = [script EXCEPT ![p] = "none"] /\ UNCHANGED dotNetReference
    /\ UNCHANGED <<list_vars, isTicking, frame, life, categories, filter, edits, mixed, lost>>

ImportFails(p) ==
    /\ script[p] = "importing"
    /\ script' = [script EXCEPT ![p] = "none"]
    /\ lost' = [lost EXCEPT ![p] = TRUE]
    /\ UNCHANGED <<script_vars, list_vars, life, categories, filter, edits, mixed>>

\* Mutant: unregisterScrollPagination leaves the throttle as it is.
CloseTicking(p) ==
    /\ life[p] = "open"
    /\ life' = [life EXCEPT ![p] = "closed"]
    /\ IF script[p] = "registered"
       THEN /\ dotNetReference' = None /\ UNCHANGED isTicking
            /\ script' = [script EXCEPT ![p] = "none"]
       ELSE UNCHANGED <<dotNetReference, isTicking, script>>
    /\ UNCHANGED <<list_vars, frame, categories, filter, edits, mixed, lost>>

\* DisposeAsync, and unregisterScrollPagination when the script is there: no
\* listener, no reference, no throttle.
Close(p) ==
    /\ life[p] = "open"
    /\ life' = [life EXCEPT ![p] = "closed"]
    /\ IF script[p] = "registered"
       THEN /\ dotNetReference' = None /\ isTicking' = FALSE
            /\ script' = [script EXCEPT ![p] = "none"]
       ELSE UNCHANGED <<dotNetReference, isTicking, script>>
    /\ UNCHANGED <<list_vars, frame, categories, filter, edits, mixed, lost>>

-----------------------------------------------------------------------------
(* The filters                                                             *)

Edit == edits < MaxEdits /\ edits' = edits + 1

\* A field is bound: the next page is asked with the new value at once, although
\* the list still holds the products of the old one.
Type(p) == \E f \in Filters \ {filter[p]} :
    /\ life[p] = "open" /\ Edit
    /\ filter' = [filter EXCEPT ![p] = f]
    /\ mixed' = [mixed EXCEPT ![p] = @ \/ shown[p] # <<>> \/ isLoading[p]]
    /\ UNCHANGED <<script_vars, list_vars, life, categories, script, lost>>

\* Mutant: applying the filters does not look at isLoading.
RestartAnyway(p) ==
    /\ shown' = [shown EXCEPT ![p] = <<>>]
    /\ hasMore' = [hasMore EXCEPT ![p] = TRUE]
    /\ mixed' = [mixed EXCEPT ![p] = isLoading[p]]
    /\ isLoading' = [isLoading EXCEPT ![p] = TRUE]
    /\ calls' = calls \cup {[page |-> p, by |-> "click", index |-> 0, filter |-> filter'[p]]}

\* products.Clear(), pageIndex = 0, hasMore = true, LoadNextPageAsync(), which
\* returns at once while another load is under way.
Restart(p) ==
    /\ shown' = [shown EXCEPT ![p] = <<>>]
    /\ hasMore' = [hasMore EXCEPT ![p] = TRUE]
    /\ mixed' = [mixed EXCEPT ![p] = isLoading[p]]
    /\ IF isLoading[p] THEN UNCHANGED <<isLoading, calls>>
       ELSE /\ isLoading' = [isLoading EXCEPT ![p] = TRUE]
            /\ calls' = calls \cup {[page |-> p, by |-> "click", index |-> 0,
                                     filter |-> filter'[p]]}

ApplyFilters(p) ==
    /\ life[p] = "open" /\ Edit
    /\ UNCHANGED filter
    /\ Restart(p)
    /\ UNCHANGED <<script_vars, life, categories, script, lost>>

ClearFilters(p) ==
    /\ life[p] = "open" /\ Edit
    /\ filter' = [filter EXCEPT ![p] = NoFilter]
    /\ Restart(p)
    /\ UNCHANGED <<script_vars, life, categories, script, lost>>

-----------------------------------------------------------------------------
(* scrollPagination.js                                                     *)

\* onScroll: nobody registered, or a frame is pending.
OnScroll(f) ==
    /\ dotNetReference # None /\ ~isTicking
    /\ frame[f] = None
    /\ isTicking' = TRUE
    /\ frame' = [frame EXCEPT ![f] = [at |-> "scheduled", page |-> None]]
    /\ UNCHANGED <<list_vars, dotNetReference, life, categories, script, filter, edits,
                   mixed, lost>>

Scheduled(f) == frame[f] # None /\ frame[f].at = "scheduled"

\* The end of the list is further than 360 pixels away.
NotYetThere(f) ==
    /\ Scheduled(f)
    /\ frame' = [frame EXCEPT ![f] = None]
    /\ isTicking' = FALSE
    /\ UNCHANGED <<list_vars, dotNetReference, life, categories, script, filter, edits,
                   mixed, lost>>

\* The page was unregistered since the scroll: null.invokeMethodAsync throws.
NobodyThere(f) ==
    /\ Scheduled(f) /\ dotNetReference = None
    /\ frame' = [frame EXCEPT ![f] = None]
    /\ UNCHANGED <<list_vars, dotNetReference, isTicking, life, categories, script, filter,
                   edits, mixed, lost>>

\* LoadMoreOnScroll of whoever is registered now.
AtTheEnd(f) ==
    LET p == dotNetReference IN
    /\ Scheduled(f) /\ p # None
    /\ frame' = [frame EXCEPT ![f] = [at |-> IF Refuses(p) THEN "answered" ELSE "waiting",
                                      page |-> p]]
    /\ LoadNextPage(p, f)
    /\ UNCHANGED <<dotNetReference, isTicking, life, categories, script, filter, shown,
                   hasMore, edits, mixed, lost>>

\* The await returns, whoever is registered by now.
Answered(f) ==
    /\ frame[f] # None /\ frame[f].at = "answered"
    /\ frame' = [frame EXCEPT ![f] = None]
    /\ isTicking' = FALSE
    /\ UNCHANGED <<list_vars, dotNetReference, life, categories, script, filter, edits,
                   mixed, lost>>

-----------------------------------------------------------------------------
Browser(p) ==
    \/ Open(p) \/ CategoriesArrive(p) \/ CategoriesFail(p)
    \/ Register(p) \/ ImportFails(p) \/ Close(p)
    \/ Type(p) \/ ApplyFilters(p) \/ ClearFilters(p)

Script(f) ==
    \/ OnScroll(f) \/ NotYetThere(f) \/ NobodyThere(f) \/ AtTheEnd(f) \/ Answered(f)

Next ==
    \/ \E p \in Pages : Browser(p)
    \/ \E f \in Frames : Script(f)
    \/ \E k \in calls : Arrive(k) \/ Fail(k)

Spec == Init /\ [][Next]_vars

\* What is awaited comes; and a reader who keeps scrolling, and reaches the end
\* of the list again and again.
Fairness ==
    /\ \A p \in Pages : WF_vars(CategoriesArrive(p)) /\ WF_vars(Register(p))
    /\ WF_vars(\E k \in calls : Arrive(k))
    /\ \A f \in Frames : WF_vars(Answered(f)) /\ WF_vars(NobodyThere(f))
    /\ WF_vars(\E f \in Frames : OnScroll(f))
    /\ SF_vars(\E f \in Frames : AtTheEnd(f))

FairSpec == Spec /\ Fairness

-----------------------------------------------------------------------------
(* Properties                                                              *)

\* The script calls the page that is open and never one that was disposed, however
\* the import, the frames and the navigation interleave.
ReferenceIsAlive ==
    \A p \in Pages : (dotNetReference = p) <=> (life[p] = "open" /\ script[p] = "registered")

\* A page never loads twice at a time, although isTicking does not exclude it: a
\* frame of the page before may release the throttle.
OneLoadAtATime ==
    \A k, l \in calls : k.page = l.page => k = l

\* isTicking is held by a frame that will release it, unless a load failed.
TickIsOwed ==
    isTicking => dotNetReference # None
                 /\ (lost[dotNetReference] \/ \E f \in Frames : frame[f] # None)

\* As long as nobody changes the filter under the list, it holds the first pages of
\* the filter, in order, none twice, and "No more products." is true.
ShownInOrder ==
    \A p \in Pages : ~mixed[p] =>
        /\ \A i \in 1 .. Len(shown[p]) : shown[p][i] = <<filter[p], i - 1>>
        /\ ~hasMore[p] => Len(shown[p]) = FullPages[filter[p]] + 1

\* A failed request is for good: isLoading stays and no later scroll, search or
\* clear loads a product of this visit.
Stuck(p) == isLoading[p] /\ \A k \in calls : k.page # p

FailureIsForGood ==
    [][\A p \in Pages : Stuck(p) => Stuck(p)' /\ shown'[p] \in {shown[p], <<>>}]_vars

\* A reader who keeps scrolling sees every product.
ReaderSeesEverything ==
    \A p \in Pages : <>[](life[p] = "open" /\ ~mixed[p] /\ ~lost[p]) => <>(~hasMore[p])
=============================================================================
