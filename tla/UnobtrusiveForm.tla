---------------------------- MODULE UnobtrusiveForm ----------------------------
(***************************************************************************)
(* accounts.login.web and accounts.management.web: client-side validation  *)
(* of one form.  jquery.validate.unobtrusive.js turns the data-val-*       *)
(* attributes that the server renders into the rules of a jQuery Validate  *)
(* validator, puts its verdicts into the data-valmsg-* containers and      *)
(* clears them when the form is reset.  The browser runs one handler at a  *)
(* time: a handler is one action, and what interleaves is the reader, the  *)
(* scripts that add fields, and the answers of the remote rules.           *)
(* The validator's part (jquery.validate.js) is modelled as far as these   *)
(* handlers see it; the page has no jQuery Form plugin ($.fn.resetForm).   *)
(***************************************************************************)
EXTENDS Naturals, FiniteSets

CONSTANTS Fields, FromStart, \* the fields of the form; those the server rendered
          Declared,          \* Declared[f]: its data-val-* attributes: "required", "format", "remote"
          Additional,        \* Additional[f]: data-val-remote-additionalfields of f
          Replaced,          \* the fields whose container has data-valmsg-replace=true
          Values, Blank,     \* what a field can hold
          Formed,            \* the values that pass the format rule (email, length, ...)
          MaxChanges,        \* BOUND: how often the reader changes a value or resets
          None

Rules == {"required", "format", "remote"}

ASSUME FieldsAssumption == IsFiniteSet(Fields) /\ FromStart \subseteq Fields
ASSUME DeclaredAssumption ==
    /\ Declared \in [Fields -> (SUBSET Rules) \ {{}}] /\ Additional \in [Fields -> SUBSET Fields]
    /\ Blank \in Values /\ Formed \subseteq Values
ASSUME ChangesAssumption == MaxChanges \in Nat

VARIABLES present,         \* the fields in the document
          parsed,          \* info.options.rules: the fields parsed so far
          covered,         \* history: the fields a call of parse covered
          attached,        \* the form has its validator, and onReset its event
          enforced,        \* validator.settings.rules: the copy made when it was created
          value,
          submitted,       \* validator.submitted: fields a check complained about
          invalid,         \* validator.invalid: the names it holds, whatever their value
          errors,          \* validator.errorMap: field -> the rule that failed
          previous,        \* the "previousValue" of the remote rule: old data and its verdict
          request,         \* the remote request of a field under way, or None
          pending, pendingRequest,
          formSubmitted,   \* a submit waits for pending requests
          container,       \* container[f]: its class and the message in it
          summary,         \* the summary's class and messages
          gone,            \* the form was submitted and the page is left
          skipped,         \* history: it was submitted without a check
          changes, approved, lost \* bound; history: data the server approved, failed requests

dom_vars == <<present, parsed, covered, attached, enforced>>
remote_vars == <<previous, request, pending, pendingRequest, formSubmitted>>
shown_vars == <<submitted, invalid, errors, container, summary>>
vars == <<present, parsed, covered, attached, enforced, value, submitted, invalid, errors,
          previous, request, pending, pendingRequest, formSubmitted, container, summary, gone,
          skipped, changes, approved, lost>>

\* $.param of the value and of the additional fields, read when the rule runs.
Data(val, f) == [g \in {f} \cup Additional[f] |-> val[g]]
AllData == UNION {[S -> Values] : S \in SUBSET Fields}

Request == [data : AllData, current : BOOLEAN]

ASSUME NoneAssumption == None \notin AllData \cup Request

\* errorList is empty.
NoErrors == [f \in {} |-> None]
Valid == DOMAIN errors = {}

Fresh == [old |-> None, valid |-> TRUE]

TypeOK ==
    /\ present \subseteq Fields /\ parsed \subseteq present /\ covered \subseteq parsed
    /\ attached \in BOOLEAN /\ enforced \subseteq parsed
    /\ value \in [Fields -> Values]
    /\ submitted \subseteq Fields /\ invalid \subseteq Fields
    /\ DOMAIN errors \subseteq enforced /\ \A f \in DOMAIN errors : errors[f] \in Rules
    /\ previous \in [Fields -> [old : {None} \cup AllData, valid : BOOLEAN]]
    /\ request \in [Fields -> {None} \cup Request]
    /\ pending \subseteq enforced /\ pendingRequest \in 0 .. Cardinality(Fields)
    /\ formSubmitted \in BOOLEAN
    /\ container \in [Fields -> [class : {"valid", "server", "error"},
                                 text : Rules \cup {"server", "none"}]]
    /\ summary \in [class : {"valid", "errors"}, list : SUBSET Rules]
    /\ gone \in BOOLEAN /\ skipped \in BOOLEAN /\ changes \in 0 .. MaxChanges
    /\ approved \in [Fields -> SUBSET AllData] /\ lost \subseteq Fields

\* A page as the server renders it: a field may come back with its error.
Init ==
    /\ present = FromStart
    /\ parsed = {} /\ covered = {} /\ attached = FALSE /\ enforced = {}
    /\ value = [f \in Fields |-> Blank]
    /\ submitted = {} /\ invalid = {} /\ errors = NoErrors
    /\ previous = [f \in Fields |-> Fresh] /\ request = [f \in Fields |-> None]
    /\ pending = {} /\ pendingRequest = 0 /\ formSubmitted = FALSE
    /\ \E rejected \in SUBSET FromStart :
         container = [f \in Fields |-> IF f \in rejected THEN [class |-> "server", text |-> "server"]
                                       ELSE [class |-> "valid", text |-> "none"]]
    /\ summary = [class |-> "valid", list |-> {}]
    /\ gone = FALSE /\ skipped = FALSE /\ changes = 0
    /\ approved = [f \in Fields |-> {}] /\ lost = {}

-----------------------------------------------------------------------------
(* Parsing                                                                 *)

\* Mutant: every field that is there gets an entry.
AttachPresent(rules) ==
    IF attached THEN UNCHANGED <<attached, enforced>>
    ELSE attached' = TRUE /\ enforced' = present

\* attachValidation: validate(options) copies the options once and returns the
\* validator that is there ever after; onReset is bound once.
Attach(rules) ==
    IF attached THEN UNCHANGED <<attached, enforced>>
    ELSE attached' = TRUE /\ enforced' = rules

\* parse(selector), S being the data-val=true fields below it.
Parse(S) ==
    /\ ~gone /\ S # {}
    /\ parsed' = parsed \cup S
    /\ covered' = covered \cup S
    /\ Attach(parsed')
    /\ UNCHANGED <<remote_vars, shown_vars, present, value, gone, skipped, changes, approved,
                   lost>>

\* DOM ready: parse(document).
Ready == ~attached /\ Parse(present)

\* A script adds a fragment with a field and, if it likes, parses it.
Insert(f) ==
    /\ ~gone /\ f \notin present
    /\ present' = present \cup {f}
    /\ UNCHANGED <<remote_vars, shown_vars, parsed, covered, attached, enforced, value, gone,
                   skipped, changes, approved, lost>>

\* parseElement(element, skipAttach).
ParseElement(f, skipAttach) ==
    /\ ~gone
    /\ parsed' = parsed \cup {f}
    /\ IF skipAttach THEN UNCHANGED <<attached, enforced>> ELSE Attach(parsed')
    /\ UNCHANGED <<remote_vars, shown_vars, present, covered, value, gone, skipped, changes,
                   approved, lost>>

-----------------------------------------------------------------------------
(* Checking                                                                *)

Missing(val, f) == "required" \in Declared[f] /\ val[f] = Blank
Malformed(val, f) == "format" \in Declared[f] /\ val[f] \notin Formed \cup {Blank}
Asks(val, f) == "remote" \in Declared[f] /\ val[f] # Blank

\* The first rule that fails: required comes first and remote last.  A remote rule
\* answers from the last data it sent, answered or not.
Verdict(prev, val, f) ==
    IF f \notin enforced THEN "ok"
    ELSE IF Missing(val, f) THEN "required"
    ELSE IF Malformed(val, f) THEN "format"
    ELSE IF ~Asks(val, f) THEN "ok"
    ELSE IF prev[f].old # Data(val, f) THEN "pending"
    ELSE IF prev[f].valid THEN "ok" ELSE "remote"

\* onError: the class, and the message if the container is replaced.
OnError(f, rule) ==
    [class |-> "error", text |-> IF f \in Replaced THEN rule ELSE container[f].text]

\* onSuccess: the class, and no message if the container is replaced.
OnSuccess(f) ==
    [class |-> "valid", text |-> IF f \in Replaced THEN "none" ELSE container[f].text]

\* Mutant: every request counts.
StartRequestsEach(asking, pend, count) ==
    /\ pending' = pend \cup asking
    /\ pendingRequest' = count + Cardinality(asking)

\* startRequest: a field counts once, however often its request is sent again.
StartRequests(asking, pend, count) ==
    /\ pending' = pend \cup asking
    /\ pendingRequest' = count + Cardinality(asking \ pend)

\* check(element) of the fields S with the values val, formatAndAdd and showErrors: the
\* errors, which submitted remembers, the containers, and the remote requests, each of
\* which aborts the one before.
Check(S, val, prev, req, pend, count) ==
    LET verdict == [f \in S |-> Verdict(prev, val, f)]
        failing == {f \in S : verdict[f] \in Rules}
        asking == {f \in S : verdict[f] = "pending"}
    IN
    /\ errors' = [f \in failing |-> verdict[f]]
    /\ submitted' = submitted \cup failing
    /\ container' = [f \in Fields |->
           IF f \in failing THEN OnError(f, verdict[f])
           ELSE IF f \in (S \cap enforced) \ asking THEN OnSuccess(f) ELSE container[f]]
    /\ previous' = [f \in Fields |->
           IF f \in asking THEN [prev[f] EXCEPT !.old = Data(val, f)] ELSE prev[f]]
    /\ request' = [f \in Fields |->
           IF f \in asking THEN [data |-> Data(val, f), current |-> TRUE] ELSE req[f]]
    /\ StartRequests(asking, pend, count)

\* onErrors ("invalid-form"): the summary lists the errors of a refused form.
OnErrors(failed) ==
    summary' = IF DOMAIN failed = {} THEN summary
               ELSE [class |-> "errors", list |-> {failed[f] : f \in DOMAIN failed}]

\* validator.form()
Form(prev, req, pend, count) ==
    /\ Check(enforced, value, prev, req, pend, count)
    /\ invalid' = DOMAIN errors'
    /\ OnErrors(errors')

\* validator.element(f) with the values val.
Element(f, val) ==
    /\ Check({f}, val, previous, request, pending, pendingRequest)
    /\ invalid' = invalid \cup {f}
    /\ UNCHANGED <<summary, formSubmitted>>

-----------------------------------------------------------------------------
(* The reader                                                              *)

Touch == ~gone /\ changes < MaxChanges /\ changes' = changes + 1

\* A value pasted, or filled in by the browser: no event the validator listens to.
Fill(f) == \E v \in Values \ {value[f]} :
    /\ f \in present /\ Touch
    /\ value' = [value EXCEPT ![f] = v]
    /\ UNCHANGED <<dom_vars, remote_vars, shown_vars, gone, skipped, approved, lost>>

\* onkeyup: only a field that was checked by itself or complained about is checked while
\* it is typed.
Type(f) == \E v \in Values \ {value[f]} :
    /\ f \in present /\ Touch
    /\ value' = [value EXCEPT ![f] = v]
    /\ IF attached /\ f \in submitted \cup invalid THEN Element(f, value')
       ELSE UNCHANGED <<remote_vars, shown_vars>>
    /\ UNCHANGED <<dom_vars, gone, skipped, approved, lost>>

\* onfocusout: a blank field that was never complained about is left in peace.
Leave(f) ==
    /\ ~gone /\ attached /\ f \in present
    /\ f \in submitted \/ value[f] # Blank
    /\ Element(f, value)
    /\ UNCHANGED <<dom_vars, value, gone, skipped, changes, approved, lost>>

\* Mutant: a valid form goes although a remote rule has not answered.
SubmitAtOnce ==
    /\ ~gone
    /\ \/ /\ attached /\ Form(previous, request, pending, pendingRequest)
          /\ gone' = Valid'
          /\ UNCHANGED <<formSubmitted, skipped>>
       \/ /\ gone' = TRUE /\ skipped' = TRUE
          /\ UNCHANGED <<remote_vars, shown_vars>>
    /\ UNCHANGED <<dom_vars, value, changes, approved, lost>>

\* A submit button.  A valid form waits for the requests under way.  Nothing is checked
\* before there is a validator, nor after a button of class cancel or with formnovalidate.
Submit ==
    /\ ~gone
    /\ \/ /\ attached /\ Form(previous, request, pending, pendingRequest)
          /\ gone' = (Valid' /\ pendingRequest' = 0)
          /\ formSubmitted' = (formSubmitted \/ (Valid' /\ pendingRequest' > 0))
          /\ UNCHANGED skipped
       \/ /\ gone' = TRUE /\ skipped' = TRUE
          /\ UNCHANGED <<remote_vars, shown_vars>>
    /\ UNCHANGED <<dom_vars, value, changes, approved, lost>>

\* Mutant: the containers keep their class.
ResetContainersLeft == container

\* The class goes, the text stays in the container.
ResetContainers ==
    [f \in Fields |-> IF container[f].class # "valid" THEN [container[f] EXCEPT !.class = "valid"]
                      ELSE container[f]]

\* The reset event: onReset and resetForm, then the browser restores the values.
\* Requests under way, and a submit that waits for them, are left alone; their
\* previousValue is not the field's any more.
Reset ==
    /\ Touch
    /\ value' = [f \in Fields |-> Blank]
    /\ IF attached
       THEN /\ invalid' = {} /\ submitted' = {} /\ errors' = NoErrors
            /\ previous' = [f \in Fields |-> IF f \in enforced THEN Fresh ELSE previous[f]]
            /\ request' = [f \in Fields |-> IF request[f] = None THEN None
                                            ELSE [request[f] EXCEPT !.current = FALSE]]
            /\ container' = ResetContainers
            /\ summary' = [summary EXCEPT !.class = "valid"]
            /\ UNCHANGED <<pending, pendingRequest, formSubmitted>>
       ELSE UNCHANGED <<remote_vars, shown_vars>>
    /\ UNCHANGED <<dom_vars, gone, skipped, approved, lost>>

-----------------------------------------------------------------------------
(* The answers of the remote rules                                         *)

Answered(f, valid) ==
    IF request[f].current THEN [previous EXCEPT ![f].valid = valid] ELSE previous

\* stopRequest
Left == IF pendingRequest = 0 THEN 0 ELSE pendingRequest - 1

\* "true": the field is shown valid, the other errors are forgotten, and a submit
\* that waited for the last request is tried again.
Approve(f) ==
    /\ ~gone /\ request[f] # None
    /\ approved' = [approved EXCEPT ![f] = @ \cup {request[f].data}]
    /\ LET prev == Answered(f, TRUE)
           req == [request EXCEPT ![f] = None]
       IN
       IF formSubmitted /\ Left = 0
       THEN /\ Form(prev, req, pending \ {f}, Left)
            /\ gone' = (Valid' /\ pendingRequest' = 0)
            /\ formSubmitted' = ~gone'
       ELSE /\ previous' = prev /\ request' = req
            /\ pending' = pending \ {f} /\ pendingRequest' = Left
            /\ errors' = NoErrors /\ invalid' = invalid \cup {f}
            /\ container' = [container EXCEPT ![f] = OnSuccess(f)]
            /\ UNCHANGED <<submitted, summary, formSubmitted, gone>>
    /\ UNCHANGED <<dom_vars, value, skipped, changes, lost>>

\* A message: it joins the errors of the last check, and a submit that waited for
\* the last request is refused.
Reject(f) ==
    /\ ~gone /\ request[f] # None
    /\ approved' = [approved EXCEPT ![f] = @ \ {request[f].data}]
    /\ previous' = Answered(f, FALSE)
    /\ request' = [request EXCEPT ![f] = None]
    /\ pending' = pending \ {f} /\ pendingRequest' = Left
    /\ errors' = [g \in DOMAIN errors \cup {f} |-> IF g = f THEN "remote" ELSE errors[g]]
    /\ invalid' = invalid \cup {f}
    /\ container' = [g \in Fields |-> IF g \in DOMAIN errors' THEN OnError(g, errors'[g])
                                      ELSE container[g]]
    /\ IF formSubmitted /\ Left = 0 THEN OnErrors(errors') /\ formSubmitted' = FALSE
       ELSE UNCHANGED <<summary, formSubmitted>>
    /\ UNCHANGED <<dom_vars, value, submitted, gone, skipped, changes, lost>>

\* No answer: nobody handles the error, the field stays pending.
Lose(f) ==
    /\ ~gone /\ request[f] # None
    /\ request' = [request EXCEPT ![f] = None]
    /\ lost' = lost \cup {f}
    /\ UNCHANGED <<dom_vars, shown_vars, value, previous, pending, pendingRequest,
                   formSubmitted, gone, skipped, changes, approved>>

-----------------------------------------------------------------------------
Next ==
    \/ Ready \/ Submit \/ Reset
    \/ \E S \in SUBSET present : Parse(S)
    \/ \E f \in Fields : Insert(f) \/ Fill(f) \/ Type(f) \/ Leave(f)
    \/ \E f \in present, skipAttach \in BOOLEAN : ParseElement(f, skipAttach)
    \/ \E f \in Fields : Approve(f) \/ Reject(f) \/ Lose(f)

Spec == Init /\ [][Next]_vars

\* The document gets ready and the server answers.
Fairness == WF_vars(Ready) /\ \A f \in Fields : WF_vars(Approve(f) \/ Reject(f))

FairSpec == Spec /\ Fairness

-----------------------------------------------------------------------------
(* Properties                                                              *)

\* A submit that is checked sends nothing unchecked: each rule in force holds of the values
\* that are sent, and a remote rule was approved by the server for exactly these
\* data, whatever was typed, aborted, reset or answered late meanwhile.
NothingUnchecked ==
    gone /\ ~skipped => \A f \in enforced :
        /\ "required" \in Declared[f] => value[f] # Blank
        /\ "format" \in Declared[f] => value[f] \in Formed \cup {Blank}
        /\ "remote" \in Declared[f] => value[f] = Blank \/ Data(value, f) \in approved[f]

\* The count a submit waits for is the number of the fields that wait, and each of
\* them has its request under way, unless one of its requests failed.
PendingIsCounted ==
    /\ pendingRequest = Cardinality(pending)
    /\ \A f \in Fields : request[f] # None => f \in pending
    /\ \A f \in pending : request[f] # None \/ f \in lost

\* An error that the reader sees is checked again at the next key.  One that the page
\* found itself is in submitted until the form is reset.  One that only the server
\* reported is in invalid, which a submit forgets, but then its field asks again and
\* waits for the answer.
ErrorsAreRechecked ==
    \A f \in Fields : container[f].class = "error" =>
        \/ f \in submitted
        \/ f \in invalid \cup pending /\ (f \in Replaced => container[f].text = "remote")

\* A submit that waits is answered: the form goes, or the summary says why not,
\* unless a request got no answer.
Waiting == formSubmitted /\ pending # {}
SubmitIsAnswered == Waiting ~> (gone \/ summary.class = "errors" \/ lost # {})

\* What parse says of itself (not so: a validator that is there keeps its rules).
ParseEnables == covered \subseteq enforced
=============================================================================
