-------------------------- MODULE UnobtrusiveAdapters --------------------------
(***************************************************************************)
(* accounts.management.web and accounts.login.web: parseElement of         *)
(* jquery.validate.unobtrusive.js.  The adapters, in the order in which    *)
(* they were registered, turn the data-val-* attributes of an element into *)
(* the rules and the messages that its form keeps under the element's      *)
(* name.  An adapter may set a rule that an earlier one has set; a second  *)
(* element of the same name, or a second parse, starts from nothing.       *)
(***************************************************************************)
EXTENDS Naturals, Sequences

CONSTANTS Elements,         \* [name, checkbox, message, attrs]; message: adapter -> text,
                            \* attrs: <<adapter, parameter>> -> value
          Names,            \* names of fields, as sequences: <<"Form", "Password">>
          Custom,           \* adapters the application registers after the script's own
          MethodExtension,  \* additional-methods.js is loaded
          Candidates,       \* what a reader enters: [text, len, marks, fits, same]
          Texts, Number,    \* texts, in the order of strings; what Number() makes of each
          Undefined, Empty, NaN

VARIABLES element,          \* the element that was parsed last, or is being parsed
          there,            \* the names of the form's fields
          next,             \* the adapter whose turn it is, 0 between two parses
          rules, messages   \* the form's entries under the element's name

vars == <<element, there, next, rules, messages>>

ASSUME ElementsAssumption == Undefined \notin Elements /\ MethodExtension \in BOOLEAN
ASSUME CustomAssumption == Custom \in Seq({Custom[i] : i \in DOMAIN Custom})

ASSUME TextsAssumption == \A i \in DOMAIN Texts : Texts[i] \in DOMAIN Number

Truthy(v) == v \notin {Undefined, Empty}
Or(v, default) == IF Truthy(v) THEN v ELSE default

-----------------------------------------------------------------------------
(* Registration.  params: the parameters that are fetched; read: the ones  *)
(* the adapter looks at; rule: the rules it may set.                       *)

Adapter(name, kind, params, read, rule) ==
    [name |-> name, kind |-> kind, params |-> params, read |-> read, rule |-> rule]

AddBool(name, ruleName) == Adapter(name, "bool", <<>>, <<>>, <<Or(ruleName, name)>>)

\* The documented defaults are fetched; the adapter reads min and max by these names.
AddMinMax(name, minRule, maxRule, minMaxRule, minAttribute, maxAttribute) ==
    Adapter(name, "minmax", <<Or(minAttribute, "min"), Or(maxAttribute, "max")>>,
            <<"min", "max">>, <<minRule, maxRule, minMaxRule>>)

AddSingleVal(name, attribute, ruleName) ==
    Adapter(name, "single", <<Or(attribute, "val")>>, <<attribute>>, <<Or(ruleName, name)>>)

Add(name, params, rule) == Adapter(name, name, params, params, rule)

Extensions ==
    IF MethodExtension
    THEN <<AddSingleVal("accept", "mimtype", Undefined),
           AddSingleVal("extension", "extension", Undefined)>>
    ELSE <<AddSingleVal("extension", "extension", "accept")>>

BuiltIn ==
    <<AddSingleVal("regex", "pattern", Undefined),
      AddBool("creditcard", Undefined), AddBool("date", Undefined),
      AddBool("digits", Undefined), AddBool("email", Undefined),
      AddBool("number", Undefined), AddBool("url", Undefined),
      AddMinMax("length", "minlength", "maxlength", "rangelength", Undefined, Undefined),
      AddMinMax("range", "min", "max", "range", Undefined, Undefined),
      AddMinMax("minlength", "minlength", Undefined, Undefined, Undefined, Undefined),
      AddMinMax("maxlength", "minlength", "maxlength", Undefined, Undefined, Undefined),
      Add("equalto", <<"other">>, <<"equalTo">>), Add("required", <<>>, <<"required">>),
      Add("remote", <<"url", "type", "additionalfields">>, <<"remote">>),
      Add("password", <<"min", "nonalphamin", "regex">>, <<"minlength", "nonalphamin", "regex">>),
      AddSingleVal("fileextensions", "extensions", "extension")>>

Adapters == Extensions \o BuiltIn \o Custom

-----------------------------------------------------------------------------
(* What one adapter sets: the rules, each with the sequence of its values  *)

Declares(a, e) == a.name \in DOMAIN e.message

\* paramValues, for the parameters that are fetched.
Param(a, e, p) ==
    IF (\E i \in DOMAIN a.params : a.params[i] = p) /\ <<a.name, p>> \in DOMAIN e.attrs
    THEN e.attrs[<<a.name, p>>] ELSE Undefined

\* getModelPrefix and appendModelPrefix: "*.x" is x beside the element.
FullName(value, name) ==
    IF value[1] = "*" THEN SubSeq(name, 1, Len(name) - 1) \o Tail(value) ELSE value

Only(rule, value) == [r \in {rule} |-> value]
Nothing == [r \in {} |-> Undefined]

\* Mutant: a bound of 0 is none.
MinMaxNonzero(a, min, max) ==
    LET Some(v) == Truthy(v) /\ Number[v] # 0 IN
    IF Some(min) /\ Some(max) THEN Only(a.rule[3], <<min, max>>)
    ELSE IF Some(min) THEN Only(a.rule[1], <<min>>)
    ELSE IF Some(max) THEN Only(a.rule[2], <<max>>) ELSE Nothing

MinMax(a, min, max) ==
    IF Truthy(min) /\ Truthy(max) THEN Only(a.rule[3], <<min, max>>)
    ELSE IF Truthy(min) THEN Only(a.rule[1], <<min>>)
    ELSE IF Truthy(max) THEN Only(a.rule[2], <<max>>) ELSE Nothing

\* The field that equalto names, as the form is when it is parsed.
Other(a, e) ==
    LET fullOtherName == FullName(Param(a, e, "other"), e.name) IN
    IF fullOtherName \in there THEN fullOtherName ELSE Undefined

\* The fields whose values a remote rule sends.
Sent(a, e) ==
    LET additional == Or(Param(a, e, "additionalfields"), <<e.name>>) IN
    {FullName(additional[i], e.name) : i \in DOMAIN additional}

\* The value of a remote rule: an object, whether or not there is a url in it.
Asked(a, e) == [url |-> Param(a, e, "url"), data |-> Sent(a, e)]

\* Mutant: a checkbox has to be ticked.
RequiredOfAll(e) == Only("required", <<>>)

\* Mandatory is what the validator makes of required for a checkbox.
Required(e) == IF e.checkbox THEN Nothing ELSE Only("required", <<>>)

Settings(a, e) ==
    CASE a.kind = "bool" -> Only(a.rule[1], <<>>)
      [] a.kind = "single" -> Only(a.rule[1], <<Param(a, e, a.read[1])>>)
      [] a.kind = "minmax" -> MinMax(a, Param(a, e, a.read[1]), Param(a, e, a.read[2]))
      [] a.kind = "equalto" -> Only("equalTo", <<Other(a, e)>>)
      [] a.kind = "required" -> Required(e)
      [] a.kind = "remote" -> Only("remote", <<Asked(a, e)>>)
      [] a.kind = "password" ->
           [r \in {a.rule[i] : i \in {j \in DOMAIN a.read : Truthy(Param(a, e, a.read[j]))}} |->
              <<Param(a, e, a.read[CHOOSE i \in DOMAIN a.rule : a.rule[i] = r])>>]
      [] OTHER -> Nothing

\* What the server renders: an attribute that is there has a value, a minimum length has
\* no maximum and a maximum length no minimum.  No text and no object is undefined.
ASSUME RenderedAssumption ==
    \A e \in Elements :
        /\ \A d \in DOMAIN e.attrs : e.attrs[d] # Undefined
        /\ <<"minlength", "max">> \notin DOMAIN e.attrs
        /\ <<"maxlength", "min">> \notin DOMAIN e.attrs
        /\ \A i \in DOMAIN Adapters :
              Adapters[i].kind = "remote" => Asked(Adapters[i], e) # Undefined
ASSUME TextAssumption ==
    \A text \in {"pattern", "mimtype", "extension", "accept", "extensions"} : Truthy(text)

-----------------------------------------------------------------------------
Init == element = Undefined /\ there \in SUBSET Names /\ next = 0
        /\ rules = Nothing /\ messages = Nothing

\* Mutant: only the rules start from nothing.
StartMessagesLeft(e) ==
    /\ next = 0 /\ e.name \in there
    /\ element' = e /\ next' = 1
    /\ rules' = Nothing
    /\ UNCHANGED <<there, messages>>

\* parseElement of an element of the form.
Start(e) ==
    /\ next = 0 /\ e.name \in there
    /\ element' = e /\ next' = 1
    /\ rules' = Nothing /\ messages' = Nothing
    /\ UNCHANGED there

Over(f, g) == [r \in DOMAIN f \cup DOMAIN g |-> IF r \in DOMAIN f THEN f[r] ELSE g[r]]

\* Mutant: a message that is there stays.
SetValidationValuesFirst(settings, message) ==
    /\ rules' = Over(settings, rules)
    /\ messages' = IF Truthy(message) THEN Over(messages, [r \in DOMAIN settings |-> message])
                   ELSE messages

\* setValidationValues of each rule: an empty message leaves the message that is there.
SetValidationValues(settings, message) ==
    /\ rules' = Over(settings, rules)
    /\ messages' = IF Truthy(message) THEN Over([r \in DOMAIN settings |-> message], messages)
                   ELSE messages

\* The next adapter: it adapts if the element has its attribute, be it empty.
Adapt ==
    /\ next \in DOMAIN Adapters /\ next' = next + 1
    /\ IF Declares(Adapters[next], element)
       THEN SetValidationValues(Settings(Adapters[next], element),
                                element.message[Adapters[next].name])
       ELSE UNCHANGED <<rules, messages>>
    /\ UNCHANGED <<element, there>>

\* Every parsed element has a rule, be it one that lets everything pass.
Finish ==
    /\ next = Len(Adapters) + 1 /\ next' = 0
    /\ rules' = Over(Only("__dummy__", <<>>), rules)
    /\ UNCHANGED <<element, there, messages>>

\* A script adds a field to the form, between two parses.
Insert(n) ==
    /\ next = 0 /\ n \notin there
    /\ there' = there \cup {n}
    /\ UNCHANGED <<element, next, rules, messages>>

Next == (\E e \in Elements : Start(e)) \/ Adapt \/ Finish \/ (\E n \in Names : Insert(n))

Spec == Init /\ [][Next]_vars

-----------------------------------------------------------------------------
(* What a rule lets pass.  A candidate is a text with its length, its      *)
(* number of non-alphanumeric characters (marks), the formats and patterns *)
(* that it fits, and the fields whose value it equals.                     *)

IsBlank(c) == c.len = 0

\* <= of JavaScript, of two numbers and of two strings.
Leq(x, y) == x # NaN /\ y # NaN /\ x <= y
TextLeq(x, y) == \E i, j \in DOMAIN Texts : i <= j /\ Texts[i] = x /\ Texts[j] = y

\* The rules for which there is a method: those of jquery.validate.js and of this script,
\* and the ones that the application, or additional-methods.js, registers.
Methods ==
    {"required", "remote", "email", "url", "date", "dateISO", "number", "digits", "minlength",
     "maxlength", "rangelength", "min", "max", "range", "step", "equalTo",
     "regex", "nonalphamin", "__dummy__"}
    \cup (IF MethodExtension THEN {"accept", "creditcard", "extension"} ELSE {})
    \cup {Custom[i].rule[1] : i \in DOMAIN Custom}

\* The validator copies its rules, and the ones that are undefined get lost.
InForce(value) == \A i \in DOMAIN value : value[i] # Undefined

\* A rule in force without a method makes check throw, unless one before it refuses: what
\* the form does is then no verdict on the value.
Checkable == \A r \in DOMAIN rules : InForce(rules[r]) => r \in Methods

\* The method nonalphamin: no match is no number, and blank has none.
Marked(c, min) == c.marks > 0 /\ Leq(Number[min], c.marks)

\* The methods that let blank pass.  normalizeRules makes numbers of the bounds of
\* minlength, maxlength, rangelength and range, and leaves those of min and max texts.
Fits(c, rule, value) ==
    CASE rule = "minlength" -> Leq(Number[value[1]], c.len)
      [] rule = "maxlength" -> Leq(c.len, Number[value[1]])
      [] rule = "rangelength" -> Leq(Number[value[1]], c.len) /\ Leq(c.len, Number[value[2]])
      [] rule = "min" -> TextLeq(value[1], c.text)
      [] rule = "max" -> TextLeq(c.text, value[1])
      [] rule = "range" -> /\ Leq(Number[value[1]], Number[c.text])
                           /\ Leq(Number[c.text], Number[value[2]])
      [] rule = "remote" \/ value = <<>> -> rule \in c.fits
      [] OTHER -> value[1] \in c.fits

Passes(c, rule, value) ==
    InForce(value) =>
        CASE rule = "required" -> ~IsBlank(c)
          [] rule = "equalTo" -> value[1] \in c.same
          [] rule = "nonalphamin" -> Marked(c, value[1])
          [] rule = "__dummy__" -> TRUE
          [] OTHER -> IsBlank(c) \/ Fits(c, rule, value)

Accepted(c) == \A r \in DOMAIN rules : Passes(c, r, rules[r])

-----------------------------------------------------------------------------
(* Properties                                                              *)

TypeOK ==
    /\ element \in Elements \cup {Undefined} /\ there \subseteq Names
    /\ next \in 0 .. Len(Adapters) + 1 /\ (next # 0 => element \in Elements)
    /\ DOMAIN messages \subseteq DOMAIN rules

Parsed == next = 0 /\ element # Undefined

\* A bound of 0 is one, an empty one is none.
Bound(v) == v # Undefined /\ v # Empty

WithinLengths(c, min, max) ==
    IsBlank(c) \/ /\ Bound(min) => Leq(Number[min], c.len)
                  /\ Bound(max) => Leq(c.len, Number[max])

\* Two ends are a range of numbers; one end alone is a bound of texts, and "10" is below "9".
WithinRange(c, min, max) ==
    \/ IsBlank(c)
    \/ /\ Bound(min) /\ Bound(max)
       /\ Leq(Number[min], Number[c.text]) /\ Leq(Number[c.text], Number[max])
    \/ /\ ~(Bound(min) /\ Bound(max))
       /\ Bound(min) => TextLeq(min, c.text)
       /\ Bound(max) => TextLeq(c.text, max)

\* What the attributes of an adapter demand, by the names under which it fetches them:
\* all but required, equalto and nonalphamin let blank pass.
Demands(a, e, c) ==
    CASE a.kind = "minmax" ->
           LET min == Param(a, e, a.params[1])
               max == Param(a, e, a.params[2])
           IN  IF a.name = "range" THEN WithinRange(c, min, max) ELSE WithinLengths(c, min, max)
      [] a.kind = "required" -> e.checkbox \/ ~IsBlank(c)
      [] a.kind = "equalto" -> FullName(Param(a, e, "other"), e.name) \in c.same
      [] a.kind = "single" ->
           LET v == Param(a, e, a.params[1]) IN v # Undefined => IsBlank(c) \/ v \in c.fits
      [] a.kind = "password" ->
           LET min == Param(a, e, "min")
               marks == Param(a, e, "nonalphamin")
               pattern == Param(a, e, "regex")
           IN  /\ WithinLengths(c, min, Undefined)
               /\ Bound(marks) => Marked(c, marks)
               /\ Bound(pattern) => IsBlank(c) \/ pattern \in c.fits
      [] OTHER -> IsBlank(c) \/ a.rule[1] \in c.fits

\* A rule in force was set for the element parsed last: a form that can be checked never
\* refuses what the attributes of this element allow, whatever was parsed under the name
\* before.
NoStricter ==
    Parsed /\ Checkable => \A c \in Candidates :
        (\A i \in DOMAIN Adapters :
            Declares(Adapters[i], element) => Demands(Adapters[i], element, c)) => Accepted(c)

\* What the attributes demand is enforced, bounds of 0 included, unless an adapter that
\* comes later sets the same rule, the field to compare with was not in the form when it
\* was parsed, or a rule without a method keeps the form from being checked at all.
Shadowed(i) ==
    \E j \in DOMAIN Adapters : /\ j > i /\ Declares(Adapters[j], element)
        /\ DOMAIN Settings(Adapters[j], element) \cap DOMAIN Settings(Adapters[i], element) # {}
NotFound(i) == Adapters[i].kind = "equalto" /\ rules["equalTo"] = <<Undefined>>
EnforcedUnlessShadowed ==
    Parsed /\ Checkable => \A c \in Candidates, i \in DOMAIN Adapters :
        Accepted(c) /\ Declares(Adapters[i], element) =>
            Demands(Adapters[i], element, c) \/ Shadowed(i) \/ NotFound(i)

\* The adapter whose setting of a rule counts is the last one that sets it.
SetsRule(i, r) ==
    Declares(Adapters[i], element) /\ r \in DOMAIN Settings(Adapters[i], element)
LastToSet(r) == {i \in DOMAIN Adapters : /\ SetsRule(i, r)
                    /\ \A j \in DOMAIN Adapters : j > i => ~SetsRule(j, r)}

\* The message a reader gets for a rule is the one of the adapter that set it; if that
\* one is empty, it may be the message of an adapter that was overruled.
MessagesFitRules ==
    Parsed => \A r \in DOMAIN messages : \A i \in LastToSet(r) :
        Truthy(element.message[Adapters[i].name]) => messages[r] = element.message[Adapters[i].name]
=============================================================================
