----------------------- MODULE UnobtrusiveAdaptersProofs -----------------------
(* Proofs about UnobtrusiveAdapters, for every list of adapters, every      *)
(* element and every mixture of attributes.                                *)
EXTENDS UnobtrusiveAdapters, TLAPS

\* Of the adapters before n, the last that sets a rule gave it its message.
FitUpTo(n) ==
    \A i \in DOMAIN Adapters : \A r \in DOMAIN Settings(Adapters[i], element) :
        /\ i < n /\ Declares(Adapters[i], element)
        /\ Truthy(element.message[Adapters[i].name])
        /\ \A j \in DOMAIN Adapters : i < j /\ j < n => ~SetsRule(j, r)
        => r \in DOMAIN messages /\ messages[r] = element.message[Adapters[i].name]

IInv ==
    /\ TypeOK
    /\ next # 0 => FitUpTo(next)
    /\ Parsed => FitUpTo(Len(Adapters) + 1)

-----------------------------------------------------------------------------
LEMMA AdaptersSequence ==
    Len(Adapters) \in Nat /\ DOMAIN Adapters = 1 .. Len(Adapters)
  <1> DEFINE Of(s) == {s[i] : i \in DOMAIN s}
             All == Of(Extensions) \cup Of(BuiltIn) \cup Of(Custom)
  <1>1. Extensions \in Seq(Of(Extensions))
    BY DEF Extensions
  <1>2. BuiltIn \in Seq(Of(BuiltIn))
    BY DEF BuiltIn
  <1>3. Extensions \in Seq(All) /\ BuiltIn \in Seq(All) /\ Custom \in Seq(All)
    BY <1>1, <1>2, CustomAssumption
  <1> HIDE DEF All
  <1>4. Adapters \in Seq(All)
    BY <1>3 DEF Adapters
  <1>5. QED
    BY <1>4

\* Which rules an adapter sets does not depend on the fields of the form.
LEMMA RulesAreFixed ==
    ASSUME element' = element, NEW i \in DOMAIN Adapters
    PROVE  /\ DOMAIN Settings(Adapters[i], element)' = DOMAIN Settings(Adapters[i], element)
           /\ Declares(Adapters[i], element)' <=> Declares(Adapters[i], element)
  BY DEF Settings, Only, Nothing, Declares

LEMMA InitOK == Init => IInv
  <1> SUFFICES ASSUME Init PROVE IInv
    OBVIOUS
  <1>1. next = 0 /\ element = Undefined
    BY DEF Init
  <1>2. TypeOK
    BY AdaptersSequence DEF Init, TypeOK
  <1>3. QED
    BY <1>1, <1>2 DEF IInv, Parsed

\* An invariant of what was adapted so far stays one if neither the element nor the
\* messages change.
LEMMA FitStays ==
    ASSUME NEW n, FitUpTo(n), element' = element, messages' = messages
    PROVE  FitUpTo(n)'
  <1>1. ASSUME NEW i \in DOMAIN Adapters, NEW r
        PROVE  SetsRule(i, r)' <=> SetsRule(i, r)
    BY RulesAreFixed DEF SetsRule
  <1>2. QED
    BY <1>1, RulesAreFixed DEF FitUpTo

LEMMA NextOK == IInv /\ [Next]_vars => IInv'
  <1> SUFFICES ASSUME IInv, [Next]_vars PROVE IInv'
    OBVIOUS
  <1> USE AdaptersSequence
  <1>1. ASSUME NEW e \in Elements, Start(e)
        PROVE  IInv'
    <2>1. /\ element' = e /\ next' = 1 /\ there' = there
          /\ DOMAIN rules' = {} /\ DOMAIN messages' = {}
      BY <1>1 DEF Start, Nothing
    <2>2. TypeOK'
      BY <2>1 DEF IInv, TypeOK
    <2>3. FitUpTo(1)'
      BY DEF FitUpTo
    <2>4. QED
      BY <2>1, <2>2, <2>3 DEF IInv, Parsed
  <1>2. CASE Adapt
    <2> DEFINE a == Adapters[next]
               m == element.message[a.name]
               s == Settings(a, element)
    <2>1. /\ next \in DOMAIN Adapters /\ next' = next + 1 /\ element' = element /\ there' = there
          /\ IF Declares(a, element) THEN SetValidationValues(s, m) ELSE UNCHANGED <<rules, messages>>
      BY <1>2 DEF Adapt
    <2>2. next \in 1 .. Len(Adapters) /\ element \in Elements /\ FitUpTo(next)
      BY <2>1 DEF IInv, TypeOK
    <2>3. /\ DOMAIN messages \subseteq DOMAIN messages' /\ DOMAIN messages' \subseteq DOMAIN rules'
          /\ \A r \in DOMAIN messages : r \notin DOMAIN s => messages'[r] = messages[r]
          /\ ~Declares(a, element) => messages' = messages
          /\ Declares(a, element) /\ Truthy(m) =>
               \A r \in DOMAIN s : r \in DOMAIN messages' /\ messages'[r] = m
      <3>1. DOMAIN messages \subseteq DOMAIN rules
        BY DEF IInv, TypeOK
      <3>2. CASE ~Declares(a, element)
        BY <2>1, <3>1, <3>2
      <3>3. CASE Declares(a, element)
        <4> HIDE DEF a, m, s
        <4>1. /\ rules' = Over(s, rules)
              /\ messages' = IF Truthy(m) THEN Over([r \in DOMAIN s |-> m], messages) ELSE messages
          BY <2>1, <3>3 DEF SetValidationValues
        <4>2. QED
          BY <3>1, <3>3, <4>1 DEF Over
      <3>4. QED
        BY <3>2, <3>3
    <2>4. TypeOK'
      BY <2>1, <2>2, <2>3 DEF IInv, TypeOK
    <2>5. FitUpTo(next)'
      <3>1. ASSUME NEW i \in DOMAIN Adapters, NEW r \in DOMAIN Settings(Adapters[i], element),
                   i < next + 1, Declares(Adapters[i], element),
                   Truthy(element.message[Adapters[i].name]),
                   \A j \in DOMAIN Adapters : i < j /\ j < next + 1 => ~SetsRule(j, r)
            PROVE  r \in DOMAIN messages' /\ messages'[r] = element.message[Adapters[i].name]
        <4>1. CASE i = next
          BY <2>3, <3>1, <4>1
        <4>2. CASE i < next
          <5>1. r \in DOMAIN messages /\ messages[r] = element.message[Adapters[i].name]
            BY <2>2, <3>1, <4>2 DEF FitUpTo
          <5>2. ~SetsRule(next, r)
            BY <2>1, <2>2, <3>1, <4>2
          <5>3. Declares(a, element) => r \notin DOMAIN s
            BY <5>2 DEF SetsRule
          <5>4. QED
            BY <2>3, <5>1, <5>3
        <4>3. QED
          BY <2>2, <3>1, <4>1, <4>2
      <3>2. ASSUME NEW i \in DOMAIN Adapters, NEW r
            PROVE  SetsRule(i, r)' <=> SetsRule(i, r)
        BY <2>1, RulesAreFixed DEF SetsRule
      <3>3. QED
        BY <2>1, <3>1, <3>2, RulesAreFixed DEF FitUpTo
    <2>6. next' # 0
      BY <2>1, <2>2
    <2>7. QED
      BY <2>4, <2>5, <2>6 DEF IInv, Parsed
  <1>3. CASE Finish
    <2>1. /\ next = Len(Adapters) + 1 /\ next' = 0 /\ element' = element /\ there' = there
          /\ messages' = messages /\ DOMAIN rules \subseteq DOMAIN rules'
      BY <1>3 DEF Finish, Over
    <2>2. TypeOK'
      BY <2>1 DEF IInv, TypeOK
    <2>3. FitUpTo(Len(Adapters) + 1)
      BY <2>1 DEF IInv
    <2>4. FitUpTo(Len(Adapters) + 1)'
      BY <2>1, <2>3, FitStays
    <2>5. QED
      BY <2>1, <2>2, <2>4 DEF IInv
  <1>4. ASSUME NEW n \in Names, Insert(n)
        PROVE  IInv'
    <2>1. /\ next = 0 /\ there' = there \cup {n}
          /\ element' = element /\ next' = next /\ rules' = rules /\ messages' = messages
      BY <1>4 DEF Insert
    <2>2. TypeOK'
      BY <2>1 DEF IInv, TypeOK
    <2>3. Parsed' => FitUpTo(Len(Adapters) + 1)'
      BY <2>1, FitStays DEF IInv, Parsed
    <2>4. QED
      BY <2>1, <2>2, <2>3 DEF IInv
  <1>5. CASE UNCHANGED vars
    <2>1. /\ there' = there /\ element' = element /\ next' = next
          /\ rules' = rules /\ messages' = messages
      BY <1>5 DEF vars
    <2>2. TypeOK'
      BY <2>1 DEF IInv, TypeOK
    <2>3. Parsed' => FitUpTo(Len(Adapters) + 1)'
      BY <2>1, FitStays DEF IInv, Parsed
    <2>4. next' # 0 => FitUpTo(next)'
      <3>1. SUFFICES ASSUME next # 0 PROVE FitUpTo(next)'
        BY <2>1
      <3>2. FitUpTo(next)
        BY <3>1 DEF IInv
      <3>3. QED
        BY <2>1, <3>2, RulesAreFixed DEF FitUpTo, SetsRule
    <2>5. QED
      BY <2>2, <2>3, <2>4 DEF IInv
  <1>6. QED
    BY <1>1, <1>2, <1>3, <1>4, <1>5 DEF Next

-----------------------------------------------------------------------------
THEOREM Invariance == Spec => []IInv
  <1>1. Init => IInv
    BY InitOK
  <1>2. IInv /\ [Next]_vars => IInv'
    BY NextOK
  <1>3. QED
    BY <1>1, <1>2, PTL DEF Spec

\* A message is never kept for a rule that is not there.
THEOREM TypeCorrect == Spec => []TypeOK
  <1>1. IInv => TypeOK
    BY DEF IInv
  <1>2. QED
    BY <1>1, Invariance, PTL

\* Whichever adapters share a rule, in whichever order they were registered, the reader
\* gets the message of the one whose setting counts.
THEOREM MessagesFit == Spec => []MessagesFitRules
  <1>1. IInv => MessagesFitRules
    <2> SUFFICES ASSUME IInv, Parsed, NEW r \in DOMAIN messages, NEW i \in LastToSet(r),
                        Truthy(element.message[Adapters[i].name])
                 PROVE  messages[r] = element.message[Adapters[i].name]
      BY DEF MessagesFitRules
    <2>1. FitUpTo(Len(Adapters) + 1)
      BY DEF IInv
    <2>2. /\ i \in DOMAIN Adapters /\ SetsRule(i, r)
          /\ \A j \in DOMAIN Adapters : j > i => ~SetsRule(j, r)
      BY DEF LastToSet
    <2>3. i < Len(Adapters) + 1
      BY <2>2, AdaptersSequence
    <2>4. QED
      BY <2>1, <2>2, <2>3, AdaptersSequence DEF FitUpTo, SetsRule
  <1>2. QED
    BY <1>1, Invariance, PTL

-----------------------------------------------------------------------------
(* What the rules in force stand for                                       *)

\* Rule r is in force with the value adapter i gave it; the field that equalto found
\* was looked up when the element was parsed.
IsSetting(i, r) ==
    LET a == Adapters[i] IN
    rules[r] \in IF a.kind = "equalto"
                 THEN {<<Undefined>>, <<FullName(Param(a, element, "other"), element.name)>>}
                 ELSE {Settings(a, element)[r]}

\* Of the adapters before n, the last that sets a rule has it in force, and every rule
\* in force was set by one of them.
HeldUpTo(n) ==
    /\ \A i \in DOMAIN Adapters : \A r \in DOMAIN Settings(Adapters[i], element) \ {"__dummy__"} :
          /\ i < n /\ Declares(Adapters[i], element)
          /\ \A j \in DOMAIN Adapters : i < j /\ j < n => ~SetsRule(j, r)
          => r \in DOMAIN rules /\ IsSetting(i, r)
    /\ \A r \in DOMAIN rules \ {"__dummy__"} :
          \E i \in DOMAIN Adapters : i < n /\ SetsRule(i, r) /\ IsSetting(i, r)

Held == /\ next # 0 => HeldUpTo(next)
        /\ Parsed => HeldUpTo(Len(Adapters) + 1)

\* Only equalto looks at the form: the other settings depend on the element alone.
LEMMA SettingsAreFixed ==
    ASSUME element' = element, NEW i \in DOMAIN Adapters, Adapters[i].kind # "equalto"
    PROVE  Settings(Adapters[i], element)' = Settings(Adapters[i], element)
  BY DEF Settings

\* An entry that stays is still the setting of its adapter.
LEMMA IsSettingStays ==
    ASSUME element' = element, NEW i \in DOMAIN Adapters, NEW r, IsSetting(i, r),
           rules'[r] = rules[r]
    PROVE  IsSetting(i, r)'
  <1>1. CASE Adapters[i].kind = "equalto"
    BY <1>1 DEF IsSetting
  <1>2. CASE Adapters[i].kind # "equalto"
    BY <1>2, SettingsAreFixed DEF IsSetting
  <1>3. QED
    BY <1>1, <1>2

\* What an adapter sets is its setting.
LEMMA IsSettingAtFirst ==
    ASSUME element' = element, there' = there, NEW i \in DOMAIN Adapters,
           NEW r \in DOMAIN Settings(Adapters[i], element),
           rules'[r] = Settings(Adapters[i], element)[r]
    PROVE  IsSetting(i, r)'
  <1>1. CASE Adapters[i].kind = "equalto"
    <2>1. Settings(Adapters[i], element) = Only("equalTo", <<Other(Adapters[i], element)>>)
      BY <1>1 DEF Settings
    <2>2. rules'[r] = <<Other(Adapters[i], element)>>
      BY <2>1 DEF Only
    <2>3. Other(Adapters[i], element)
            \in {Undefined, FullName(Param(Adapters[i], element, "other"), element.name)}
      BY DEF Other
    <2>4. QED
      BY <1>1, <2>2, <2>3 DEF IsSetting
  <1>2. CASE Adapters[i].kind # "equalto"
    BY <1>2, SettingsAreFixed DEF IsSetting
  <1>3. QED
    BY <1>1, <1>2

\* If neither the element nor an entry other than the one that stands for no rule
\* changes, what is held stays held.
LEMMA HeldStays ==
    ASSUME NEW n, HeldUpTo(n), element' = element,
           DOMAIN rules' \ {"__dummy__"} = DOMAIN rules \ {"__dummy__"},
           \A r \in DOMAIN rules \ {"__dummy__"} : rules'[r] = rules[r]
    PROVE  HeldUpTo(n)'
  <1>1. ASSUME NEW i \in DOMAIN Adapters, NEW r
        PROVE  SetsRule(i, r)' <=> SetsRule(i, r)
    BY RulesAreFixed DEF SetsRule
  <1>2. ASSUME NEW i \in DOMAIN Adapters,
               NEW r \in DOMAIN Settings(Adapters[i], element) \ {"__dummy__"},
               i < n, Declares(Adapters[i], element),
               \A j \in DOMAIN Adapters : i < j /\ j < n => ~SetsRule(j, r)
        PROVE  r \in DOMAIN rules' /\ IsSetting(i, r)'
    <2>1. r \in DOMAIN rules \ {"__dummy__"} /\ IsSetting(i, r)
      BY <1>2 DEF HeldUpTo
    <2>2. QED
      BY <2>1, IsSettingStays
  <1>3. ASSUME NEW r \in DOMAIN rules' \ {"__dummy__"}
        PROVE  \E i \in DOMAIN Adapters : i < n /\ SetsRule(i, r)' /\ IsSetting(i, r)'
    <2>1. PICK i \in DOMAIN Adapters : i < n /\ SetsRule(i, r) /\ IsSetting(i, r)
      BY DEF HeldUpTo
    <2>2. QED
      BY <1>1, <2>1, IsSettingStays
  <1>4. QED
    BY <1>1, <1>2, <1>3, RulesAreFixed DEF HeldUpTo

\* The turn of an adapter.
LEMMA AdaptHolds == ASSUME IInv, Held, Adapt PROVE Held'
  <1>0. PICK k \in DOMAIN Adapters : k = next
    BY DEF Adapt
  <1> DEFINE a == Adapters[k]
             s == Settings(a, element)
  <1> USE AdaptersSequence
  <1>1. /\ next = k /\ next' = k + 1 /\ element' = element /\ there' = there
        /\ Declares(a, element) => rules' = Over(s, rules)
        /\ ~Declares(a, element) => rules' = rules
    BY <1>0 DEF Adapt, SetValidationValues
  <1>2. k \in 1 .. Len(Adapters) /\ HeldUpTo(k)
    BY <1>1 DEF Held
  <1>3. /\ \A r \in DOMAIN rules : r \in DOMAIN rules'
        /\ \A r \in DOMAIN rules : ~SetsRule(k, r) => rules'[r] = rules[r]
        /\ Declares(a, element) => \A r \in DOMAIN s : r \in DOMAIN rules' /\ rules'[r] = s[r]
        /\ \A r \in DOMAIN rules' : r \in DOMAIN rules \/ SetsRule(k, r)
    <2>1. CASE Declares(a, element)
      BY <1>1, <2>1 DEF Over, SetsRule
    <2>2. CASE ~Declares(a, element)
      BY <1>1, <2>2
    <2>3. QED
      BY <2>1, <2>2
  <1>4. ASSUME NEW i \in DOMAIN Adapters, NEW r
        PROVE  SetsRule(i, r)' <=> SetsRule(i, r)
    BY <1>1, RulesAreFixed DEF SetsRule
  <1>5. ASSUME NEW r, SetsRule(k, r)
        PROVE  r \in DOMAIN rules' /\ IsSetting(k, r)'
    BY <1>1, <1>3, <1>5, IsSettingAtFirst DEF SetsRule
  <1>6. ASSUME NEW i \in DOMAIN Adapters,
               NEW r \in DOMAIN Settings(Adapters[i], element) \ {"__dummy__"},
               i < k + 1, Declares(Adapters[i], element),
               \A j \in DOMAIN Adapters : i < j /\ j < k + 1 => ~SetsRule(j, r)
        PROVE  r \in DOMAIN rules' /\ IsSetting(i, r)'
    <2>1. CASE i = k
      BY <1>5, <1>6, <2>1 DEF SetsRule
    <2>2. CASE i < k
      <3>1. r \in DOMAIN rules /\ IsSetting(i, r)
        BY <1>2, <1>6, <2>2 DEF HeldUpTo
      <3>2. ~SetsRule(k, r)
        BY <1>1, <1>2, <1>6, <2>2
      <3>3. QED
        BY <1>1, <1>3, <3>1, <3>2, IsSettingStays
    <2>3. QED
      BY <1>2, <1>6, <2>1, <2>2
  <1>7. ASSUME NEW r \in DOMAIN rules' \ {"__dummy__"}
        PROVE  \E i \in DOMAIN Adapters : i < k + 1 /\ SetsRule(i, r)' /\ IsSetting(i, r)'
    <2>1. CASE SetsRule(k, r)
      BY <1>1, <1>2, <1>4, <1>5, <2>1
    <2>2. CASE ~SetsRule(k, r)
      <3>1. r \in DOMAIN rules /\ rules'[r] = rules[r]
        BY <1>3, <2>2
      <3>2. PICK i \in DOMAIN Adapters : i < k /\ SetsRule(i, r) /\ IsSetting(i, r)
        BY <1>2, <3>1 DEF HeldUpTo
      <3>3. IsSetting(i, r)'
        BY <1>1, <3>1, <3>2, IsSettingStays
      <3>4. QED
        BY <1>2, <1>4, <3>2, <3>3
    <2>3. QED
      BY <2>1, <2>2
  <1>8. HeldUpTo(k + 1)'
    BY <1>1, <1>4, <1>6, <1>7, RulesAreFixed DEF HeldUpTo
  <1>9. QED
    BY <1>1, <1>2, <1>8 DEF Held, Parsed

\* Every rule in force is the setting of the last adapter that sets it.
THEOREM RulesAreSettings == Spec => []Held
  <1>1. Init => Held
    BY DEF Init, Held, Parsed
  <1>2. IInv /\ Held /\ [Next]_vars => Held'
    <2> SUFFICES ASSUME IInv, Held, [Next]_vars PROVE Held'
      OBVIOUS
    <2> USE AdaptersSequence
    <2>1. ASSUME NEW e \in Elements, Start(e) PROVE Held'
      <3>1. next' = 1 /\ DOMAIN rules' = {}
        BY <2>1 DEF Start, Nothing
      <3>2. HeldUpTo(1)'
        BY <3>1 DEF HeldUpTo
      <3>3. QED
        BY <3>1, <3>2 DEF Held, Parsed
    <2>2. CASE Adapt
      BY <2>2, AdaptHolds
    <2>3. CASE Finish
      <3>1. /\ next = Len(Adapters) + 1 /\ next' = 0 /\ element' = element
            /\ DOMAIN rules' \ {"__dummy__"} = DOMAIN rules \ {"__dummy__"}
        BY <2>3 DEF Finish, Over, Only
      <3>2. HeldUpTo(Len(Adapters) + 1)
        BY <3>1 DEF Held
      <3>3. \A r \in DOMAIN rules \ {"__dummy__"} : rules'[r] = rules[r]
        BY <2>3 DEF Finish, Over, Only
      <3>4. HeldUpTo(Len(Adapters) + 1)'
        BY <3>1, <3>2, <3>3, HeldStays
      <3>5. QED
        BY <3>1, <3>4 DEF Held
    <2>4. ASSUME NEW n \in Names, Insert(n) PROVE Held'
      BY <2>4, HeldStays DEF Insert, Held, Parsed
    <2>5. CASE UNCHANGED vars
      BY <2>5, HeldStays DEF vars, Held, Parsed
    <2>6. QED
      BY <2>1, <2>2, <2>3, <2>4, <2>5 DEF Next
  <1>3. QED
    BY <1>1, <1>2, Invariance, PTL DEF Spec

-----------------------------------------------------------------------------
(* What the settings mean                                                  *)

\* The rules whose meaning depends on a value or on more than the format.
Measured == {"required", "minlength", "min", "maxlength", "max", "rangelength", "range",
             "equalTo", "remote", "nonalphamin", "__dummy__"}

\* An adapter for one format, that reads the parameter it fetches.
Plain(a) ==
    /\ a.rule[1] \notin Measured
    /\ \/ a.kind = "bool"
       \/ a.kind = "single" /\ a.read[1] = a.params[1]

\* The script's own adapters for more than a format.
Length == AddMinMax("length", "minlength", "maxlength", "rangelength", Undefined, Undefined)
Interval == AddMinMax("range", "min", "max", "range", Undefined, Undefined)
MinLength == AddMinMax("minlength", "minlength", Undefined, Undefined, Undefined, Undefined)
MaxLength == AddMinMax("maxlength", "minlength", "maxlength", Undefined, Undefined, Undefined)
EqualTo == Add("equalto", <<"other">>, <<"equalTo">>)
Mandatory == Add("required", <<>>, <<"required">>)
Remote == Add("remote", <<"url", "type", "additionalfields">>, <<"remote">>)
PasswordOf == Add("password", <<"min", "nonalphamin", "regex">>,
                  <<"minlength", "nonalphamin", "regex">>)

Own == {Length, Interval, MinLength, MaxLength, EqualTo, Mandatory, Remote, PasswordOf}

\* The application registers adapters for formats only, and names the attribute.  This
\* repository registers none.
PlainCustom == \A i \in DOMAIN Custom : Plain(Custom[i])

\* Every adapter is one for a format or one of the script's own eight.
LEMMA AdapterKinds ==
    ASSUME PlainCustom, NEW i \in DOMAIN Adapters
    PROVE  Plain(Adapters[i]) \/ Adapters[i] \in Own
  <1> DEFINE Of(s) == {s[k] : k \in DOMAIN s}
  <1>1. ASSUME NEW k \in DOMAIN Extensions PROVE Plain(Extensions[k])
    <2>1. Extensions[k] \in {AddSingleVal("accept", "mimtype", Undefined),
                             AddSingleVal("extension", "extension", Undefined),
                             AddSingleVal("extension", "extension", "accept")}
      BY DEF Extensions
    <2>2. QED
      BY <2>1, TextAssumption DEF Plain, AddSingleVal, Adapter, Or, Truthy, Measured
  <1>2. ASSUME NEW k \in DOMAIN BuiltIn PROVE Plain(BuiltIn[k]) \/ BuiltIn[k] \in Own
    <2>1. \/ BuiltIn[k] \in {AddSingleVal("regex", "pattern", Undefined),
                             AddSingleVal("fileextensions", "extensions", "extension")}
          \/ \E name \in {"creditcard", "date", "digits", "email", "number", "url"} :
                BuiltIn[k] = AddBool(name, Undefined)
          \/ BuiltIn[k] \in Own
      BY DEF BuiltIn, Own, Length, Interval, MinLength, MaxLength, EqualTo, Mandatory,
             Remote, PasswordOf
    <2>2. QED
      BY <2>1, TextAssumption DEF Plain, AddSingleVal, AddBool, Adapter, Or, Truthy, Measured
  <1>3. Adapters[i] \in Of(Extensions) \cup Of(BuiltIn) \cup Of(Custom)
    <2>a. Extensions \in Seq(Of(Extensions))
      BY DEF Extensions
    <2>b. BuiltIn \in Seq(Of(BuiltIn))
      BY DEF BuiltIn
    <2>1. Extensions \in Seq(Of(Extensions)) /\ BuiltIn \in Seq(Of(BuiltIn))
          /\ Custom \in Seq(Of(Custom))
      BY <2>a, <2>b, CustomAssumption
    <2> HIDE DEF Of
    <2>2. ASSUME NEW S, NEW T, NEW s \in Seq(S), NEW t \in Seq(T), NEW k \in DOMAIN (s \o t)
          PROVE  (s \o t)[k] \in S \cup T
      OBVIOUS
    <2>3. Extensions \o BuiltIn \in Seq(Of(Extensions) \cup Of(BuiltIn))
      <3>1. /\ Extensions \in Seq(Of(Extensions) \cup Of(BuiltIn))
            /\ BuiltIn \in Seq(Of(Extensions) \cup Of(BuiltIn))
        BY <2>1
      <3>2. QED
        BY <3>1
    <2>4. QED
      BY <2>1, <2>2, <2>3 DEF Adapters
  <1>4. QED
    BY <1>1, <1>2, <1>3 DEF PlainCustom

\* The values a rule can have: none, one or two, and whether they are in force.
LEMMA ValuesInForce ==
    /\ InForce(<<>>)
    /\ \A v : InForce(<<v>>) <=> v # Undefined
    /\ \A v, w : InForce(<<v, w>>) <=> v # Undefined /\ w # Undefined
  BY DEF InForce

\* A rule for a format, without a value and with one.
LEMMA FormatPasses ==
    ASSUME NEW rule, rule \notin Measured, NEW c
    PROVE  /\ Passes(c, rule, <<>>) <=> IsBlank(c) \/ rule \in c.fits
           /\ \A v : v # Undefined =>
                (Passes(c, rule, <<v>>) <=> IsBlank(c) \/ v \in c.fits)
           /\ Passes(c, rule, <<Undefined>>)
  <1>1. ASSUME NEW value, InForce(value)
        PROVE  Passes(c, rule, value) <=> IsBlank(c) \/ Fits(c, rule, value)
    BY <1>1 DEF Passes, Measured
  <1>2. Fits(c, rule, <<>>) <=> rule \in c.fits
    BY DEF Fits, Measured
  <1>3. \A v : Fits(c, rule, <<v>>) <=> v \in c.fits
    BY DEF Fits, Measured
  <1>4. Passes(c, rule, <<Undefined>>)
    BY ValuesInForce DEF Passes
  <1>5. QED
    BY <1>1, <1>2, <1>3, <1>4, ValuesInForce

\* An adapter for a format: its one rule demands what the attribute says.
LEMMA PlainMeaning ==
    ASSUME NEW a, NEW e, NEW c, Plain(a)
    PROVE  /\ DOMAIN Settings(a, e) = {a.rule[1]}
           /\ Demands(a, e, c) <=> Passes(c, a.rule[1], Settings(a, e)[a.rule[1]])
  <1>1. CASE a.kind = "bool"
    <2>1. Settings(a, e) = Only(a.rule[1], <<>>)
      BY <1>1 DEF Settings
    <2>2. Demands(a, e, c) <=> IsBlank(c) \/ a.rule[1] \in c.fits
      BY <1>1 DEF Demands
    <2>3. Passes(c, a.rule[1], <<>>) <=> IsBlank(c) \/ a.rule[1] \in c.fits
      BY FormatPasses DEF Plain
    <2>4. QED
      BY <2>1, <2>2, <2>3 DEF Only
  <1>2. CASE a.kind = "single" /\ a.read[1] = a.params[1]
    <2> DEFINE v == Param(a, e, a.params[1])
    <2> HIDE DEF v
    <2>1. Settings(a, e) = Only(a.rule[1], <<v>>)
      BY <1>2 DEF Settings, v
    <2>2. Demands(a, e, c) <=> (v # Undefined => IsBlank(c) \/ v \in c.fits)
      BY <1>2 DEF Demands, v
    <2>3. Passes(c, a.rule[1], <<v>>) <=> (v # Undefined => IsBlank(c) \/ v \in c.fits)
      BY FormatPasses DEF Plain
    <2>4. QED
      BY <2>1, <2>2, <2>3 DEF Only
  <1>3. QED
    BY <1>1, <1>2 DEF Plain

\* Two bounds: both demands together are one rule, one bound is one rule.
LEMMA MinMaxMeaning ==
    ASSUME NEW a \in {Length, Interval, MinLength, MaxLength}, NEW e \in Elements, NEW c
    PROVE  Demands(a, e, c) <=> \A r \in DOMAIN Settings(a, e) : Passes(c, r, Settings(a, e)[r])
  <1> DEFINE min == Param(a, e, "min")
             max == Param(a, e, "max")
  <1>1. /\ a.kind = "minmax" /\ a.params = <<"min", "max">> /\ a.read = <<"min", "max">>
        /\ a.name \in {"length", "range", "minlength", "maxlength"}
        /\ a.name = "length" => a.rule = <<"minlength", "maxlength", "rangelength">>
        /\ a.name = "range" => a.rule = <<"min", "max", "range">>
        /\ a.name = "minlength" => a.rule[1] = "minlength"
        /\ a.name = "maxlength" => a.rule[2] = "maxlength"
    BY DEF Length, Interval, MinLength, MaxLength, AddMinMax, Adapter, Or, Truthy
  <1>2. /\ a.name = "minlength" => max = Undefined
        /\ a.name = "maxlength" => min = Undefined
    BY RenderedAssumption DEF Param
  <1> HIDE DEF min, max
  <1>3. Settings(a, e) = MinMax(a, min, max)
    BY <1>1 DEF Settings, min, max
  <1>4. /\ a.name = "range" => (Demands(a, e, c) <=> WithinRange(c, min, max))
        /\ a.name # "range" => (Demands(a, e, c) <=> WithinLengths(c, min, max))
    BY <1>1 DEF Demands, min, max
  <1>5. /\ Bound(min) <=> Truthy(min)
        /\ Bound(max) <=> Truthy(max)
    BY DEF Bound, Truthy
  <1>6. CASE Truthy(min) /\ Truthy(max)
    <2>1. Settings(a, e) = Only(a.rule[3], <<min, max>>) /\ InForce(<<min, max>>)
      BY <1>3, <1>6, ValuesInForce DEF MinMax, Truthy
    <2>2. CASE a.name = "range"
      <3>1. Passes(c, "range", <<min, max>>) <=> IsBlank(c) \/ Fits(c, "range", <<min, max>>)
        BY <2>1 DEF Passes
      <3>2. Fits(c, "range", <<min, max>>) <=>
              Leq(Number[min], Number[c.text]) /\ Leq(Number[c.text], Number[max])
        BY DEF Fits
      <3>3. QED
        BY <1>1, <1>4, <1>5, <1>6, <2>1, <2>2, <3>1, <3>2 DEF Only, WithinRange
    <2>3. CASE a.name # "range"
      <3>1. a.name = "length"
        BY <1>1, <1>2, <1>6, <2>3 DEF Truthy
      <3>2. Passes(c, "rangelength", <<min, max>>)
              <=> IsBlank(c) \/ Fits(c, "rangelength", <<min, max>>)
        BY <2>1 DEF Passes
      <3>3. Fits(c, "rangelength", <<min, max>>) <=>
              Leq(Number[min], c.len) /\ Leq(c.len, Number[max])
        BY DEF Fits
      <3>4. QED
        BY <1>1, <1>4, <1>5, <1>6, <2>1, <2>3, <3>1, <3>2, <3>3 DEF Only, WithinLengths
    <2>4. QED
      BY <2>2, <2>3
  <1>7. CASE Truthy(min) /\ ~Truthy(max)
    <2>1. Settings(a, e) = Only(a.rule[1], <<min>>) /\ InForce(<<min>>)
      BY <1>3, <1>7, ValuesInForce DEF MinMax, Truthy
    <2>2. CASE a.name = "range"
      <3>1. Passes(c, "min", <<min>>) <=> IsBlank(c) \/ Fits(c, "min", <<min>>)
        BY <2>1 DEF Passes
      <3>2. Fits(c, "min", <<min>>) <=> TextLeq(min, c.text)
        BY DEF Fits
      <3>3. QED
        BY <1>1, <1>4, <1>5, <1>7, <2>1, <2>2, <3>1, <3>2 DEF Only, WithinRange
    <2>3. CASE a.name # "range"
      <3>1. a.rule[1] = "minlength"
        BY <1>1, <1>2, <1>7, <2>3 DEF Truthy
      <3>2. Passes(c, "minlength", <<min>>) <=> IsBlank(c) \/ Fits(c, "minlength", <<min>>)
        BY <2>1 DEF Passes
      <3>3. Fits(c, "minlength", <<min>>) <=> Leq(Number[min], c.len)
        BY DEF Fits
      <3>4. QED
        BY <1>4, <1>5, <1>7, <2>1, <2>3, <3>1, <3>2, <3>3 DEF Only, WithinLengths
    <2>4. QED
      BY <2>2, <2>3
  <1>8. CASE ~Truthy(min) /\ Truthy(max)
    <2>1. Settings(a, e) = Only(a.rule[2], <<max>>) /\ InForce(<<max>>)
      BY <1>3, <1>8, ValuesInForce DEF MinMax, Truthy
    <2>2. CASE a.name = "range"
      <3>1. Passes(c, "max", <<max>>) <=> IsBlank(c) \/ Fits(c, "max", <<max>>)
        BY <2>1 DEF Passes
      <3>2. Fits(c, "max", <<max>>) <=> TextLeq(c.text, max)
        BY DEF Fits
      <3>3. QED
        BY <1>1, <1>4, <1>5, <1>8, <2>1, <2>2, <3>1, <3>2 DEF Only, WithinRange
    <2>3. CASE a.name # "range"
      <3>1. a.rule[2] = "maxlength"
        BY <1>1, <1>2, <1>8, <2>3 DEF Truthy
      <3>2. Passes(c, "maxlength", <<max>>) <=> IsBlank(c) \/ Fits(c, "maxlength", <<max>>)
        BY <2>1 DEF Passes
      <3>3. Fits(c, "maxlength", <<max>>) <=> Leq(c.len, Number[max])
        BY DEF Fits
      <3>4. QED
        BY <1>4, <1>5, <1>8, <2>1, <2>3, <3>1, <3>2, <3>3 DEF Only, WithinLengths
    <2>4. QED
      BY <2>2, <2>3
  <1>9. CASE ~Truthy(min) /\ ~Truthy(max)
    BY <1>3, <1>4, <1>5, <1>9 DEF MinMax, Nothing, WithinRange, WithinLengths
  <1>10. QED
    BY <1>6, <1>7, <1>8, <1>9

\* A checkbox demands nothing, and gets no rule.
LEMMA RequiredMeaning ==
    ASSUME NEW e, NEW c
    PROVE  Demands(Mandatory, e, c) <=>
             \A r \in DOMAIN Settings(Mandatory, e) : Passes(c, r, Settings(Mandatory, e)[r])
  <1>1. Mandatory.kind = "required"
    BY DEF Mandatory, Add, Adapter
  <1>2. Settings(Mandatory, e) = Required(e) /\ (Demands(Mandatory, e, c) <=> e.checkbox \/ ~IsBlank(c))
    BY <1>1 DEF Settings, Demands
  <1>3. Passes(c, "required", <<>>) <=> ~IsBlank(c)
    BY ValuesInForce DEF Passes
  <1>4. QED
    BY <1>2, <1>3 DEF Required, Only, Nothing

\* The server is asked, with or without a url.
LEMMA RemoteMeaning ==
    ASSUME NEW e \in Elements, NEW i \in DOMAIN Adapters, NEW c, Adapters[i] = Remote
    PROVE  Demands(Remote, e, c) <=>
             \A r \in DOMAIN Settings(Remote, e) : Passes(c, r, Settings(Remote, e)[r])
  <1>1. Remote.kind = "remote" /\ Remote.rule[1] = "remote"
    BY DEF Remote, Add, Adapter
  <1> DEFINE v == Asked(Remote, e)
  <1>2. v # Undefined
    BY <1>1, RenderedAssumption
  <1> HIDE DEF v
  <1>3. Settings(Remote, e) = Only("remote", <<v>>)
    BY <1>1 DEF Settings, v
  <1>4. Demands(Remote, e, c) <=> IsBlank(c) \/ "remote" \in c.fits
    BY <1>1 DEF Demands
  <1>5. Passes(c, "remote", <<v>>) <=> IsBlank(c) \/ "remote" \in c.fits
    <2>1. Passes(c, "remote", <<v>>) <=> IsBlank(c) \/ Fits(c, "remote", <<v>>)
      BY <1>2, ValuesInForce DEF Passes
    <2>2. QED
      BY <2>1 DEF Fits
  <1>6. QED
    BY <1>3, <1>4, <1>5 DEF Only

\* Each of the three parameters is a rule if it has a value.
LEMMA PasswordMeaning ==
    ASSUME NEW e, NEW c
    PROVE  Demands(PasswordOf, e, c) <=>
             \A r \in DOMAIN Settings(PasswordOf, e) : Passes(c, r, Settings(PasswordOf, e)[r])
  <1> DEFINE a == PasswordOf
             read == <<"min", "nonalphamin", "regex">>
             rule == <<"minlength", "nonalphamin", "regex">>
             P(p) == Param(PasswordOf, e, p)
             place(r) == CHOOSE i \in 1 .. 3 : rule[i] = r
  <1>1. a.kind = "password" /\ a.read = read /\ a.rule = rule
    BY DEF PasswordOf, Add, Adapter
  <1> HIDE DEF a, P, place
  <1>2. Settings(a, e) = [r \in {rule[i] : i \in {j \in 1 .. 3 : Truthy(P(read[j]))}} |->
                            <<P(read[place(r)])>>]
    BY <1>1 DEF Settings, a, P, place
  <1>3. \A i \in 1 .. 3 : place(rule[i]) = i
    BY DEF place
  <1>4. /\ DOMAIN Settings(a, e) = {rule[i] : i \in {j \in 1 .. 3 : Truthy(P(read[j]))}}
        /\ \A i \in 1 .. 3 : Truthy(P(read[i])) => Settings(a, e)[rule[i]] = <<P(read[i])>>
    BY <1>2, <1>3
  <1>5. Demands(a, e, c) <=>
          /\ Truthy(P("min")) => IsBlank(c) \/ Leq(Number[P("min")], c.len)
          /\ Truthy(P("nonalphamin")) => Marked(c, P("nonalphamin"))
          /\ Truthy(P("regex")) => IsBlank(c) \/ P("regex") \in c.fits
    BY <1>1 DEF Demands, WithinLengths, Bound, Truthy, a, P
  <1>6. ASSUME NEW v, Truthy(v)
        PROVE  /\ Passes(c, "minlength", <<v>>) <=> IsBlank(c) \/ Leq(Number[v], c.len)
               /\ Passes(c, "nonalphamin", <<v>>) <=> Marked(c, v)
               /\ Passes(c, "regex", <<v>>) <=> IsBlank(c) \/ v \in c.fits
    <2>1. InForce(<<v>>) /\ v # Undefined
      BY <1>6, ValuesInForce DEF Truthy
    <2>2. Passes(c, "minlength", <<v>>) <=> IsBlank(c) \/ Fits(c, "minlength", <<v>>)
      BY <2>1 DEF Passes
    <2>3. Fits(c, "minlength", <<v>>) <=> Leq(Number[v], c.len)
      BY DEF Fits
    <2>4. Passes(c, "nonalphamin", <<v>>) <=> Marked(c, v)
      BY <2>1 DEF Passes
    <2>5. Passes(c, "regex", <<v>>) <=> IsBlank(c) \/ v \in c.fits
      BY <2>1, FormatPasses DEF Measured
    <2>6. QED
      BY <2>2, <2>3, <2>4, <2>5
  <1>7. (\A r \in DOMAIN Settings(a, e) : Passes(c, r, Settings(a, e)[r])) <=>
          \A i \in 1 .. 3 : Truthy(P(read[i])) => Passes(c, rule[i], <<P(read[i])>>)
    BY <1>4
  <1>8. QED
    BY <1>5, <1>6, <1>7 DEF a

\* Of every adapter but equalto: what its attributes demand is what its rules let pass.
LEMMA SettingsMeaning ==
    ASSUME PlainCustom, NEW e \in Elements, NEW i \in DOMAIN Adapters, NEW c,
           Adapters[i].kind # "equalto"
    PROVE  Demands(Adapters[i], e, c) <=>
             \A r \in DOMAIN Settings(Adapters[i], e) : Passes(c, r, Settings(Adapters[i], e)[r])
  <1>1. CASE Plain(Adapters[i])
    BY <1>1, PlainMeaning
  <1>2. CASE Adapters[i] \in Own
    <2>1. Adapters[i] # EqualTo
      BY DEF EqualTo, Add, Adapter
    <2>2. QED
      BY <1>2, <2>1, MinMaxMeaning, RequiredMeaning, RemoteMeaning, PasswordMeaning DEF Own
  <1>3. QED
    BY <1>1, <1>2, AdapterKinds

\* The one adapter that looks another field up.
LEMMA EqualToAdapter ==
    ASSUME PlainCustom, NEW i \in DOMAIN Adapters, Adapters[i].kind = "equalto", NEW e, NEW c
    PROVE  /\ DOMAIN Settings(Adapters[i], e) = {"equalTo"}
           /\ Demands(Adapters[i], e, c) <=>
                FullName(Param(Adapters[i], e, "other"), e.name) \in c.same
  BY DEF Settings, Only, Demands

\* What equalto compares with: the field it found.
LEMMA EqualToMeaning ==
    ASSUME NEW c, NEW field
    PROVE  Passes(c, "equalTo", <<field>>) <=> field = Undefined \/ field \in c.same
  BY ValuesInForce DEF Passes

\* No adapter sets the rule that stands for no rule.
LEMMA NoAdapterSetsDummy ==
    ASSUME PlainCustom, NEW e \in Elements, NEW i \in DOMAIN Adapters
    PROVE  "__dummy__" \notin DOMAIN Settings(Adapters[i], e)
  <1>1. CASE Plain(Adapters[i])
    <2>1. DOMAIN Settings(Adapters[i], e) = {Adapters[i].rule[1]}
      BY <1>1, PlainMeaning
    <2>2. QED
      BY <1>1, <2>1 DEF Plain, Measured
  <1>2. CASE Adapters[i] \in {Length, Interval, MinLength, MaxLength}
    <2> DEFINE a == Adapters[i]
               min == Param(a, e, "min")
               max == Param(a, e, "max")
    <2>1. /\ a.kind = "minmax" /\ a.read = <<"min", "max">>
          /\ a.name = "length" => a.rule = <<"minlength", "maxlength", "rangelength">>
          /\ a.name = "range" => a.rule = <<"min", "max", "range">>
          /\ a.name = "minlength" => a.rule[1] = "minlength" /\ max = Undefined
          /\ a.name = "maxlength" => a.rule[2] = "maxlength" /\ min = Undefined
          /\ a.name \in {"length", "range", "minlength", "maxlength"}
      BY <1>2, RenderedAssumption
      DEF Length, Interval, MinLength, MaxLength, AddMinMax, Adapter, Or, Truthy, Param
    <2> HIDE DEF a, min, max
    <2>2. Settings(a, e) = MinMax(a, min, max)
      BY <2>1 DEF Settings, min, max
    <2>3. \/ DOMAIN Settings(a, e) = {}
          \/ /\ Truthy(min) /\ Truthy(max)
             /\ DOMAIN Settings(a, e) = {a.rule[3]}
          \/ Truthy(min) /\ DOMAIN Settings(a, e) = {a.rule[1]}
          \/ Truthy(max) /\ DOMAIN Settings(a, e) = {a.rule[2]}
      BY <2>2 DEF MinMax, Only, Nothing
    <2>4. QED
      BY <2>1, <2>3 DEF Truthy, a
  <1>3. CASE Adapters[i] \in {EqualTo, Mandatory, Remote, PasswordOf}
    BY <1>3 DEF EqualTo, Mandatory, Remote, PasswordOf, Add, Adapter, Settings, Only, Required,
       Nothing
  <1>4. QED
    BY <1>1, <1>2, <1>3, AdapterKinds DEF Own

-----------------------------------------------------------------------------
\* Whatever was parsed before under the name of an element, its form, if it can be
\* checked, refuses nothing that the element's own attributes allow: bounds of texts, of
\* numbers, of 0 and none (parseElement replaces the entry of the name).
THEOREM NeverStricter == PlainCustom => (Spec => []NoStricter)
  <1>1. PlainCustom /\ IInv /\ Held => NoStricter
    <2> SUFFICES ASSUME PlainCustom, IInv, Held, Parsed, Checkable, NEW c \in Candidates,
                        \A i \in DOMAIN Adapters :
                            Declares(Adapters[i], element) => Demands(Adapters[i], element, c),
                        NEW r \in DOMAIN rules
                 PROVE  Passes(c, r, rules[r])
      BY DEF NoStricter, Accepted
    <2>1. element \in Elements
      BY DEF IInv, TypeOK, Parsed
    <2>2. CASE r = "__dummy__"
      BY <2>2 DEF Passes
    <2>3. CASE r # "__dummy__"
      <3>1. PICK i \in DOMAIN Adapters : SetsRule(i, r) /\ IsSetting(i, r)
        BY <2>3 DEF Held, HeldUpTo
      <3>2. Demands(Adapters[i], element, c) /\ r \in DOMAIN Settings(Adapters[i], element)
        BY <3>1 DEF SetsRule
      <3>3. CASE Adapters[i].kind = "equalto"
        <4>1. /\ r = "equalTo"
              /\ FullName(Param(Adapters[i], element, "other"), element.name) \in c.same
          BY <3>2, <3>3, EqualToAdapter
        <4>2. \/ rules[r] = <<Undefined>>
              \/ rules[r] = <<FullName(Param(Adapters[i], element, "other"), element.name)>>
          BY <3>1, <3>3 DEF IsSetting
        <4>3. QED
          BY <4>1, <4>2, EqualToMeaning
      <3>4. CASE Adapters[i].kind # "equalto"
        BY <2>1, <3>1, <3>2, <3>4, SettingsMeaning DEF IsSetting
      <3>5. QED
        BY <3>3, <3>4
    <2>4. QED
      BY <2>2, <2>3
  <1>2. ASSUME PlainCustom PROVE Spec => []NoStricter
    <2>1. IInv /\ Held => NoStricter
      BY <1>1, <1>2
    <2>2. QED
      BY <2>1, Invariance, RulesAreSettings, PTL
  <1>3. QED
    BY <1>2

\* What an attribute demands, a bound of 0 or the one end of a range included, is enforced
\* by a form that can be checked, whatever the mixture of attributes, unless a later
\* adapter sets one of its rules or equalto found no field; with adapters of the
\* application for formats only (two runs refute it for the others).
THEOREM DemandsEnforced == PlainCustom => (Spec => []EnforcedUnlessShadowed)
  <1>1. PlainCustom /\ IInv /\ Held => EnforcedUnlessShadowed
    <2> SUFFICES ASSUME PlainCustom, IInv, Held, Parsed, Checkable,
                        NEW c \in Candidates, NEW i \in DOMAIN Adapters,
                        Accepted(c), Declares(Adapters[i], element),
                        ~Shadowed(i), ~NotFound(i)
                 PROVE  Demands(Adapters[i], element, c)
      BY DEF EnforcedUnlessShadowed
    <2> DEFINE S == Settings(Adapters[i], element)
    <2>1. element \in Elements
      BY DEF IInv, TypeOK, Parsed
    <2>2. ASSUME NEW r \in DOMAIN S
          PROVE  IsSetting(i, r) /\ Passes(c, r, rules[r])
      <3>1. \A j \in DOMAIN Adapters : j > i => ~SetsRule(j, r)
        BY DEF Shadowed, SetsRule
      <3>2. r # "__dummy__"
        BY <2>1, NoAdapterSetsDummy
      <3>3. HeldUpTo(Len(Adapters) + 1) /\ i < Len(Adapters) + 1
            /\ \A j \in DOMAIN Adapters : i < j <=> j > i
        BY AdaptersSequence DEF Held
      <3>4. r \in DOMAIN rules /\ IsSetting(i, r)
        BY <3>1, <3>2, <3>3 DEF HeldUpTo
      <3>5. QED
        BY <3>4 DEF Accepted
    <2>3. CASE Adapters[i].kind = "equalto"
      <3> DEFINE field == FullName(Param(Adapters[i], element, "other"), element.name)
      <3>1. /\ "equalTo" \in DOMAIN S
            /\ Demands(Adapters[i], element, c) <=> field \in c.same
        BY <2>3, EqualToAdapter
      <3>2. rules["equalTo"] \in {<<Undefined>>, <<field>>} /\ Passes(c, "equalTo", rules["equalTo"])
        BY <2>2, <2>3, <3>1 DEF IsSetting
      <3>3. rules["equalTo"] # <<Undefined>>
        BY <2>3 DEF NotFound
      <3> HIDE DEF field
      <3>4. rules["equalTo"] = <<field>> /\ field # Undefined
        BY <3>2, <3>3
      <3>5. QED
        BY <3>1, <3>2, <3>4, EqualToMeaning
    <2>4. CASE Adapters[i].kind # "equalto"
      <3>1. \A r \in DOMAIN S : rules[r] = S[r]
        BY <2>2, <2>4 DEF IsSetting
      <3>2. \A r \in DOMAIN S : Passes(c, r, S[r])
        BY <2>2, <3>1
      <3>3. QED
        BY <2>1, <2>4, <3>2, SettingsMeaning
    <2>5. QED
      BY <2>3, <2>4
  <1>2. ASSUME PlainCustom PROVE Spec => []EnforcedUnlessShadowed
    <2>1. IInv /\ Held => EnforcedUnlessShadowed
      BY <1>1, <1>2
    <2>2. QED
      BY <2>1, Invariance, RulesAreSettings, PTL
  <1>3. QED
    BY <1>2
=============================================================================
