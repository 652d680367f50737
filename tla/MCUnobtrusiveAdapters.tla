------------------------- MODULE MCUnobtrusiveAdapters -------------------------
EXTENDS UnobtrusiveAdapters, TLC, FiniteSets

Confirm == <<"Form", "Confirm">>
Password == <<"Form", "Password">>
MCNames == {Confirm, Password}

\* An element with the attributes of these adapters; the silent ones have no message.
Rendered(checkbox, attrs, alone, silent) ==
    LET declared == {d[1] : d \in DOMAIN attrs} \cup alone IN
    [name |-> Confirm, checkbox |-> checkbox, attrs |-> attrs,
     message |-> [a \in declared |-> IF a \in silent THEN Empty ELSE a]]

Bounded(a, p, values) == {Nothing} \cup {[d \in {<<a, p>>} |-> v] : v \in values}

\* Every mixture of bounds that lengths can be declared with, none, empty and 0 included.
Lengths ==
    {Rendered(FALSE, f @@ g @@ h @@ k, {}, silent) :
       f \in Bounded("length", "min", {Empty, "0", "2"}), g \in Bounded("length", "max", {Empty, "0", "3"}),
       h \in Bounded("minlength", "min", {"0", "2"}), k \in Bounded("maxlength", "max", {"0", "2"}),
       silent \in {{}, {"minlength"}, {"length"}}}

\* Ranges with both ends, with one and with none.
Ranges ==
    {Rendered(FALSE, f @@ g, {"range"} \cup alone, {}) :
       f \in Bounded("range", "min", {Empty, "0", "9"}),
       g \in Bounded("range", "max", {Empty, "0", "10"}), alone \in SUBSET {"required"}}

Mixed ==
    {Rendered(checkbox, f @@ g @@ h, alone, silent) :
       checkbox \in BOOLEAN, alone \in SUBSET {"required", "email"},
       f \in Bounded("regex", "pattern", {"letters"}),
       g \in {Nothing, <<"equalto", "other">> :> <<"*", "Password">>},
       h \in {Nothing, <<"password", "min">> :> "2", <<"minlength", "min">> :> "0",
              <<"password", "min">> :> "2" @@ <<"password", "regex">> :> "long"},
       silent \in {{}, {"password"}}}

Passwords ==
    {Rendered(FALSE, f @@ g @@ h, {"password"} \cup alone, {}) :
       f \in Bounded("password", "min", {"0", "3"}), g \in Bounded("password", "nonalphamin", {"0", "2"}),
       h \in Bounded("password", "regex", {"long"}), alone \in SUBSET {"required"}}

\* Rules for which these pages load no method.
Strays == {Rendered(FALSE, f, alone, {}) :
             f \in Bounded("extension", "extension", {"png"}), alone \in SUBSET {"required", "creditcard"}}

Asking ==
    {Rendered(FALSE, <<"remote", "url">> :> "check" @@ f, {}, {}) :
       f \in {Nothing, <<"remote", "additionalfields">> :> <<<<"*", "Password">>, Confirm>>}}

MCElements == Lengths \cup Ranges \cup Mixed \cup Passwords \cup Strays \cup Asking

\* The application's own adapters, as the comments of addMinMax and addSingleVal allow.
NoCustom == <<>>
OwnMinMax == <<AddMinMax("words", "minlength", "maxlength", "rangelength", "least", "most")>>
Words == {Rendered(FALSE, <<"words", "least">> :> "2" @@ f, {}, {}) :
            f \in {Nothing, <<"words", "most">> :> "3"}}
OwnSingle == <<AddSingleVal("postcode", Undefined, Undefined)>>
Postcodes == {Rendered(FALSE, <<"postcode", "val">> :> "dutch", {}, {})}

\* What is entered, and the bounds, in the order of strings; blank is read by no rule.
MCTexts == <<"!a!a", "0", "10", "100", "2", "3", "9", "a!", "x">>
MCNumber == "0" :> 0 @@ "10" :> 10 @@ "100" :> 100 @@ "2" :> 2 @@ "3" :> 3 @@ "9" :> 9
            @@ "!a!a" :> NaN @@ "a!" :> NaN @@ "x" :> NaN

Entered(text, len, marks) == [text |-> text, len |-> len, marks |-> marks]
Entries == {Entered(Empty, 0, 0), Entered("!a!a", 4, 2), Entered("0", 1, 0), Entered("10", 2, 0),
            Entered("100", 3, 0), Entered("2", 1, 0), Entered("9", 1, 0), Entered("a!", 2, 1),
            Entered("x", 1, 0)}

Formats == {"letters", "long", "email", "remote", "dutch"}
MCCandidates ==
    {[text |-> e.text, len |-> e.len, marks |-> e.marks, fits |-> fits, same |-> same] :
       e \in Entries, fits \in {{}, Formats, {"letters"}, {"long"}}, same \in {{}, {Password}}}
=============================================================================
