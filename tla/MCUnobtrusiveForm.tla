--------------------------- MODULE MCUnobtrusiveForm ---------------------------
EXTENDS UnobtrusiveForm, TLC
CONSTANTS email, name
BothFields == {email, name}
OnlyEmail == {email}
RemoteEmail == email :> {"required", "format", "remote"} @@ name :> {"required"}
TwoRemotes == email :> {"format", "remote"} @@ name :> {"required", "remote"}
WithName == email :> {name} @@ name :> {}
Alone == email :> {} @@ name :> {}
MCValues == {"", "ann", "bad"}
MCFormed == {"ann"}
=============================================================================
