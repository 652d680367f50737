# market.fake: verification project

TLA+ models of the services of this repository, TLC configurations that check
them on small instances, and TLAPS proofs of what matters most for every
instance. Every definition is translated from the source; `PROJECT.json` maps
each one to the lines it stands for.

    tlc -workers 2 -config MCFileStore.cfg MCFileStore     # one run
    tlapm MarketProofs.tla                                 # one proof module

## 1. The system

market.fake is a shop built of small .NET services behind a gateway, with
PostgreSQL, Redis and RabbitMQ.

| part | state it keeps | operations that change it | talks to |
|---|---|---|---|
| accounts.api, users | `Users` table, **one** EF change tracker for the whole process | create, update, delete, and every save of any other handler | RabbitMQ (events), PostgreSQL |
| accounts.api, OAuth | codes and refresh tokens in Redis | `authentication`, `token` (authorization code, refresh token, client credentials), expiry | login.web and every service call it |
| accounts.api, token keys | one signing key in Redis | generated by whoever misses it | all services read the public key |
| accounts.api, apps/clients/profiles/permissions | their tables | CRUD through the shared context | management.web |
| accounts.login.web | cookie with a refresh token, login codes in its own Redis, a static service token | sign in (password, cookie, sign up), fetch code, log out | accounts.api, market.web |
| market.api | categories, products, images, stock, prices, error log | CRUD, each statement in its own transaction | PostgreSQL |
| file.api | files under `Uploads`, rows of `FileDocument`, `database_migrations` | start (migrate, seed), upload, delete | PostgreSQL, disk |
| common/Menssaging | durable queue, channels and unsettled deliveries | publish, consume, settle, stop | RabbitMQ |
| user.api | user profile rows, addresses, cards, photos | CRUD, "primary" flags | file.api |
| market.web, product list | the script's reference and throttle, one list per visit | open, scroll, filter, load, leave | market.api |
| accounts.login.web and accounts.management.web, form validation | the rules of a form, its errors, pending remote requests, what is shown | parse, type, leave, submit, reset, answer | the server's remote rules |
| market.web, accounts.management.web, other pages | browser-side login | relay calls | the APIs |

How they interact: a browser signs in at accounts.login.web, which runs the
OAuth grants against accounts.api, keeps a refresh token in its cookie and hands
the application a login code; market.web exchanges the code for the access
token; the APIs validate it against the public key accounts.api publishes.
accounts.api publishes user events over the messaging library.

### What is hard here

* **Shared EF context** (`DbConfiguration.cs:18`). The context is a singleton and
  the requests are concurrent: a save writes what any request left in the
  tracker, a query returns the instance that is tracked already, and two
  operations at a time throw. No test runs two requests.
* **Read, then act, over a store without transactions**: the grants (read, remove,
  write of Redis keys), the uniqueness checks of market.api (query, then INSERT),
  file.api (disk, then row), the signing key (read, then generate).
* **Crashes and half-done work**: a file without a row, a token removed and not
  replaced, a migration executed and not marked, a save without its event, an
  acknowledgement lost after the handler returned.
* **Rules written twice**: the overlap of two prices is decided by an SQL query,
  a `tsrange` constraint and the reader of the current price; slugs fold their
  case in a query and in an index.
* **Endless redelivery** of a message whose handler always throws.
* **One script module for many pages**: the endless list of market.web throttles
  scroll events with one flag and calls one page through one reference, while visits
  come and go, imports arrive late, requests fail and filters change under the list.
* **Three layers of validation state**: the attributes the server renders, the rules
  jquery.validate.unobtrusive.js makes of them, and the copy the validator took of
  these when the form was parsed first; remote rules whose answers are late, aborted
  or about old values; a reset in between.

What makes each part correct is stated as the properties of section 4; the
hazards with their lines, including those no property covers yet, are the list
`hazards` in `PROJECT.json`.

## 2. Modules

    Registry        abstract: nobody holds a slot twice, withdrawn is withdrawn
      ^ refined by
    MarketCrud  <--EXTENDS-- ProductPrices, Categories  <-- MarketProofs
    AtLeastOnce     abstract: what is owed to a handler, and when it is forgotten
      ^ refined by
    EventBus        <-- EventBusProofs
    AccountsUsers   <-- AccountsUsersProofs
    LoginSessions   <-- LoginSessionsProofs   (accounts.login.web and the grants of accounts.api, composed)
    FileStore       <-- FileStoreProofs
    ScrollPagination     <-- ScrollPaginationProofs     (market.web)
    UnobtrusiveForm      <-- UnobtrusiveProofs          (one form of login/management web)
    UnobtrusiveAdapters  <-- UnobtrusiveAdaptersProofs  (what one element's attributes become)
    MCxxx           instances for TLC: sizes and symmetry, nothing else

Common conventions. A request is a record with a program counter that stops at
every call that leaves the process (database, Redis, HTTP, broker); what happens
between two such calls is one step, except in AccountsUsers, where requests share
memory and the in-memory statements are steps too. `None` is a model value. A
definition whose comment begins with "Mutant" is not part of any specification:
it is what the code would be with one plausible mistake, kept next to the right
one to show that the properties notice.

### AccountsUsers (accounts.api: UserHandler, UserController, the context)

`table` is the committed `Users` table, `tracked` the identity map of the one
context with EF's entity states, `busy` the request whose EF operation runs,
`batch` what the running `SaveChanges` captured, `req` the requests. `Load` is a
tracking query (the row is filtered by its committed values, the instance comes
from the map), `ValidExists` the e-mail query, `Edit`/`Mark`/`Retire` the
assignments to tracked entities, `SaveChanges` one transaction of everything that
is pending, `SaveFails` a refusal by the unique index or a broken or half
acknowledged commit, `Publish` the event after the save, `Collide` EF's "a second
operation was started", `Other` a request of any other handler, which matters
because it saves. `Restart` empties memory and starts again. At a start `Seeded` leaves the
default account in the tracker, unsaved; the administrator's row, which the seed saves, is an
account like another and left out. `Status` is reduced to `retired`: whether an instance
differs from its snapshot by the assignment that DeleteAsync makes after its save. EF Core itself is external: its rules
(identity resolution, `DetectChanges`, `AcceptAllChanges`, the concurrency
detector) are modelled from the way the handlers rely on them. Accesses to the
tracker are interleaved statement by statement; that two threads could corrupt the
tracker's own dictionaries is not modelled.

### MarketCrud, ProductPrices, Categories, Registry (market.api)

MarketCrud is the controller/service/repository triple that every entity of
market.api inherits, with the entity's rules as operator parameters: `Valid` (the
check of the dto), `Clash` (the query), `Check` and `Excludes` (the constraints of
the table). A request finds, validates and writes in three statements; `Reject` is
a refusal by the database, `Fail` any other failure. `raced` remembers who
validated before somebody else wrote. ProductPrices gives the parameters for the
price table: intervals are reduced to the order of their end points, which is all
that the SQL compares. Categories gives them for the tables with one unique
column, the slug with its folded case; product codes and stock rows are the case
where `Fold` is the identity. Registry says what a table with such a rule is for;
two refinements implement it: in `CalendarKept` the slots a price holds are the instants
at which the reader selects it, in `SlugsKept` a category holds its folded slug.

### LoginSessions (accounts.login.web over accounts.api)

`cache` is accounts.api's Redis (codes and refresh tokens), `codes` login.web's
Redis (login codes), `cookie[b]` the refresh token in browser b's cookie, `tab[t]`
one sign-in request, `page[p]` any other request of a browser. A sign-in obtains a response, by password (`Check`, `Issue`,
then the authorization code grant) or by the refresh token of the cookie; it then
asks who the user is (`Info`), redeems the response's own refresh token for another
one (`grant = "rotate"`), which goes into the cookie (`Answer`), and stores the
response behind a login code (`Publish`) that an application fetches (`Fetch`).
Each grant is `Get`, `Remove`, `Store`. Access tokens are abstracted to the user
they are for; a `Guid` is a number that is used once, bounded by `MaxGuids`.
`spent`, `troubled`, `fetched` and `late` are history. Sign-up is its sign-in part
(`Password`). A tab that fails (`Fail`) leaves what it had stored; the grant of a
caller that gave up may have gone on, which is a `Fail` after the grant's steps.

The cookie has more writers than the sign-in: the edit of the profile
(`UserController.UpdateAsync`) signs in again, after its calls, with the refresh token its
request came with, and the sliding expiry of `AddCookie` may do so for any request. A page
comes with the cookie (`Visit`) and its answer sets that cookie again (`Reissue`) or none
(`Show`). The sliding expiry of a sign-in that is refused is a page that comes with it.
`outrun` remembers that a sign-in of the browser was answered while the page was under way:
such a page brings back a token that may be redeemed by then, and counts as trouble.

### FileStore (file.api)

`rows` and `disk` are the table and the directory, `schema` and `marked` what the
migrations did and what `database_migrations` says, `proc` where the process is,
`seeding` the icon being seeded, `req` the uploads and deletions. The file of a
document has the Guid of the document; an icon's row has a fixed id and its file a
Guid of its own. Both upload endpoints are `Upload`. The checks that only refuse a
request (no file, another application's document) are refusals that change
nothing and are left out. Icons are seeded in any order; the code's order is one of
them. `unacked` and `excused` are history: which rows were committed without an
acknowledgement, and which files a crash or a failed call left.

### EventBus (common/Menssaging)

`queue` holds the ready messages, `channel[c]` the state of a consumer's channel,
`local[c]` its undispatched deliveries, `running[c]` the delivery in the handler,
with `live` false once its channel is gone. `Deliver` hands over all that is ready at
once, in any division among the open channels and in order on each. `Start` is `ExecuteAsync` up to the
consumption, `Decode`, `Handle`, `HandleFails`, `Settle` one call of
`ReceivedAsync`, `Stop` is `StopAsync`, `Exit` the end of the process. The queue has
the configured name (both `appsettings.json` configure one). The broker and its
client are external and described at the head of the module. accounts.api is a
publisher; no service registers a consumer yet, the model is of what the library
does for one that will. AtLeastOnce is what such a consumer's handler is promised, without
queues, channels and crashes: an event is owed to it from its publication until it is
settled.

### ScrollPagination (market.web: scrollPagination.js and List.razor)

The script's `dotNetReference` and `isTicking` are one each for the tab; a page is one
visit of the product list with its `life`, its import of the script, its filter fields,
the list `shown` as the sequence of <<filter, page number>> it loaded, `hasMore` and
`isLoading`. `OnScroll` takes the throttle and schedules a frame; the frame runs as
`NotYetThere`, `NobodyThere` (the reference is gone: the call throws) or `AtTheEnd`, which
calls the page and waits; `Answered` releases the throttle. `LoadNextPage` is the page's
guard and request, `Arrive` and `Fail` its answer. `Open`, `CategoriesArrive` (`Fails`),
`Register` (`ImportFails`) and `Close` are the life of a page, `Type`, `ApplyFilters` and
`ClearFilters` what the reader does to the filters. Everything runs on the browser's one
thread, so the actions are the code between two awaits. `mixed` and `lost` are history:
the filter changed under the list, a request failed. The order of the list is left
out: it behaves as a filter does, but Clear keeps it.

### UnobtrusiveForm (form validation: parse, validate, show, reset)

The two applications ship the same jquery.validate.unobtrusive.js over the same
jquery.validate.js; the model is of one form. `parsed` are the rules the script keeps,
`enforced` the copy the validator made of them at the first `Parse` (`Attach`),
`container` and `summary` what the reader sees, `errors`, `invalid` and `submitted` what
the validator remembers, `previous`, `request`, `pending` and `pendingRequest` the remote
rule, `formSubmitted` a submit that waits for it. `Check` is the validator's check of some
fields: every rule in order, the remote one from what it remembers or by a new request, and a field that
fails joins `submitted` (`formatAndAdd`), so that keys check it again;
`Form` (a submit) and `Element` (a key, a lost focus) use it. A `Submit` goes unchecked
before the validator is there and by a button with `formnovalidate` or the class `cancel`;
`skipped` is the history of that. `OnError`, `OnErrors`,
`OnSuccess` and `ResetContainers` are the handlers of the unobtrusive script. An answer is
`Approve` or `Reject`; `Lose` is a request that fails, for which there is no handler.
`Fill` is a value the browser sets without a key. Which rules a field has is the data
`Declared`: one rule of each kind that the handlers tell apart, required, a format, remote.
jquery.validate.js is third-party code and is modelled as far as these handlers see it.

### UnobtrusiveAdapters (parseElement and the adapters)

`Adapters` is the registered list: the script's own, in their order, then the
application's. A parse is `Start`, one `Adapt` for every adapter, `Finish`; the parsed
element's rules and messages are the form's entry under its name. `Settings` is what an
adapter sets, by the kind it was registered with (`AddBool`, `AddMinMax`, `AddSingleVal`,
`Add`). `Passes` says what a rule lets through, for candidates that have a text, a length, a
number of non-alphanumeric characters, formats they fit and fields they equal. The bounds of
`minlength`, `maxlength`, `rangelength` and `range` are made numbers by `normalizeRules`
(`Number`, with `NaN`); those of `min` and `max` stay texts and are compared in the order of
`Texts`, so that a range with one end, "9", refuses "10". `nonalphamin` has no `optional()` and
refuses blank. A rule without a method in `Methods`, as `creditcard` here, makes the check
throw; `Checkable` are the forms without one. An absent attribute is `Undefined`, an
empty one `Empty`, as `Truthy` tells them apart. The object that the adapter `remote`
makes is `Asked`, one value for each element. `RenderedAssumption` is what the server renders:
an attribute that is there has a value, and a minimum or maximum length has no other bound.
`MethodExtension` is FALSE in the run:
no page loads additional-methods.js.

## 3. Runs

| run | instance | distinct states | shows |
|---|---|---|---|
| accounts_users | 2 accounts (1 seeded), 2 e-mails, 2 requests | 1.0 million | what survives the shared context |
| product_prices | 1 product, instants 0..1 and no end, 3 rows, 2 requests | 0.3 million | query, constraint and reader agree; refinement of Registry |
| categories | 3 slugs of which 2 differ by case, 3 rows, 2 requests | 36 thousand | same for one unique column |
| login_sessions | 1 user, 1 browser, 2 tabs, 1 other request, 8 Guids | 3.6 million | tokens under racing tabs and re-issued cookies, failures, deletion |
| file_store | 3 Guids, 1 icon, 3 requests | 0.3 million | rows and files, crashes, starts |
| event_bus | 3 messages (one poison, one garbage), 2 consumers, 2 troubles | 0.1 million | delivery, duplicates, liveness |
| scroll_pagination | 2 visits, 2 frames, 2 filters, 1 edit | 0.3 million | who is called, what is loaded and shown, liveness |
| unobtrusive_form | 2 fields with remote rules, one added later, 3 values, 2 changes | 61 thousand | what leaves the page, what a submit waits for, liveness |
| unobtrusive_adapters | mixtures of length bounds, ranges with one end and two, passwords, equalto, remote, rules without a method; bounds of 0 and empty | 24 thousand | what the attributes become |
| unobtrusive_parse | as unobtrusive_form, 3 changes | violated | finding: a field parsed later is not validated |
| unobtrusive_own_minmax | one adapter of the application's own | violated | finding: named bounds are not read |
| unobtrusive_own_single | one adapter of the application's own | violated | finding: the default attribute is not read |

Why the bounds are enough. The hazards of accounts.api need two actors: one that
leaves something in the tracker and one that saves or queries; a third request can
only be either of them, and a third account is never in the same rule. In
market.api a clash is between two rows, a third is there for the request that
writes in between; two instants are enough to distinguish open, closed and
unbounded intervals that touch. A sign-in needs four or five Guids: eight allow two
complete sign-ins by password, or one and two returns from its cookie in two tabs at
once, which is the race; without the other request, ten Guids, and two browsers with
two users, were run for twelve million states without a violation but do not finish. In file.api a file is
involved with at most an upload and two deletions at once, and an icon takes one Guid for
each time it is seeded. In EventBus a poison message, garbage and a message that can be
handled are one of each kind; two troubles are enough for a message to be lost
from both replicas.

In the product list a race is between the page that is left and the one that
is opened next, and between two frames: a third of either is in the position of one of
the two. One filter has a full page and a rest, the other less than a page. The bound on
edits is 1 because liveness is checked in the same run; the safety properties were also
run with 2 edits (0.5 million states) and are proved for every number. In the form, a
second field is needed for data that a remote rule sends along, for a field that is
added later and for a count of pending requests above one; a value is blank, malformed or
well-formed; two changes let an answer be about an old value and a reset come in between
(three were run with one remote rule). The adapters are checked for each element by
itself, and for two parses under one name one after the other.

`CHECK_DEADLOCK FALSE` is set where the system may stop: event_bus (everything is
published and settled, and the bound on troubles is reached), scroll_pagination (the last
page was closed) and the form (it was submitted and the page is left).

## 4. Properties

*accounts_users.* `DeletionIsFinal`: no later save of anything left in the tracker revives
a deleted account. `EventsAreAboutStoredUsers`: events come after the commit.
Two properties document a real weakness. `PoisonLastsUntilRestart`: once an account with the
e-mail of a deleted one has been refused, no save of any handler changes a row until the
process restarts. `ClashBlocksSaves`: the same for any two accounts that claim one e-mail in
the tracker, be it an update that was refused after `UserMap.Update`, twins, or a new account
with the e-mail of the default account that waits for its first save; only another update of
one of the two, or a restart, ends it, a deletion does not.

*product_prices, categories.* `CurrentPriceIsUnique`: the reader selects one price
at every instant. `ConstraintIsLastResort`: the service's query and the
database constraint are the same rule, so that only a request that lost a race sees
the constraint. `DeletedRowsAreFinal`: an update that found a row alive cannot
change it after its deletion. `CalendarKept`, `SlugsKept`: refinements of Registry; for the
slugs, the finality of deletion is in it.

*login_sessions.* `SpentTokensStaySpent`: a redeemed or expired token is never
accepted again, although two tabs may both have read it before. 
`CookieOutlivesRaces`: sign-ins that race for a cookie, and pages that set it once more,
never leave the browser with a dead token unless something failed or a sign-in outran the
page. That exemption is a weakness of the code: a profile that is saved while another tab
signs in leaves the browser with a spent token and nobody notices. `ApplicationsGetSpentTokens`: what applications get
contains no live refresh token and never that of a cookie.
`DeletedUsersStayOut`: the refresh grant does not look at the account, and still a
sign-in that begins after the deletion never gets a cookie or a login code.

*file_store.* `FoundDocumentsHaveTheirFile`: what can be found can be read, except
after an unacknowledged commit. `OrphansAreExcused`: unreachable files come only from
crashes and failed calls. `BrickedStaysDown` documents a weakness: a deleted icon, or a
crash between the second migration and its mark, and the service never starts again.

*event_bus.* `NothingIsForgotten`: an event is ready, held by one consumer, or
settled, never two of them and never none. `AtLeastOnceKept`: refinement of AtLeastOnce, an
event is settled only after a call that succeeded, unless it is garbage.
`RepeatedOnlyIfReturned`: the only cause of a duplicate. `EventsAreHandled`: poison
does not starve the others.

*scroll_pagination.* `ReferenceIsAlive`: the script calls the open, registered page and
no other. `OneLoadAtATime`: a page loads once at a time, though the throttle does not see
to it. `TickIsOwed`: the throttle is held by a frame that will release it, or a request was
lost. `ShownInOrder`: while the filter stays, the list is the first pages of the filter.
`FailureIsForGood` documents a weakness: without a `finally`, one failed request ends the
list of that visit. `ReaderSeesEverything`: a throttled event is dropped, and still a
reader who goes on scrolling sees every product.

*unobtrusive_form.* `NothingUnchecked`: a form that is not submitted unchecked leaves the page only
with values that each rule in force lets pass, the remote ones for exactly the data the
server approved. `PendingIsCounted`: the counter beside the set of pending fields agrees
with it, whatever is aborted, asked twice or reset. `SubmitIsAnswered`: a submit that waits
does not wait for ever, unless a request was lost. `ErrorsAreRechecked`: an error that the
reader sees is checked again at the next key, since its field is in `submitted`; the exception
is an error that the server's answer brought, whose field is invalid or asks again.

*unobtrusive_adapters.* `NoStricter`: no rule is left from another element or another
parse. `EnforcedUnlessShadowed`: what the attributes demand is enforced, a bound of 0 and the one end
of a range included, but for rules that a later adapter sets and for an equalto whose field is
not there yet. Both are about forms that can be checked. What one end of a range demands is
stated as the code has it, the order of texts, which is not what its author
means; ASP.NET's `Range` always renders both ends, so no page here meets it. `MessagesFitRules`:
the message is that of the adapter whose rule it is.

Each property has a mutant in `PROJECT.json` under which TLC finds it violated.

### Where the code differs from its own comments

* `unobtrusive_parse`: `parse` says it enables validation for the elements it finds; the
  validator copies the rules of a form once, when it is parsed first, so those of a field
  that is added and parsed later are stored and never enforced.
* `unobtrusive_own_minmax`: `addMinMax` takes the names of the attributes with the
  bounds, fetches those attributes and then reads `min` and `max` all the same.
* `unobtrusive_own_single`: `addSingleVal` says its attribute defaults to `val`, fetches
  `val` and reads `undefined`.

The applications register no adapters of their own, and no view loads the scripts'
partial, so nobody meets these three yet.

**Fairness.** *event_bus* assumes weak fairness of the broker's delivery and of each consumer's own steps (the
dispatch loop, the handler, the settlement), which the client library's loop and the
broker provide as long as the channel is open. Nobody has to publish, and nobody has
to restart a process: no container has a restart policy, so `EventsAreHandled` asks
for a consumer that stays open in the end, and the closed channel that nobody notices
is outside it. Stops, losses and passing failures are bounded by `MaxTroubles`;
failures of poison messages are not. *scroll_pagination* assumes that what the page and
the script await comes (weak fairness of the answers, frames and imports; failures remain
possible and the property exempts them), and a reader who keeps scrolling: weak fairness of
the scroll event, and strong fairness of reaching the end of the list, since frames that run
too early come in between. *unobtrusive_form* assumes that the document gets ready and that
the server answers a request (weak fairness of `Approve` or `Reject`); nobody has to type or
submit. The other runs have safety properties only and assume no fairness.

## 5. Proofs

The proofs hold for all values of the constants under the named assumptions of the
modules, which TLC evaluates in the runs.

* **AccountsUsersProofs.** `IInv` adds to the type invariant what the program counter
  of a request says about its user (`ReqOK`), that a user being created is unknown to
  everybody else until it is marked (`Fresh`, `Marked`), and that the batch of a running
  save knows the same deletions as table and tracker (`BatchOK`). `TrackerKnowsDeletions`
  alone is not inductive: a save writes its batch, captured before other requests went
  on. One lemma per action. From `IInv` follow `TypeCorrect`, `TrackerKnows`,
  `EventsStored` and, as an action property, `DeletionFinal`.
  `PoisonLasts` is about two states: where the tracker holds an added account with the
  e-mail of a deleted one (`DoomedBy`), no step but a restart frees it or changes the table.
  Every transaction writes the doomed row too and is refused (`DoomedCommitRefused`); that
  the doomed row cannot be edited meanwhile needs `BusyServed`: the EF operation that runs
  belongs to a request that is being served. `ClashBlocks` goes the same way for `ClashOver`, a
  clash with its e-mail; that a save takes the values of both sides into account, from the
  batch or from the table, needs that an instance without changes is of a stored account
  (`UnchangedStored`).
* **MarketProofs**, first for every table. `IInv` adds the table's own constraint and
  `StillValid`: a validated request nobody wrote in front of is still valid. It needs only
  that the exclusion is symmetric; `LastResort` needs also that the service refuses whatever
  the table would (`ServiceIsStricter`). Both are hypotheses of the theorems, stated over the
  parameters. Then they are discharged for the two kinds of table. *Prices*:
  `QueryIsTheConstraint` shows that the SQL comparison of end points and the intersection of
  the closed ranges are the same relation on valid intervals, for any set of instants; follow
  `PriceIsUnique`, `PriceConstraintIsLastResort`, `DeletedPricesAreFinal`, `PricesTyped`.
  *One unique column*: the query and the index fold alike, hence
  `SlugIndexIsLastResort`. `CalendarRefined` and `SlugsRefined`: every step is a step of
  Registry or a stutter. A step changes one new or live row (`OneLiveRowChanges`), and
  what the row holds afterwards is free because no slot is held twice in the state after it.
* **EventBusProofs.** `IInv` says that a consumer holds a message once (`HeldOnce`), that
  what was routed is in the queue, settled or held by one consumer (`OnePlace`), that a
  handler that acknowledges has handled (`RightPlace`), and, for `RepeatedOnlyAfterReturn`, a
  balance: the calls of a handler that succeeded, those under way over a channel that is there
  or gone, and the one still to begin, are at most one more than the returns (`Counted`). The
  property alone is not inductive, since a call that started before its channel went
  succeeds after the message was returned. `NothingForgotten` is `OnePlace`, read the other
  way. `BusKeepsPromise`: the bus implements AtLeastOnce. `Publish` maps to `Announce`,
  `Handle` to `Call`, whatever requeues to `TakeBack`, `Settle` to `Forget`; a further
  invariant, that a delivery whose channel is gone was taken back (`LateIsTakenBack`), admits
  the calls for what is no longer owed.

* **ScrollPaginationProofs.** `IInv` adds that at most one page is open (`OneOpen`), that a
  request under way is about the next page of the list and the one guard `isLoading`
  (`CallsOK`), that a throttle that is held has a frame (`TickOK`) and that the list is in
  order with its end (`ListOK`). Type correctness and the five safety properties follow, for any number of visits,
  frames, filters and edits.
* **UnobtrusiveProofs.** `IInv` adds that a request is about the data its field remembers or
  the field was reset (`Current`), that a field that waits for nothing remembers only what
  the server said (`Truthful`), and that no rule is in force before the validator is there.
  `NothingUnchecked` is not inductive without them: an answer submits the waiting form by
  what the other fields remember. `PendingCounted` rests on lemmas about the cardinality of
  what pends before and after a check. A second invariant, `Shown`, gives
  `ErrorsRechecked`: an error that is shown is of a rule in force, and its field is in
  `submitted` since a check failed, or it is the server's error and its field is invalid or
  asks again.
* **LoginSessionsProofs.** The invariant `IInv` is about ownership: a code or a refresh
  token that is not in a cookie yet is known to one sign-in (`Knows`, `Owned`), was made
  already (`Used`), and is in the cache only after its `Store` (`Unstored`); a token that was
  redeemed for a cookie is spent, known to nobody and in no cookie (`Burnt`). None of the three
  steps of a grant is atomic with the next, so `SpentTokensStaySpent` alone is not inductive:
  `Store` must be known to write under a token nobody has redeemed. `Kept` says what a step
  has to show, `Quiet` and `Goes` what is left of it for the steps that leave the cache alone.
  From `IInv` follow `TypeCorrect`, `TokensStaySpent` and `ApplicationsGetSpent`. Two more
  invariants rest on it: `Whose` (a grant answers with the account the sign-in is for, so that
  `userInfo` looks at the right one) gives `DeletedStayOut`; `OneBrowser` (a cookie's token is
  renewed by tabs of its browser only, and carried by its pages only) and `Calm` (unless
  something failed, the cookie and the tokens of the pages that were not outrun are live, or a
  tab that redeemed one is on the way back with another) give
  `RacesKeepTheCookie`, for any number of tabs where the run has two.
* **FileStoreProofs.** `IInv` gives every file one owner: a row (`OneRow`), an upload
  (`OneUpload`, `UploadOK`) or the icon that is being seeded; and says what a deletion under
  way knows of its row (`DeleteOK`) and which icons the start has seen to (`Starts`). Follow
  `DocumentsHaveFiles`, `NoOtherOrphans` and, as an action property, `BrickedForGood`.
* **UnobtrusiveAdaptersProofs.** `IInv` says of every prefix of the adapters that the last
  one of it to set a rule gave it its message (`FitUpTo`); for any list of adapters,
  whatever an application registers: `MessagesFit`. `RulesAreSettings` says the same of the
  rules (`Held`): each is the setting of the last adapter that sets it, and none is left from
  before. From there one lemma for each kind of adapter (`PlainMeaning`, `MinMaxMeaning`,
  ..., `PasswordMeaning`) shows that its settings let through what its attributes
  demand and refuse the rest, whatever the values, the order of texts and the numbers are;
  `ValuesInForce` and `FormatPasses` say the same of one format. Follow `NeverStricter` and
  `DemandsEnforced`. Their hypothesis `PlainCustom` is that the application registers adapters
  for formats only and names the attribute; this repository registers none, and for the other
  two kinds the runs unobtrusive_own_minmax and unobtrusive_own_single refute
  `EnforcedUnlessShadowed`.

Every safety property of the passing runs is the statement of a theorem. Only model-checked are
the three liveness properties, `EventsAreHandled`, `ReaderSeesEverything` and
`SubmitIsAnswered`: liveness under fairness is beyond the prover, as are `ENABLED` and induction
over data.

## 6. Not modelled

* **Token keys, client grants and static service tokens**: planned, below.
* **user.api**, accounts.api's profiles and permissions: planned.
* **market.api** migrations, seeders, list price: planned.
* **market.web and accounts.management.web** beside the list and the forms: they relay
  calls; their part in signing in is `Fetch`.
* **jquery.validate.unobtrusive.js**: `info.validate` (only the Ajax script calls it, which
  no page loads), the callbacks an application may put into the options (none does), the
  rules that jquery.validate.js reads from other attributes and from classes, and which text
  fits which format or pattern, which is an input. In which order the rules of a form that
  cannot be checked throw or refuse is left out. The rules `accept` and `extension` name methods of additional-methods.js, which no
  page loads.
* **accounts.api/.gera**: commands of an external code generator, whose source is not in
  the repository. **site.js**: comments only.
* **HTTP, JSON, validation attributes, localisation, Swagger, containers**: no state.
* **Cryptography**: tokens are opaque.

## 7. Plan

Order: what the whole system depends on first. Done: AccountsUsers, MarketCrud,
ProductPrices, Categories, Registry, LoginSessions, FileStore, EventBus,
ScrollPagination, UnobtrusiveForm, UnobtrusiveAdapters, AtLeastOnce, and the proofs of all
their safety properties.

1. **TokenKeys**: requests that sign, publish and validate over one Redis key; services
   that cache the public key. Properties: the number of keys that are lost is bounded by
   the number of racing requests; every service ends up with the stored key.
2. **PrimaryItems** (user.api): the primary flag of addresses and cards over the shared
   tracker; abstract: at most one primary.
3. **Profiles** (accounts.api): two requests that give a user a profile of one app, and
   the roles in the token.
4. **ServiceToken** (login.web): the static token, its expiry and its slug; composed with
   TokenKeys.
5. **Migrations** (market.api): replicas that run the scripts together, against "each
   script exactly once".
6. **Catalogue** (market.api): list price against current price, stock rows; composed
   from ProductPrices and Categories.
7. **AccountsEvents**: AccountsUsers' `Publish` composed with EventBus: what a consumer
   can know of an account.
