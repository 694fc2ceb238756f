# Verification of the BiblioLink backend

TLA+ specifications of the BiblioLink backend (NestJS, TypeORM, MySQL/InnoDB),
TLC configurations that check them on small instances, and TLAPS proofs of the
properties that matter most. Paths below are those of the repository's
application code, `src/` (listed in `PROJECT.json` with one more `src/` in front).

* [The system](#the-system)
* [What is modelled](#what-is-modelled)
* [The runs](#the-runs)
* [The proofs](#the-proofs)
* [What is not modelled](#what-is-not-modelled)
* [Plan](#plan)

## The system

BiblioLink searches public-domain catalogs, imports books, lets readers read
them in the browser and keep favorites. Free accounts read for ten minutes at a
time, each further period earned by watching an ad; Premium accounts, paid
monthly through PayPal, read without limit and keep more favorites. Everything
runs in one Node process per instance on one MySQL database; requests
interleave at every `await`, and transactions run at InnoDB's default
REPEATABLE READ with explicit `SELECT ... FOR UPDATE` where the code asks for it.

| Component | State it keeps | Operations | Talks to |
|---|---|---|---|
| Subscriptions (`subscriptions`, `payment_transactions`) | tables `subscriptions`, `payment_transactions`; SSE subjects in memory | reserve, link, process webhook (payment, cancellation), membership | PayPal provider; read by Reading and Favorites |
| PayPal provider (`subscriptions/providers`) | access token and its expiry, in memory | token, verify webhook, identity, billing information, confirmed payment | PayPal |
| Reading access (`reading`) | table `reading_accesses` | start reading, request an ad, redeem it, read a page | Subscriptions, Ads, Favorites, Books, content |
| Ads (`ads`) | table `ad_reward_challenges`, one row an account | issue, consume | called by Reading in its transaction |
| Reading content (`reading/content`) | none | fetch with limits, paginate text, HTML, EPUB, PDF | the providers' hosts |
| Favorites (`favorites`) | table `favorites` | list, add, add by reference, remove, update progress | Subscriptions (quota), Books (import) |
| Books (`books`) | tables `books`, `book_authors`, `book_languages`, `languages`, `book_categories` | import one, a search, a provider, all; list, detail | Catalogs |
| Catalogs (`catalogs`) | table `book_providers`; the arXiv request queue, in memory | search, find, resolve providers, seed | Gutendex, Standard Ebooks, arXiv, OpenAlex |
| Categories (`categories`) | table `categories` (seeded) | list | Books |
| Authentication (`auth`) | table `password_reset_tokens`; JWT in cookies | register, login, refresh, forgot, reset, change password | Users, Email, Captcha |
| Users (`users`) | table `users` | register, create, update, enable, disable | Authentication |
| Analytics, Email, Captcha, i18n, throttling, config, seed | none of the domain | | |

What is hard in it, and what makes each part correct:

* **Subscriptions.** The browser's confirmation, PayPal's webhooks (duplicated,
  reordered, late, lost with the process) and further reservations of the same
  account act on one row. Correct: one open reservation for an account; a link
  goes to the row the checkout reference was signed for and stays; only
  completed charges of the plan are recorded, once each; access always rests on
  a paid period; late webhooks neither revive nor shorten; what PayPal was told
  is done is done; the browser is told once; what can be applied is applied.
* **Reading access and ads.** Two first readings at once; a challenge redeemed
  twice, replaced while it is redeemed, or redeemed by an account that turns
  Premium. Correct: one row an account, one period for a challenge, no page
  outside a period.
* **Favorites.** The quota is read before the lock and the membership may change
  behind it. Correct: the limit in force at the check is never passed, no
  favorite twice, none deleted by a downgrade.
* **Books and catalogs.** Two imports of one book, under REPEATABLE READ;
  providers that fail half way, or are turned off; pages of unknown number; the
  arXiv queue, which every request shares. Correct: one row a book, with one
  import's relations, readable once it was; a failed provider or book never
  loses the others; a load that reports nothing has everything; the interval is
  kept, and nobody waits in the queue for ever.
* **Reading content.** Every page is a request that fetches the whole document
  again, through redirects and limits, and opens bodies, archives, documents and
  canvases that must be given back whichever step fails. Correct: the pages one
  after the other are the document; nothing stays open; a request ends.
* **Authentication and users.** Reset tokens used twice or replaced while used,
  password changes crossing a reset or a deactivation. Correct: a token sets a
  password at most once, none for an inactive account, the last request wins.

`PROJECT.json` lists every hazard at its line with the properties aimed at it.

## What is modelled

The components that write shared rows under locks: subscriptions, which holds
the money; free reading with the ads that extend it; favorites and their limits;
the password and the status of accounts; the import of a book. The first four
meet in the membership of an account, which `Subscriptions` derives and the
others take from the environment, where it changes more freely; imports meet
favorites in the books that become readable. And the two ways in which the
backend gets something from outside: the catalogs, with the bulk loads over them,
and the pages of a document.

| Module | What it is |
|---|---|
| `Subscriptions` | reservations, links, webhooks and publications, one step for each `await`, and PayPal as environment; the properties |
| `SubscriptionContract` | the abstract specification: the table, one atomic step a transaction |
| `SubscriptionsInvariant` | the inductive invariant and the refinement mapping to the contract |
| `MCSubscriptions` | symmetry, for TLC |
| `SubscriptionsLiveness` | fairness, a budget of faults, the liveness properties |
| `SubscriptionsProofs` | type correctness, the invariant, the properties, the contract implemented, proved |
| `ReadingAccess` | first readings, challenges, redemptions and pages, one step for each `await`; the properties |
| `FreePeriods` | the abstract specification: the free periods an account is given |
| `ReadingAccessInvariant` | the inductive invariant and the refinement mapping to `FreePeriods` |
| `MCReadingAccess` | symmetry, for TLC |
| `ReadingAccessProofs` | type correctness, the invariant, the properties and the refinement, proved |
| `Favorites` | additions against the limit of the plan, removals, the membership that changes; the properties |
| `FavoritesInvariant` | the inductive invariant |
| `MCFavorites` | symmetry, for TLC |
| `FavoritesProofs` | type correctness, the invariant, the limits, proved |
| `Accounts` | recovery, reset and change of a password, and the saves of an administrator; the properties |
| `AccountContract` | the abstract specification: accounts, their links and the passwords they were given, each recovery, reset, change and save one step |
| `AccountsInvariant` | the inductive invariant and the refinement mapping to the contract |
| `MCAccounts` | symmetry, for TLC |
| `AccountsProofs` | type correctness, the invariant, the properties that hold, the contract kept, proved |
| `BookImport` | the upsert of a book and its list tables, with InnoDB's snapshots and locks; the properties |
| `BookImportInvariant` | the inductive invariant |
| `MCBookImport` | what providers answer in the instances, symmetry, for TLC |
| `BookImportProofs` | the invariant and the properties that hold, proved |
| `Lists` | operators on sequences that the catalogs and the content use |
| `ListsProofs` | induction and recursion over numbers, and what the operators of `Lists` give, proved |
| `ExternalBooks` | pure operators: what the four providers make of an item |
| `Catalogs` | active providers, searches, lookups, loads, arXiv's queue, the table of providers; fairness and properties |
| `ReadingContent` | the fetch of a document and the four processors; fairness and properties |
| `Outside` | the two composed |
| `MCOutside` | requests, items and documents, for TLC |
| `CatalogsProofs` | the mappings, the inductive invariant of the loads, the interval, proved |
| `ContentProofs` | the cutting of texts into pages, the answered page and the resources, proved |

### Subscriptions: state

`subs` is the table `subscriptions` (`ext` is `external_subscription_reference`,
`start` and `end` the current period), `recorded` the pairs (subscription,
external reference) in `payment_transactions`, whose only status is SUCCEEDED.
`task` holds the requests in flight with their local variables: `row` is the
entity a transaction has read and will save. `sse` counts the events published
for each subscription. `paypal`, `charge` and `notices` are PayPal's
subscriptions, charges and the webhooks it has sent, `answered` those this
service answered with 204.

### Subscriptions: actions and code

| Code (`subscriptions.service.ts`) | Actions |
|---|---|
| `reservePendingSubscription` | `CheckReservation` (user row locked, query), `ReservePendingSubscription` (insert, commit) |
| `linkApprovedSubscription` | `LinkApprovedSubscription`, `GetSubscriptionIdentity`, then the link |
| `processSubscriptionEvent`, `ensureWebhookSubscriptionLinked` | `ProcessSubscriptionEvent`, `GetSubscriptionIdentity`, then the link if there is none |
| `persistVerifiedSubscriptionLink` | `AlreadyLinked`, or `LockForLink` then `PersistVerifiedSubscriptionLink` |
| payment branch | `GetConfirmedPayment`, `GetSubscriptionBillingInfo` |
| `confirmSuccessfulPayment` | `LockForPayment`, then `ConfirmWithoutExtending` or `ConfirmSuccessfulPayment` |
| `registerSubscriptionCancellation` | `AlreadyCanceled`, or `LockForCancellation` then `RegisterSubscriptionCancellation` |
| `SubscriptionEventStream` | `Publish`, after the commit |
| any rejection, timeout, rollback, process stop | `Fail` |

A transaction is two actions, the one that takes the row lock and reads and the
one that writes and commits; what the lock protects is then a result and not an
assumption (the mutant `NeverLocked` shows that it is the lock that does it).
The write saves the row that was *read*, as TypeORM does. A non-locking read
after the first lock of a transaction sees every commit before the lock
(REPEATABLE READ takes its snapshot at the first consistent read), so the read of
the existing payment in `confirmSuccessfulPayment` is that of the current table.

PayPal is modelled as the code relies on it. A charge is listed PENDING, then
COMPLETED or DECLINED; its webhook may be sent before either; the billing
information follows a completed charge later, or never when the subscription was
cancelled before; charges of a subscription are a period apart; a cancelled
subscription may lose its next billing time. A notice stays deliverable for ever,
so duplication, reordering, delay and loss are all there. The checkout reference
comes through the payer's browser: it may be the account's, malformed, or signed
by another secret.

### Subscriptions: abstractions

* Amount and currency are one bit, `plan`: whether they are those of the plan.
* Time is counted in units longer than `PAYMENT_TIME_TOLERANCE_MS`, so "within the
  tolerance" is equality; the window of days `getConfirmedPayment` searches around
  the event always contains the charge.
* PayPal's APPROVAL_PENDING and the statuses whose webhooks the mapper refuses
  (SUSPENDED, EXPIRED) are left out: the first is like no subscription for every
  check, the others end as `Fail`.
* A refused precondition (403, 404, 409, 422, 503) is `Fail`, which any request
  may take at any step: safety holds for more behaviours than the code has.
  The guards say which steps succeed.
* `canceled_at` is left out: it is written and never read. The account status
  that may refuse a reservation is one more `Fail`.
* Verification of the webhook's signature is PayPal's: every notice delivered is
  one PayPal sent.

### Reading and ads: state

`access` is the table `reading_accesses` (`None` for no row, else `expires_at`),
`challenge` the table `ad_reward_challenges`, which has one row an account, and
`owner` the account each token was drawn for: tokens never repeat. `task` holds
the requests in flight with what they carry over an `await`: the instant `now`
their handler read and the expiry of the challenge to be written. `granted`,
`told` and `opened` are history, which no step reads: the periods given with the
token each cost, the ends of periods answered to readers, the instants at which a
Free account got past the authorization of a page.

### Reading and ads: actions and code

| Code (`reading.service.ts`, `ads.service.ts`) | Actions |
|---|---|
| the controller's four requests | `Ask`, then `CheckMembership` (`hasPremiumAccess`, asked once) |
| `startReading`, `findOrCreateFreeAccess` | `FindAccess`, or `FindNoAccess` then `CreateAccess`; if the row is there by now, `ConcurrentAccess` and again `FindAccess` |
| `requestRewardedAd`, `issueRewardChallenge` | `CheckPeriodOver`, `IssueRewardChallenge` (the upsert) |
| `redeemRewardedAd`, `consumeRewardChallenge` | `LockAccess`, `ConsumeRewardChallenge` (the conditional update locks the row), `RedeemRewardedAd` (save, commit) |
| `getAuthorizedReadingSource` | `GetReadingPage` |
| any rejection, error, rollback, process stop | `Fail` |

The redemption is three steps and its writes show with the last, so a request
that fails after the update of the challenge leaves the challenge unconsumed.
The upsert waits for the lock of the update; the other requests read without
locks and run in between.

### Reading and ads: abstractions

* Premium is a set of accounts the environment changes at any time: more than
  `HasPremiumAccess` of `Subscriptions` does, so the properties of Free accounts
  do not rest on what makes an account Premium.
* The source of the book, its format and the fetch of the page are reads of other
  components: `Ask` is for a readable book, another one is `Fail`.
* `randomBytes` draws a token nobody has; the model draws it when the row is
  written, which no other step can tell from drawing it before.
* The instants of a challenge and of a period are those of the process's clock,
  read where the code reads it. Deleting an account is not modelled: the
  foreign keys remove both rows.

### Favorites: state, actions and code

`favorites` is the table of that name, `readable` the books that pass
`andWhereBookIsReadable`, `premium` the accounts `hasPremiumAccess` answers for.
`task` holds the additions in flight with the limit each resolved. `wasPremium`
and `early` are history: who was ever Premium, and the favorites that were hidden
at first.

| Code (`favorites.service.ts`) | Actions |
|---|---|
| `addFavorite`, `addFavoriteByReference` after its import | `Ask`, `ResolveQuota` (before the transaction), `CheckLimit` (user row locked, book, duplicate and count read), `AddFavorite` (insert, commit) |
| `removeFavorite` | `RemoveFavorite`, one DELETE |
| `upsertFromExternalBook` of `books` | `ShowBook`: the book has readable content from now on |
| any refusal, error, rollback | `Fail` |

* The count takes only readable favorites. A table from before books had a
  content format may hold favorites that are hidden; an import can make them
  readable, and then an account has more than its limit though no addition passed
  it. `early` keeps those apart. Imports never hide a book.
* The position in a book is one UPDATE which the last writer wins, and the listing
  reads only: both are left out. So is the deletion of books and accounts, which no
  code does.

### Accounts: state, actions and code

`users` is the table of that name, less all columns but the status and the
password; `tokens` the table `password_reset_tokens`, by token. `task` holds the
requests in flight: the tokens a recovery found to delete, the row a reset has
read, the entity an administrator's request will save. `issued`, `last`, `resets`
and `held` are history: whose each token is, the latest of each account, how many
passwords each has set, and which each account was given.

| Code (`auth.service.ts`, `users.service.ts`) | Actions |
|---|---|
| `forgotPassword` | `ForgotPassword`, `DeleteTokens` (locks), `InsertToken` (commit) |
| `resetPassword` | `ResetPassword`, `LockToken` (`FOR UPDATE`), `UpdatePassword` (locks the user row), `UseToken` (save, commit) |
| `changePassword`, `updatePassword` | `ChangePassword` (verified), `WritePassword` |
| `update`, `disableUser`, `enableUser` | `EditUser` (read, change), `CompareUser` and `SaveUser` (`save()`) |
| any refusal, error, deadlock, rollback | `Fail` |

* There is no unique key on the account of a token. What keeps a second token out
  are InnoDB's locks: the DELETE locks the rows it finds and the gap beside them,
  so of two recoveries that found none each waits for the other to insert, and one
  is rolled back as a deadlock (`GapLocked`, `Fail`).
* TypeORM's `save()` of an entity with a key reads the row again and updates the
  columns in which the entity differs; both steps are there.
* A password is what its hash verifies. The verification and hashing of a change
  lie between `ChangePassword` and `WritePassword`.
* The token is drawn when it is inserted, which no step can tell from drawing it
  before; a link reaches its reader after the commit or never, and mail changes no
  state. A request with an unknown token is refused, as `Fail`.
* Accounts begin active. The columns of the profile, registration, login and the
  creation of accounts are left out.

### Imports: state, actions and code

`books` is the table of that name, by the unique key (provider, external
reference); `lists` its rows in `book_authors`, `book_languages` and
`book_categories`, each a pair of key and value; `languages` the table
`languages`. `task` holds the transactions in flight: what they saw in their
snapshot, what they wrote and deleted, the lock they have on the row of the
book. `creations`, `last` and `whole` are history: how many imports were answered
"created", which committed last, and whether another committed beside it.

| Code (`books.service.ts`) | Actions |
|---|---|
| `upsertFromExternalBook`: `findOne` | `FindBook`, which takes the snapshot |
| `save` of the row | `SaveBook` (it was there: the columns that differ), `InsertBook`, or after a duplicate key `RereadBook` (locking) |
| `replaceAuthors` | `ReplaceAuthors` |
| `ensureLanguageExists`, `replaceLanguages` | `ReplaceLanguages` |
| `replaceCategories` | `ReplaceCategories` (codes that have a row) |
| commit | `Commit` |
| an error, a deadlock, the process stops | `Fail` |

* What a plain `SELECT` of the transaction answers is its snapshot less what it
  deleted itself; `UPDATE`, `DELETE`, `INSERT` and the locking reread see what is
  committed. TypeORM's `save()` looks for the keys with a plain `SELECT` before it
  decides between inserting and updating: `Found`, `Saved`.
* `Exclusive`, `Shared` and `Replacing` are InnoDB's locks as the code meets
  them: writing the row excludes writing and sharing it; list rows share it
  through their foreign key; the `DELETE` of a list keeps another `DELETE` and
  another's inserts out of the gap. Deadlocks they make are `Fail`.
* `save()` writes the columns in which the entity differs from the snapshot, so
  two imports can each leave a column, and the row may be of one import and the
  lists of another: `books_format_apart` shows the link of one with the format of
  the other. What the readers rely on, and what holds, is `ReadableOnceImported`:
  each column that is written comes from an answer that can be read
  (`isReadableContent`, checked by `FindBook` before the transaction; `External`
  has answers that cannot).
* A title stands for title, description and cover, which are always written
  alike. Positions in a list are left out: they are written and read back as they
  are.
* Tables before the first import may hold books with no content or no format,
  from before the columns existed.

### Catalogs: state, actions and code

`stored` is `book_providers`, by code; `seeding` what a seed found missing.
`load` holds the requests that use the catalogs: an import by reference
(`find`), the page of a search, the whole of one provider (`one`) or of all
active ones (`all`). `queue`, `calling` and `elapsed` are arXiv's queue - the
promise chain, the request that is out, the time since `lastRequestAt`. `quiet`
is history: the time since arXiv really had its last request from here.

| Code (`catalogs.service.ts`, its `providers`, `books.service.ts`) | Actions and operators |
|---|---|
| `seedProviders` | `FindMissing`, `SaveMissing` |
| `importFromExternalReference`, `importFromSearch`, `importAllFromProvider`, `importAllFromAllProviders` | `AskOne`, `AskSearch`, `AskAll` |
| `resolveActiveProviders`, `resolveProvider` | `Consult`, `ProviderDisabled`, before every page |
| `search`, `Promise.allSettled` | `Answered`, `Failed`, `Settle` |
| the loop over the pages of a load | `AfterPage`, `NextProvider` |
| each provider's `search` and `findByExternalReference` | `GutendexSearch`, `GutendexFind` and so on; `Answer`, `Unavailable` |
| `fetchFeed` of arXiv, its `requestQueue` | `Consult` (joins), `FetchFeed` (goes out), `LeaveQueue` |
| `upsertFromExternalBook` | `Upsert`: one step, which succeeds or fails (`BookImport` has it in full) |
| mappings of the four providers | `ExternalBooks` |

* An item of a provider is abstracted to what decides what becomes of it: an
  identifier, a title, links (their kind and whether the column takes them), names,
  languages, subjects. The tables that translate subjects into categories are
  data: a subject carries its categories. `CatalogAssumption` says no more of the
  items than that.
* A page is the set of its books, each with its position in the result set, and
  what is left to write is the set of those not written yet: the code's order, by
  provider and position, is `NextOf`.
* The result set of a query keeps its size while it is paged through; what its
  positions hold is chosen when they are answered. Providers really change
  their sets between pages, and then no load can be complete.
* An administrator turns providers off and on in the database: no endpoint does.
* `lastRequestAt` is the process's. A second process, or one that was restarted,
  knows nothing of it, and then the interval may not be kept; the code says no more
  than that it orders its own requests, and neither does the model.

### Reading content: state, actions and code

`get` is a request for a page, `open` what it holds open. Requests share nothing,
so there is one.

| Code (`reading/content`) | Actions and operators |
|---|---|
| `getPage` | `GetPage`; `PageOf`, `Refused` are its ends |
| `fetch`: destination, redirects, status | `EnsurePublicDestination`, `FetchElsewhere`, `FetchContent` |
| `readLimitedBody` | `ReadLimitedBody`, chunk by chunk |
| text and HTML processors | `Process` with `TextPages`, `splitLongParagraph`, `HtmlPages` |
| EPUB processor | `ProcessEpub`, `OpenArchive`, `FindEntry`, `ReadEntry`, thrice; `BuildManifest`, `Chapters`, `ReadingOrderIsValid` |
| PDF processor | `LoadPdf`, `GetPdfPage`, `CreateCanvas`, `RenderPdf`: each opens one thing more, and may fail |

* A paragraph of plain text is its length and the places of its white space: of
  `spaces`, the character `' '`, where `splitLongParagraph` looks for a cut, and of
  `breaks`, single line breaks, tabs and the like, where it does not: without a
  `' '` up to `Target` it cuts at that length, also through words that are shorter
  than a page and stand between line breaks. `trim()` takes either from both sides
  of a cut. Paragraphs begin and end with a character that is neither, for
  they were trimmed; a page is a sequence of parts of paragraphs, from one place to
  another. `TextIsWhole` asks that every character is on a page once and in order,
  and that what is between two `' '` is cut only if it is longer than a page.
* A block of HTML is the length of its text, a chapter the name of its entry, a
  page of a PDF its size.
* What is longer than a page is cut at that length wherever that is, so it may
  cut a character outside the basic plane in two: places do not show it.
* Parsing of XML, sanitizing, rendering and DNS are libraries': they succeed or
  fail, and sanitizing may leave nothing. What addresses are public is not
  modelled, only that it is asked before every request, those of redirects too.

`Outside` puts catalogs and content into one specification. They share no state,
so one moves while the other is as at the start: their product would show
nothing that the two do not.

## The runs

| Run | Instance | Checks | Shows |
|---|---|---|---|
| `links` | 2 accounts, 2 rows, 2 PayPal subscriptions, 1 charge, 2 requests, time 0..1 | `OneOpenReservation`, `LinkedToItsSigner`, `LinkIsFinal` | about 2 million states |
| `payments` | 1 account, 2 rows, 1 PayPal subscription, 2 charges, 2 requests, time 0..2 | `IInv`, `RecordedIsGenuine`, `PremiumIsPaid`, `AnsweredIsApplied`, `NotifiedOnce`, `CanceledIsFinal`, `PeriodNeverShrinks`, `ImplementsContract` | about 940 thousand states, with the invariant the proofs use and the refinement |
| `liveness` | 1 of each, 2 requests, time 0..1, 1 fault | `PaymentIsRecorded`, `CancellationIsRegistered` | under fairness, no symmetry |
| `reading_periods` | 2 accounts, 2 tokens, 2 requests, `FreePeriod` 1, `ChallengeTTL` 2, time 0..2 | `IInv`, `PeriodsDisjoint`, `OnePeriodPerChallenge`, `ConsumedGivesPeriod`, `ToldIsGranted`, `OpenedInPeriod`, `OnlyLatestChallenge`, `KeepsPromise` | about 2.3 million states, with the invariant and the refinement |
| `favorites_limit` | 2 accounts, 3 books, 2 additions, limits 1 and 2 | `WithinBestLimit`, `FullShelfStays` | about 290 thousand states |
| `favorites_downgrade` | 1 account, as above | `NoAdditionAfterDowngrade` | **violated**, see below |
| `accounts_recovery` | 1 account, 3 tokens, 2 passwords, 3 requests, time 0..1 | `OneTokenPerAccount`, `UsedSetsPassword`, `OnlyLatestToken`, `DisabledKeepsPassword`, `KeepsContract` | about 380 thousand states, with the refinement |
| `accounts_stale_save` | 1 account, 1 token, 2 passwords, 2 requests | `SetPasswordStands` | **violated**, see below |
| `books_import` | 2 imports, 2 books, 4 answers of providers that can be read and 2 that cannot, rows stored before with a format and without | `CreatedOnce`, `ListsOfLastImport`, `AloneIsWhole`, `LanguagesListed`, `ReadableOnceImported` | about 1.5 million states |
| `books_lists_replaced` | as `books_import` | `ListsReplacedWhole` | **violated**, see below |
| `books_format_apart` | as `books_import`, rows stored before with a format | `FormatTravelsWithLink` | **violated**, see below |
| `outside` | 2 requests, 4 providers, pages of 1 (Gutendex 2), 2 pages at most, result sets of up to 3, interval 1; some 640 documents, 1 redirect, 2 chunks, pages of 4 characters | `LoadIsComplete`, `BooksFitTables`, `PageIsOfDocument`, `NothingLeftOpen`, `IntervalKept`, `EveryRequestEnds`, `EveryPageEnds` | about 290 thousand states |

Why the bounds are enough: the races are between two requests on one row (two
tasks), the confusions between two rows, two owners, two PayPal subscriptions
(`links`) or two months (`payments`: two charges one period apart, with an
instant after the second so that a period can end). Reading needs a first period
and two more (two tokens) and an instant at which the first has ended; a
challenge lives longer than a period there, which the configuration allows
(`READING_FREE_PERIOD_MINUTES` may be below the five minutes of a challenge) and
which alone tests that a consumed challenge stays consumed. Favorites need a
shelf full for the free plan, one more by the Premium plan, and a book beyond
both; limits of 1 and 2 stand for 3 and 50. Recovery needs a token, one that
replaces it and one more, and a third request beside two that race. The race of
two imports is between two; a second book shares the table of languages with the
first. In `outside` a result set of 3 is one more than `MaxPages` pages of the
three providers whose pages are of 1 and needs a second page of Gutendex; where
several providers are consulted by one request two have a book each, for their
answers do not depend on each other; the second request waits in arXiv's queue
behind the first, or the first behind it. Texts are every
paragraph of up to six characters, with spaces and breaks at any places inside, and
every sequence of up to three of four paragraphs that are shorter than a page of
four characters, and longer than one and than three; spines up to three
references, linear or not, to chapters, pictures, entries that are missing,
duplicated or outside. `MaxTime`, the sets of ids and the one question of each
reader are the only bounds, so a behaviour ends when they are used up; the runs
with `CHECK_DEADLOCK FALSE` have it for that reason alone. The inductive
invariants of favorites, accounts, imports, loads and pages are proved and not in a
run: what they imply is. Each property has a mutant in `PROJECT.json`: a plausible mistake in one
definition with which TLC finds the property violated under the same
configuration.

**`favorites_downgrade`.** README.md, lines 793 to 795, says that an account whose
subscription has ended cannot add favorites until it has fewer than three, and
line 788 that the end shows at once. `addFavorite` asks for the plan before it
opens its transaction, and compares the count with that answer after it was
granted the lock of the user row. An addition that waits while the subscription
ends goes by the Premium limit. What does hold is `FullShelfStays`: only an
addition that asked while the account was Premium can do so.

**`accounts_stale_save`.** The owner of the account is told that the password has
been reset or updated (`i18n/locales/en/auth.json`, lines 16 and 17). `update`,
`disableUser` and `enableUser` save the entity they read, without a lock and with
all its columns. If the password is set between the read and the save, `save()`
finds that the entity has another one and writes the old one back. The window is
the request of an administrator; nobody is told.

**`books_lists_replaced`.** The comments of `books.service.ts` say that the
three tables are left consistent (lines 514 to 516) and that the whole list is
replaced (line 624). An import takes its snapshot, waits for the row while
another import of the book replaces the lists and commits, and goes on: its
`DELETE` removes the other's rows, its `save()` then looks for the keys of its
own, finds in the snapshot those that the other one has removed, and takes them
for rows that exist. They are updated, which changes nothing, and not inserted.
The book lacks authors or languages until the next import of it. What does hold:
rows that are there are the last import's (`ListsOfLastImport`), and an import
beside which none committed is whole (`AloneIsWhole`).

**`books_format_apart`.** The comment on the two columns (`books.service.ts`, lines
553 and 554) says that the format always travels with its link and both are updated
together. Both are assigned, but `save()` writes only the columns that differ from
the transaction's snapshot, which `findOne` took without a lock. An import that
changes link and format commits; another one that read the row before, and brings
another link and the format it read, writes the link alone. The row then has a link
with the format of another one, and the reader's page is processed as what it is not
until the next import mends it.

Five statements of the repository are narrower in the code than in their words,
and the model has them as the code does. A full page of Standard Ebooks of which
an item cannot be mapped counts as the last one, and the load ends early though
the comment (`books.service.ts`, line 501) says the results ran out. A load
whose number of results is not told may report that it was truncated when the
last page it was allowed was full and there was none behind it (`README.md`,
line 610). A provider that is disabled during its load answers 404 for the whole
and the report of what was imported is lost, although a load of all providers is to
leave disabled ones out without an error (`README.md`, lines 646 to 648). If
all providers are disabled, all are consulted (`catalogs.service.ts`, lines 227
to 228). `LoadIsComplete` says which of them make a load less than complete. And a
reservation or a subscription in force prevents another one (the comment at
`subscriptions.service.ts`, lines 101 and 102) only as far as the lock of the user
orders it: a late payment webhook holds the lock of its row and not the user's,
so it may extend a CANCELED row, whose period the check has read as NULL or past,
beside the insertion of a reservation. `OneOpenReservation` is what holds. These
five are described here and have no run of their own.

### Fairness

`SubscriptionsLiveness` adds what the environment does: a step that can be taken
is taken in the end (`SF` on `Works`: Node runs every continuation, InnoDB grants
locks in turn, and a request waiting for a lock sees it released again and again);
a request that is refused ends (`WF` on `Refused`); PayPal delivers a notice until
it is answered (`SF` on a delivery, since request slots may be busy); PayPal's
billing information catches up with a completed charge (`WF` on `Billed`).
Settlement of a charge, cancellation and the clock have none. `MaxFaults` bounds
how often a request that could go on is lost; without a bound everything may fail
for ever, and PayPal's retries would prove nothing.

`OutOfReach` names the charges the code cannot apply however often PayPal
retries: the billing information is of a later charge, or was cancelled away, or
the reference names no row it may be linked to. The property says that nothing
else keeps a completed charge from being recorded.

`CatalogFairness` is weak: time passes (`CatalogTick`), and a request that can
go on does (`GoOn`) - the server runs its continuations, and a request to a
provider ends with an answer or within the time limit of the shared HTTP client.
Weak fairness for each request is enough because nothing takes from a request at
the head of arXiv's queue what it waits for. `ContentFairness` is the same for a
page (`PageStep`): each request of the fetch has a time limit that covers its
body, and the redirects are counted. Nothing is assumed about which answers
come, and none of providers or administrators.

## The proofs

Those of subscriptions are for any sets of accounts, rows, PayPal subscriptions,
charges and requests, any `Period > 0` and any `MaxTime`, from
`SubscriptionsAssumption` alone:

1. `SubscriptionsProofs!TypeCorrect`: `Spec => []TypeOK`. `TypeOK` includes
   `Informed`, what a request knows at each step; it is inductive by itself.
2. `SubscriptionsProofs!InvariantHolds`: `Spec => []IInv`. The safety properties
   are not inductive: they speak of the table, and a step writes what a request
   read earlier. `IInv` adds what holds between the steps of requests:
   * `RowsHeld`: the row a transaction will save is still the row in the table,
     and no other transaction holds it. Everything else rests on this.
   * `UsersHeld`: a reservation about to be inserted is the only one of its
     account, which has no open row - webhooks may extend a row of the account
     but never open one, since a canceled row stays canceled.
   * `RowsWellFormed`, `LinksBacked`: only linked rows have a period or are
     canceled; a link about to be written was signed for the row.
   * `BillingPeriod`, `PaymentsBacked`, `PeriodIsRecorded`: a payment on its way
     carries the period of its own charge, and the period of a row is that of a
     recorded payment.
   * `ToldOnce`: what is about to be published is committed, and nobody else
     has published it or will.

   There is one lemma for each part and the actions that can disturb it;
   `OneOpenReservation`, `LinkedToItsSigner`, `RecordedIsGenuine`,
   `PremiumIsPaid`, `AnsweredIsApplied` and `NotifiedOnce` follow.
3. `CanceledIsFinal`, `LinkIsFinal`, `PeriodNeverShrinks`: action properties, each
   step by step from `RowsHeld`.
4. `SubscriptionsProofs!ContractImplemented`: `Spec => ImplementsContract`,
   the commit of each transaction mapped to one step of the contract, every other
   step to a stutter.

Those of reading are for any sets of accounts, tokens and requests, any positive
`FreePeriod` and `ChallengeTTL` and any `MaxTime`, from `ReadingAssumption` alone,
all in `ReadingAccessProofs`:

1. `TypeCorrect`: `Spec => []TypeOK`.
2. `InvariantHolds`: `Spec => []IInv`. The properties compare periods that were
   given, and a redemption gives one from what it read two steps before. `IInv`
   adds:
   * `Redeeming`, `RedeemsToken`: while a transaction holds the
     access row the account's period is over, nobody else holds the row, and the
     challenge it has locked is the one it will consume.
   * `Clocked`: the instants requests carry are past.
   * `AccessIsLast`: an account has a row exactly if it was given a period, and
     the row ends with the last one - so the next, which starts after it, overlaps
     none of them.
   * `ChallengesOwned`: the challenge of an account was issued to it.

   The five invariants are conjuncts of `IInv`.
3. `OnlyLatestChallengeHolds`, an action property, from the lock of the challenge.
4. `PromiseKept`: `Spec => KeepsPromise`, each given period one `Grant`.

Those of favorites are for any sets of accounts and requests, any finite set of
books and any two limits in order, from `FavoritesAssumption` alone, in
`FavoritesProofs`: `TypeCorrect`; `InvariantHolds`, where `IInv` adds to the types
and to `WithinBestLimit`

* `LimitOfPlan`: the limit an addition carries is of a plan the account has had;
* `RoomForOne`: one addition at a time is between its check and its insert, and
  the shelf still has room for it - removals make more, imports count for the
  code but were no additions;
* `AddedIsReadable`: what was added is readable, so the code counts at least what
  the property counts;

and `WithinBestLimitHolds`, `FullShelfStaysHolds`. Counting rests on the library's
`FiniteSetTheorems`.

Those of accounts are for any sets of accounts, passwords, tokens and requests,
any positive `TokenTTL` and any `MaxTime`, from `AccountsAssumption` alone, in
`AccountsProofs`: `TypeCorrect`; `InvariantHolds`, where `IInv` adds to the
types and to `UsedSetsPassword`

* `OnlyLastExists`: the only row an account may have is that of its last token;
* `ResetHolds`: the token a reset has read is still there as read, unused, and no
  other reset has it;
* `RecoveryHolds`: the rows a recovery has found are still all its account has,
  and no reset is using one;
* `ActiveUntilCommit`: an account cannot be disabled between the update of its
  password by a reset and the commit;
* `HeldPasswords`: the password of an account, and the one in an entity that will
  be saved, was once given to the account;

and `OneTokenPerAccountHolds`, `UsedSetsPasswordHolds`, `OnlyLatestTokenHolds`,
`DisabledKeepsPasswordHolds`. The two lock parts disturb each other's steps, so
one lemma for each step proves all parts. `ContractKept`, `Spec => KeepsContract`,
maps the commit of a recovery and of a reset, the update of a change and the write
of a save each to one step of the contract and every other step to a stutter. The
contract lets a save restore any password the account was given: that is what
`accounts_stale_save` finds, and the most that the code promises.

Those of imports are for any sets of books, answers, list entries and tasks,
from `BookImportAssumption` alone, in `BookImportProofs`: `InvariantHolds`,
where `IInv` adds to the types and the invariants

* `RowWritten`: what an import has done to the row, by its status - "created" is
  written under the exclusive lock, while the row is not there for others;
* `OneWriter`, `OneReplaces`: one import at a time has written the row, or has
  replaced a list, and not committed;
* `SeenIsCurrent`: the snapshot is the table until another import commits;
* `ListsHeld`: a list that was replaced is still the one that was deleted, and
  what was inserted was asked for - all of it while no other import committed;
* `LanguagesComing`: the languages of a list are in the table or come with the
  commit;

and `CreatedOnceHolds`, `ListsOfLastImportHolds`, `AloneIsWholeHolds`,
`LanguagesListedHolds`, `ReadableOnceImportedHolds`.

Those of the catalogs are for any requests, any items providers may list, any
sizes of pages and result sets, any `MaxPages` and `Interval`, from
`CatalogAssumption` alone, in `CatalogsProofs`:

1. `LoadIsCompleteHolds`. The property speaks of a load that is answered; what it
   was given and what it wrote were settled page by page before, so the invariant
   `LoadsGood` says of each request, at the step where it is:
   * `Ahead`: the providers the load is through with are `Complete` - answered to
     the end, or with a reason that the load reports - and nothing of those after
     the present one was asked or written; if the load was cut short, one it is
     through with has more than a load takes (`Beyond`);
   * `AnsweredTo`, `WrittenTo`: of the present provider everything up to the end of
     the last page was answered, and nothing behind it was written. That is why
     `imported` and `failed` never meet: the places of a page are new;
   * `MoreMeans`: what the next page was decided by. A page without a next one ends
     the result set, and one with a next does not, but for a guess. Here the
     counting of the four providers is compared with the size of the result set: a
     full page of which nothing was dropped holds `PageSize` positions;
   * what was readable in the pages given is what was written or reported, what is
     left to write, and what waits in the pages of the other providers, and these
     three never overlap.

   There is one lemma for each thing a request does between two steps (`Settle`,
   `Storing`, `AfterPage`, `NextProvider`, `Answered`, `Failed`), and one for each
   action on top of them.
2. `BooksFitTablesHolds`. What is left to write came from a provider's mapping
   (`LoadsGood`), and `BooksByFit` says of each of the four mappings, for any item,
   that it keeps link and format together, has nothing twice in a list, and, for
   authors and languages, leaves nobody out below the limit (`AuthorsFit`,
   `LanguagesFit`). The key of `book_languages` would refuse a language twice; that
   of `book_authors` is the author's place and would let an author through twice,
   and categories are looked up as a set.
3. `IntervalKeptHolds`, from `Timed`: while no request is out, the time the queue
   counts is never more than the time since arXiv's last request.

That proof showed a mistake in the model: the alternatives of `Settle` were not
exclusive, for a lookup or a search of one provider that failed was also a load's
failure by the guard that was there. The values agreed with the code's only because
TLC takes the first alternative; the guard now names loads.

Those of the content are for any documents of the types named in
`ContentAssumption`, any length of a page, any limits, in `ContentProofs`:

1. `PageIsOfDocumentHolds`, from `Right`: a request that goes on has what its step
   needs of the very document (all of its bytes after the body, the manifest before
   a chapter), and `IsPageOfDocument` of an answer. What the processors compute is
   proved for every document:
   * `Split`: the fragments of a paragraph that is too long are parts of it in
     order, none longer than a page, which hold all its characters that are not
     white space, and whole what is between two `' '` and not longer than a page.
     `WhereItIsCut` bounds the cut, `NothingIsCut` is why it goes through nothing
     that is to stay whole, `CutKeeps` the step from the rest to the whole;
   * `TextPagesAreWhole`, `HtmlPagesAreWhole`: the pages one after the other hold all
     characters, or all blocks with text, in their order; no page is empty, none of
     text is longer than a page may be, and one of HTML only if it is a single block;
   * `ChaptersInPlace`: a chapter is the entry of the linear references in the order
     of the spine.
2. `NothingLeftOpenHolds`, from `Held`: at each step of a page, exactly what that
   step has opened is open.

Both rest on `ListsProofs`. The library states induction for an operator, which the
provers cannot instantiate; `NatLeast` states it for a *set* of numbers, from the
library's theorem that the order of the naturals is well founded, and `NatAll`,
`UpToAll` follow. `Recursion` proves that a function defined by recursion over
the positions of a sequence exists and has the defining equations, again with a
set of functions in place of an operator. `AtRuns`, `SumRuns`, `DistinctRuns`,
`FlattenRuns`, `SplitRuns`, `TextRuns`, `SheetRuns` take each recursive definition
of the models to its equations.

Only model-checked: liveness (`PaymentIsRecorded`, `CancellationIsRegistered`,
`EveryRequestEnds`, `EveryPageEnds`), since TLAPS has neither liveness under
fairness nor `ENABLED`; and the properties that are violated. Every other property
a run checks is a theorem.

## What is not modelled

Of subscriptions: the connections of the event stream (an event published while
nobody listens is gone; the frontend asks for its membership), the account
status guard, read-only queries, and the validation of the shape of PayPal's
responses. The cache of PayPal's access token has no module: a token that is
refused is one more reason for a call to fail, and every call may fail. Of
favorites, the position in a book: one `UPDATE` that the last writer wins. Of
accounts, registration, where the unique columns decide a race, and the profile.
Of books, the listings and the detail, whose queries may see two imports each in
part until they are asked again. Of arXiv's queue, processes beside each other.

Categories, analytics, captcha, email, i18n, throttling, configuration, seed and
migrations keep no state of their own that requests could race on, or are calls
to services outside. `PROJECT.json` lists them with their reasons.

## Plan

Done, in this order: `Subscriptions` with its contract; `ReadingAccess` with
`FreePeriods`; `Favorites`; `Accounts` with `AccountContract`; `BookImport`; `Catalogs`
with `ExternalBooks`; `ReadingContent`. Left, most important first:

1. A composition of `Subscriptions` with `Favorites` or `ReadingAccess` in which
   the membership is the one derived from paid periods.
2. An abstract specification of a shelf with a limit, implemented by `Favorites`.
3. The detail of a book read beside an import; two processes beside arXiv's queue.
