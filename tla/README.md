# A TLA+ model of the local-services marketplace

This directory holds TLA+ specifications of the parts of this repository whose
correctness depends on the order in which things happen: the orders of the
booking service and their payment, the rows and the cache of the catalog, the notifications,
the sessions of the mobile client and of the web applications, and the screens from which people act.
TLC checks them on small instances; TLAPS proves the theorems of the `...Proofs`
modules for every size.

The repository is a marketplace of home services: a client orders a service on a
date, its provider confirms, reschedules or refuses, and a confirmed order is
charged. Six NestJS services run behind Kong on Kubernetes; each has its own
Postgres, and they talk through Kafka. Three React applications and one in
Flutter are its users.

## 1. Inventory

| Part | State it keeps | Operations | Talks to |
|---|---|---|---|
| booking-service `orders.service.ts` | `orders` table | `createOrder`, `updateStatus` (reads: `findAll`, `findOne`) | Kafka: `order_created`, `order_confirmed`, `order_cancelled`, `order_rescheduled` |
| payment-service `payments.consumer.ts`, `payments.service.ts` | `payments` table (unique `orderId`), the group's committed offset | `handleOrderConfirmed`, `processWebhook`, `simulateClientPayment`, `applyGatewayEvent` | reads `order_confirmed`; gateway; emits `payment_processed` |
| catalog-service `services.service.ts`, `redis-cache.service.ts` | `services` table, Redis entries and `catalog:ver` | `create`, `update`, `remove`, `findAll`, `findOne`, startup seed | Redis |
| notification-service | last 200 notifications in each replica's memory, an rxjs Subject | `record`, `stream`, `findAll`, `clear` | reads the five topics; SSE to the screens |
| auth-service `auth.service.ts` | `refreshTokenHash`, one per user | `register`, `login`, `refresh`, `me` | bearer tokens that Kong and `JwtAuthGuard` check |
| user-service | `profiles` table | `upsert`, startup seed | |
| media-service, image-optimizer | none | media-service is a placeholder; the Lambda converts images | S3 |
| livio-client `api_client.dart`, `token_storage.dart` | two secure-storage keys, `_refreshInFlight` | every API call, the renewal on 401 | Kong, auth-service |
| livio-client `auth_controller.dart`, `main.dart` | the `AuthState` | `_restore`, `signIn`, `signOut`, `onSessionExpired` | `ApiClient` |
| client-app, provider-app: `MyRequests`, `OrdersDashboard` | a copy of the orders, `actionLoading`, the date picker | polling, status changes | booking-service, payment-service |
| client-app: `Catalog`, `BookingModal` | a copy of the services, the form | fetch, `handleSubmit` | catalog-service, booking-service |
| client-app: `EventFeed` | the list of notifications | history, stream, `Limpiar` | notification-service |
| the three web applications: sign-in | the token in `localStorage`, the user of each tab | restoring, login, logout | auth-service |
| scripts | `.env`, database passwords | rotation | Postgres |

What makes the system hard:

- **Interleaving at every await.** A handler is not atomic: it yields at
  `findOne`, inside `repo.save` (TypeORM's own SELECT, its diff, then an UPDATE of
  the differing columns) and at the Kafka send. No row has a version column and no
  statement locks one; booking, payment and catalog run one to four replicas
  (`infra/k8s`, HPA). Checks are therefore made on copies that may be stale.
- **At-least-once and at-most-once mixed.** Consumers see messages again after a
  crash or a rebalance; the producer (kafkajs, not idempotent, three retries) may
  append twice; and an event whose send fails after the commit is dropped.
- **Errors swallowed on purpose**: in `handleMessage`, in every cache operation,
  around every `emit`, in silent fetches.
- **A rotating single refresh token** shared by calls that run side by side, and
  sign-outs that delete it while they do.
- **Copies on screens** that are seconds old when a person acts on them, answers that
  arrive late, requests given up that are carried out all the same, tabs that share a token.

What correctness means, part by part:

- orders: consent of both parties, the agreed date, events that tell the truth,
  finality of settled orders, and the state machine when requests do not overlap;
- payments: one charge per order, no confirmation skipped, nothing settled or
  announced that the gateway did not report;
- together: nobody is charged without consent, a confirmed order is charged unless
  its announcement was lost;
- cache: a read shows the writes answered before it began;
- catalog rows: a service is as its own provider said, a removed one stays removed;
- notifications: every event is consumed, the open screen misses and doubles none
  outside a known window;
- sessions: they survive calls that expire together, every wait ends, who signed out
  stays out, nobody is inside an application that is not for them;
- screens: what a person confirms is what they saw, one request per order, and the copies
  catch up.

## 2. Modules

| Module | Models | Role |
|---|---|---|
| `OrderRules` | TRANSITIONS, PROVIDER_ONLY, CLIENT_ONLY, the checks and edits of `updateStatus`, the diff and UPDATE of `repo.save` | shared by `Orders` and `OrderScreens` |
| `Orders` | `orders.service.ts`, booking's Kafka producer | the handlers, await by await |
| `OrderLifecycle` | the same table as one-step moves | abstract specification of `Orders` |
| `OrdersProofs` | | theorems about `Orders`, its refinement of `OrderLifecycle` when requests do not overlap, and theorems about `Marketplace` |
| `Payments` | `payments.consumer.ts`, `payments.service.ts`, the simulated gateway | the consumer group and the callbacks |
| `PaymentLedger` | confirmed, then charged once, then settled once | abstract specification of `Payments` |
| `PaymentsProofs` | | theorems about `Payments`, with its refinement of `PaymentLedger` when callbacks do not overlap |
| `Marketplace` | booking and payment over `order_confirmed` | composition: EXTENDS `Orders`, INSTANCE of `Payments` |
| `CatalogCache` | `redis-cache.service.ts` and the paths around it | cache-aside with a namespace version |
| `CatalogCacheProofs` | | theorems about `CatalogCache` |
| `Directory` | catalog rows, their seed, `Catalog`, `BookingModal` | from a published service to an order for it |
| `DirectoryProofs` | | theorems about `Directory` |
| `Notifications` | notification-service | consumer group, histories, stream |
| `EventFeed` | `EventFeed.tsx` | composition: EXTENDS `Notifications` with the screen |
| `EventFeedProofs` | | theorems about `EventFeed` |
| `OrderScreens` | `MyRequests.tsx`, `OrdersDashboard.tsx` | two screens over the rules of the service |
| `OrderScreensProofs` | | theorems about `OrderScreens` |
| `Sessions` | `ApiClient`, `TokenStorage`, `AuthService.refresh` / `issueTokens` | the steps of the renewal on 401; a part of `LivioApp` |
| `LivioApp` | `AuthController`, `AuthRepository`, `_Root` | composition: EXTENDS `Sessions` with start, sign-in and sign-out |
| `LivioAppProofs` | | theorems about `LivioApp` and `Sessions` |
| `WebSessions` | `AuthContext` and login forms of the web applications | tabs over one `localStorage` |
| `WebSessionsProofs` | | theorems about `WebSessions` |
| `MC...` | | symmetry sets and function values for TLC |

In each module a request, a call or a replica is a process whose *phase* names the
await it stands at; one action is the code between two awaits. Operators whose
comment starts with *Slip* (`InsertUnindexed`,
`PermittedToEither`, ...) are plausible mistakes that replace one definition at a
time to confirm that the property concerned notices them; nothing else uses them.

### Orders
`orders` is the table, `request` the handlers under way, `topic` the Kafka logs,
`deeds` a history of who wrote which transition. `CreateOrder` is `createOrder` up
to its save; `LoadOrder` is `updateStatus` from `findOne` to the edited entity
(its checks are `Permitted`, its edits `Edited`, both of `OrderRules`); `SelectRow` and `UpdateRow` are
the two statements of `repo.save`, with `Changed` the diff and `Overlay` the
UPDATE (of `OrderRules` as well); `Emit` appends once or twice; `EmitFails` is the swallowed error and the
replica that stops after its save; `Abort` the one that stops before. A refused
request changes nothing, so it is a stuttering step. `SerialSpec` adds only that
people do not have two requests on one order in flight.

### Payments
`consumer[k]` is replica k's loop. `Assign` gives it the partition at the
committed offset, `FindPayment`, `CreateIntent`, `Insert` are
`handleOrderConfirmed`, with the unique index in `Insert`; `Swallow` is the catch of
`handleMessage`; `Commit` is taken from the owner only; `Leave` is a replaced
replica noticing; `Crash` loses everything but the database, the log and the offset.
A callback is `Pay` or `Webhook`, then `Apply` (`findOne`, `Ignored`, `Settled`),
`SelectRow`, `UpdateRow`, `Emit` or `EmitFails`. `Webhook` is guarded by `Verified`: a
signature is modelled as who made it, and only the gateway's passes. The model takes replicas whose
consumer has started: one whose `onModuleInit` failed is logged and never consumes
(`Notifications` has that case).
One partition: the topics are created automatically with the broker's default, and
the messages of one order share a key in any case.

### Marketplace
The consumer reads `Confirmations`, the order ids of `topic["order_confirmed"]`;
a step is a step of one service. Callbacks are left to `Payments`.

### CatalogCache
A table state is the number of writes it has seen; an entry is the generation it was
computed from. `blind` marks a read whose `safeVersion` fell back to 0, `missed`
an INCR that failed, `answered` the newest write answered so far and `floor` what it
was when the read began. Redis goes away (`GoAway`) and comes back with what it held (`ComeBack`: the
network was away, or the Redis of `docker-compose.yaml` started again on its volume) or is replaced by an empty
one (`Replaced`: the pod of `infra/k8s/infra/redis.yaml` has no volume, so its append-only file goes with
it), which counts versions from 0 again. A key made before a replacement, and an entry stored under it, is `adrift`.

### Directory
`services` is the table, with `owner`, `price` and `active` standing for all columns
(the other texts behave as `price`); `write` the PATCH and DELETE requests, each
loaded (`Load`: 404, `Owns`, `Edited`), then saved in two statements; `replica` is
where each `onModuleInit` stands between its `count` and its `save`. The actor is the
`x-actor-id` header, an input. On the screen, `Browse` is Catalog's one fetch, `Choose`,
`Submit`, `Booked`, `SendFails`, `Close` the modal, and `Place` is `createOrder` of
the booking service, which may come after the modal gave the request up.
`said`, `placed`, `failed`, `together` and `seeds` are histories.

### Notifications and EventFeed
An event is a partition and an offset. `HandleMessage` records it in the replica's
capped `history` and in the inbox of the subscriber, and may commit the offset behind it;
`Assign` and `Revoked` are a rebalance as the broker and as the replica see it;
`Start` may leave a replica *deaf*, the swallowed failure of `onModuleInit`.
`feed` is the component: the fetch (`ReadHistory`, `LoadHistory`, `FetchFails`) and the
EventSource (`Subscribe`, `Deliver`, `Break`) run side by side, and each may be answered
by another replica. `read` and `blind` are histories that delimit the blind spot, from the moment the history
was read to the one its answer replaced the list or the stream was last opened.

### OrderScreens
`orders` is the table, `shown` the copy of each screen, `asked` the answers under way to it, taken
when the service read them (`Fetch`) and put on the screen later (`Arrive`) or never (`Drop`). `click`
are the PATCH requests. On the screen's side one is sent, then answered (`Answer`, `Fail`) or
`abandoned` after axios's ten seconds; on the service's side it comes in, is refused for its token
(`Deny`) or goes through `updateStatus` await by await, as in `Orders`: `Load` is `findOne`, the checks
and the edits, `Select` and `Update` the two statements of `repo.save`. Nothing makes the two sides
wait for one another, so a request that was given up may stop anywhere in the service and go on when
others have been made, seen and saved. `spent` are the screens whose 15-minute access token has run out
(`Expire`), until somebody signs in again in a tab beside it (`SignInAgain`: the tabs share the
token); with it the silent fetches fail and say nothing. `busy` is `actionLoading`, `picker` the order
whose date picker is open. `payments` is what `getMyPayments` has brought: nothing, since it sends no
token (`SendsToken`). `forgot`, `late` and `crossed` are histories: a screen that lost count of its
requests, the proposals the service had read when it saved another one, the orders on which such a
late proposal was saved.

### Sessions and LivioApp
`flight` is `_refreshInFlight` and the progress of `_performRefresh`; `exchanges` are
the refresh requests the service holds (one that the client has given up goes on);
`store` the two storage keys, written and cleared one after the other. Pairs
are numbered as issued. `Expire` ends an access token (`expired`), `Lapse` the refresh tokens of somebody
who has not renewed for their seven days (`lapsed`); it counts as a disturbance, like a lost connection.
A pair issued in the same second as the previous one is the same pair, since the claims have nothing else to differ in. The access token is
assumed to outlive the end of the exchange that issued it and the repetition of the calls
that waited for it (15 minutes). `LivioApp` adds the routines that set the screen: `entry` those that bring the
app in (`_restore`, each sign-in: `LoginAnswered`, `WriteTokens`, `Me`, `Conclude`),
`leaving` the sign-outs (the person's, `_restore`'s, one for each call whose renewal failed),
each deleting key after key (`Leave`). They do not wait for one another, and neither
does the code. `crossed` and `left` are histories. A sign-in is *kept* when it has stored tokens without
bringing the app in: `me` failed, or the app was stopped between the two keys; a restart forgets a
kept one only if it finds both keys, and then `_restore` takes it over.

### WebSessions
`stored` is `airserviz_token`, shared by the tabs of one application; `tab` is what each shows and
the `getMe` it waits for. `app` is chosen at the start: the three applications run on origins of their own and differ
in `Restores`, `Enters` and in what a failure clears. `List` fetches orders with whatever
token is in the store by then; `foreign` is a history.

## 3. Runs

| Run | Checks | Bounds |
|---|---|---|
| `orders_race` | `TypeOK`, `Consent`, `DateWasAgreed`, `EventsTellTheTruth`, `SettledIsFinal` | one order, two people, two dates, four requests: creation, and three overlapping updates, enough for a stale save over a stale save |
| `orders_serial` | `ConfirmedOnce`, `ImplementsLifecycle` | five requests: the longest path through the table, creation to COMPLETED with a proposal on the way |
| `payments_race` | `TypeOK`, `OnePaymentPerOrder`, `CommittedIsCharged`, `SettledAsReported`, `SettledIsFinal` | two replicas, a confirmation twice, two failures, three callbacks: a replaced replica and its successor insert at once |
| `payments_serial` | `AppliedOnce`, `ImplementsLedger` | two orders, one failure |
| `marketplace` | `ChargeHasConsent`, `ConfirmedIsChargedOrLost` | three requests, one replica, one failure |
| `catalog_cache` | `TypeOK`, `FreshUnlessDegraded` | three reads, two writes, two outages, each of which may end in a replacement |
| `directory` | `TypeOK`, `AsItsProviderSaid`, `RemovedStays`, `SeededTwiceOnlyTogether`, `SecondOrderOnlyAfterError` | two services, two providers, two prices; two replicas, one restart; two writes or orders: a DELETE and the PATCH that overlaps it, an order and its second try |
| `feed` | `TypeOK`, `FeedComplete`, `TwiceOnlyIfRead`, `EventsConsumed` | one partition, two replicas, a history of two (for 200), two events, one crash, rebalance or lost connection |
| `screens` | `TypeOK`, `RefusedOnlyIfStale`, `ConfirmsTheDateSeen`, `OneRequestPerOrder`, `ScreensSettle` | one order, two dates, two status changes (a proposal and its answer, two proposals, a step and a stale one), await by await; one fetch in flight per screen |
| `pay_box` (finding) | `PaymentShown` | one order, one date, one status change |
| `sessions` | `TypeOK`, `SessionSurvives`, `SignedOutStaysOut`, `WaitingEnds` | the start, a sign-in and two calls; one expiry, one disturbance (seven idle days among them) |
| `web_sessions` | `TypeOK`, `OrdersOfTheUserShown`, `InsideByRole` | each application in turn, two tabs, a client, a provider and an admin, three sign-ins |

Orders do not interact (no statement touches two), nor do services, so few of them suffice
except where an instance has two to let the ledger or the seed tell them apart. Each request or callback is handled once, so
most models stop, hence `CHECK_DEADLOCK FALSE`. Symmetry is used in runs without
liveness only. Bounds: `Requests`, `Callbacks`, `Calls`, `SignIns`, `Readers`, `Writers` are
the finite sets of requests; `MaxLog`, `MaxFailures`, `MaxOutages`, `MaxExpiries`, `MaxDisturbances`,
`MaxRequests`, `MaxRestarts`, `MaxPublished` (in each partition), `MaxClicks`, `MaxSignIns` appear in the guards they bound.

**Fairness.**

- `Marketplace`: weak fairness of each handler under way (an async
  function goes on), of each consumer's steps and of its noticing that it was
  replaced, and of the broker giving away a partition nobody owns. Nobody is
  obliged to make a request, and `MaxFailures` bounds crashes, rebalances and swallowed
  errors, so they stop.
- `EventFeed`: Kubernetes starts a replica that stopped, the broker assigns a partition
  without an owner, a consumer goes on through its partition. Nothing is assumed of
  people, of the screen or of its connection. A replica that came up deaf owns nothing
  and holds nobody up.
- `OrderScreens`: strong fairness of `Fetch`, since the interval asks every ten seconds, many times in
  the life of a token, for as long as the screen is there; strong fairness of `Arrive`, since a network
  that works at all does not lose every answer; weak fairness of the end of each request the screen
  waits for. Nobody has to press anything or to sign in again, a request that was given up need never
  arrive or end, and a token may run out at any time: a screen with one that has is left out of `ScreensSettle`,
  since nothing renews it (section 4, gap 13).
- `LivioApp`: one condition, weak fairness of `Progress`: something that has begun goes
  on while anything can. The person owes nothing. It covers that the service
  answers or the connection is reported lost; the exchange's own `Dio` has no
  timeouts, so without that assumption `WaitingEnds` is plainly false.

## 4. Where code and documents differ

*A run.* `pay_box`: `MyRequests.tsx:199` says "Payment (visible once the provider
confirmed)". `getMyPayments` sends no token (`paymentsApi.ts:6`), Kong's payment-route asks for
one, and `MyRequests.tsx:59` turns the refusal into an empty list, so the box never appears.

Known gaps that the models show, or that were met on the way:

1. *Orders.* `orders.service.spec.ts:138` rejects a transition from a
   terminal state, and so does the code for requests that follow one another. When the
   client cancels while the provider confirms, both pass the check and the later
   UPDATE wins. `SettledIsFinal` is what remains: once the requests already
   running have ended, nothing changes a settled order.
2. *Payments.* `payments.service.spec.ts:15-18` promises one transition and one
   `payment_processed`; overlapping deliveries of a webhook may give two (`AppliedOnce` is
   therefore checked of `SerialSpec`).
3. *Confirmations.* `README.md:114-116` promises at-least-once delivery and a charge on
   confirmation; the event is sent after the commit and its failure is dropped
   (`ConfirmedIsChargedOrLost` says what remains).
4. *Cache.* `redis-cache.service.ts:13-15,81` says failures degrade to a miss; version 0 as
   the fallback and a lost INCR leave old entries reachable until their TTL. On Kubernetes a replaced Redis
   is empty (`infra/k8s/infra/redis.yaml` mounts no volume; `docker-compose.yaml` does), `getVersion` takes the missing
   counter for 0 without an error, and versions are used twice: a value that a slow read stores under its
   old key is served as current (these are the exceptions in `FreshUnlessDegraded`; what comes from Postgres is always
   fresh).
5. *Catalog rows.* A PATCH that overlaps a DELETE puts the service back on offer; two
   replicas that start together on an empty table seed it twice (the exceptions in
   `RemovedStays` and `SeededTwiceOnlyTogether`).
6. *Booking.* `BookingModal` shows an error for an order that was saved when its answer is late
   or lost, and a second try makes a second order (`SecondOrderOnlyAfterError`).
7. *Retry of a payment.* `MyRequests.tsx:220` offers one on a FAILED payment, which
   `applyGatewayEvent` ignores for ever.
8. *Provider's writes.* provider-app no longer sends `x-actor-id` (`catalogApi.ts:18-19`,
   `ordersApi.ts:9`), which `services.controller.ts:50,93,107` and
   `profiles.controller.ts:68` ask for: publishing, editing and removing services and saving the
   profile are refused, against `BusinessProfile.tsx:8-11` and `App.tsx:17-18`.
9. *Rate limit.* `kong.yaml.template:139-148` limits by consumer, and all users' tokens are of one
   consumer.
10. *Roles.* The login of provider-app looks at no role (`AuthContext.tsx:33`), its restoring does
    (the exception in `InsideByRole`). The labels of admin's `OrdersTable` are of older statuses.
11. *Mobile sessions.* Starting without network signs the person out and deletes tokens that
    were good; a sign-out that crosses an exchange leaves the tokens it writes
    afterwards; a sign-in whose `me` fails shows an error and keeps its tokens
    (the exceptions in `SignedOutStaysOut`). Who does not use the app for seven days is signed out:
    the refresh token has run out (`auth.service.ts:79-85`), as `auth_controller.dart:43-46` says.
12. *Password rotation.* `rotate-db-passwords.sh:100-101` says a failure leaves the old
    password working; it has been altered by then (line 88).
13. *Web sessions.* The web applications store a refresh token and never use it: after 15 minutes
    (`auth.service.ts:109`) an open `MyRequests` or `OrdersDashboard` has every silent poll refused, says
    nothing and goes on showing what it last had (the exception in `ScreensSettle`).
14. *Crossing proposals.* A provider whose proposal times out may make another. If the first one is
    stalled between `findOne` and `save` (`orders.service.ts:120-160`) it is saved over the second, and the client,
    whose card shows the second date, accepts the first (the exception in `ConfirmsTheDateSeen`: `crossed`).

## 5. Proofs

All theorems hold for any sets of orders, people, dates, requests, replicas and so on, finite or
not, and for any bounds. What is assumed is what the `ASSUME`s say: that a null is none of
the values it stands beside (`NoDate`, `NoRow`, ...), that bounds are natural numbers, that the client and
the provider of `OrderScreens` are two people, that the sign-ins and `_restore` make calls of their
own, that `RoleOf` gives every user a role. Every invariant was checked with TLC
before it was proved.

The properties are seldom inductive: they speak of rows, while the danger is in the
copies that handlers, callbacks and screens hold. Each invariant therefore says of every
*copy* what the property says of the row, and is shown step by step with one lemma per
action.

**`OrdersProofs`**: `TypeOK`, `Consent`, `DateWasAgreed`, `EventsTellTheTruth`, `SettledIsFinal`.
`IInv` is `TypeInv` (typing, with the phases of a request spelled out), `OrderInv` (every
status and every column value of a row is backed by deeds, who said yes to what, so any mixture of
columns is backed as well), `RequestInv` (so is the entity of every handler under way, and
once saved the deed it will announce exists) and `EventsTellTheTruth`. Deeds are never
forgotten (`KnownForever`, `Persist`): what backs a copy when it is made backs it
whenever it is written.

In the same module, `ConfirmedOnce` and `ImplementsLifecycle`, of `SerialSpec`. A request that is alone
with its order (`Turns`) still has the row it read when it saves (`Fresh`), so SELECT and
UPDATE together are the one step that the checks allowed; the SELECT maps to a stutter. `ConfirmedOnce`
needs that the statuses after a confirmation lead to none (`ConfirmedBeyond`,
`FirstToSay`).

Last, of `Marketplace`, `ChargeHasConsent`. The log only grows, so each
service is argued about alone: a payment is for an order confirmed in the log
(`ChargedAsRead`); a confirmation in the log tells of one in the deeds (`EventsTellTheTruth`).
The same module proves of the two services together that no order has two payments (`ChargedOnceHolds`) and
that none is forgotten: `NoneForgotten`, the safety half of `ConfirmedIsChargedOrLost`, says that an
order confirmed in the topic is charged, given up, or ahead of the committed offset. `CInv` is the argument of
`PaymentsProofs` over a topic that grows by several messages at once, as a retried send makes it, which
no step of `Payments` alone does.

**`PaymentsProofs`**: `TypeOK`, `OnePaymentPerOrder`, `CommittedIsCharged`, `SettledAsReported`,
`SettledIsFinal`. A consumer about to insert holds an intent of its own for its message
(`Drawn`); the owner has acted on all it has read (`NothingSkipped`), which is why the offset
it may commit skips nothing even when it was given the partition in the middle; a
callback holds a settled copy that the gateway has spoken of (`Told`). Steps of
consumers leave payments alone (`RowsKept`), steps of callbacks leave everyone's order
alone (`OrdersKept`).

In the same module, `AppliedOnce` and `ImplementsLedger`, of `SerialSpec`: a callback about to save
is alone with its order (`InTurn`), so the payment is still unsettled (`Pristine`).

**`CatalogCacheProofs`**: `TypeOK` and `FreshUnlessDegraded`. What Postgres gave a read is fresh whatever
Redis does (`Found`). Of what comes from Redis, with no INCR missed: what is stored, or about to be stored,
under the current version is no older than the last answered write (`Current`); under
the version a read began with, no older than the writes answered before it (`Served`).
A write cannot break either, because no entry and no read is ahead of the version it
moves to (`Bounds`). None of it is said of entries and keys adrift: a replacement leaves no entry and sets
every key in hand adrift, so that the invariant begins again with the new count. Every action of a read goes through one lemma, `ReaderMoves`, and
every action of Redis through `IInvRedis`.

**`DirectoryProofs`**: `TypeOK`, `AsItsProviderSaid`, `RemovedStays`, `SeededTwiceOnlyTogether`,
`SecondOrderOnlyAfterError`. A row keeps its owner for good and every value of a copy was asked for
by that owner (`CopiesBacked`), so what a stale save brings back is the owner's
own; replicas that did not start together seed one at a time (`OneSeeds`); a visit
that was told of no error has one order, on its way or saved (`OnePerVisit`).

**`OrderScreensProofs`**: `TypeOK`, `ConfirmsTheDateSeen`, `RefusedOnlyIfStale`, `OneRequestPerOrder`.
A copy may be of any age. The invariant `Told` speaks of all of them at once: the table, both screens, the answers on
their way and the cards people acted on (`CopyOf`).

- `CopiesReal`: while an order is new nothing but the new order is told of it.
- `OneDate`: wherever a proposal is told of an order, it is the same one. It is in danger when a second proposal is saved, and a
  proposal that is not late was read while the order was new and none had been saved (`Unheard`). So the second is late,
  and the order has crossed.
- `Entities` says what each handler is about to save and of which columns. This is the delicate part: a
  confirmation that leaves the status alone, since another has confirmed the order already, and still writes a date, does so
  over an order that is through with negotiation (`Settled`).
- `Confirming`: a handler of a confirmation has the date of the card from its `findOne` on, which is what
  `ConfirmsTheDateSeen` says of the answer.

`ScreensAgree` is the safety half of `ScreensSettle`: of an order that is new a screen shows nothing but the new order, and
screens that show a proposal show the same one, the table's if it has one, unless proposals crossed. Statuses alone promise
less: an UPDATE that comes late may confirm what a screen has shown as cancelled (gap 1), so a screen can be ahead of the table.

**`WebSessionsProofs`**: `TypeOK`, `InsideByRole`, `OrdersOfTheUserShown`. The token a tab is inside with, or
about to be, is its user's for good, as `issued` only grows; and unless another tab has
changed the store since (`foreign`), the stored token is one of that user's or none (`OwnToken`). Lists exist inside only
(`ListedInside`), so a list of somebody else's orders was fetched with somebody else's token.

**`EventFeedProofs`**: `TypeOK`, `FeedComplete`, `TwiceOnlyIfRead`, and `ReadIsRecorded`: no offset, committed or
a replica's, is past an event that nobody recorded, which is the safety half of
`EventsConsumed`. A notification is in three places on its way to the screen, the
replica's history, the answer of the fetch and the inbox of the stream; the invariant places each
of them in one order (`Numbered`, `ListBeforeInbox`), says what the answer under way holds
(`AnswerComplete`), and that what is on the screen twice was known to it twice (`TwiceIfKnown`, `KnownShown`).
History and inbox are capped or appended to, so the facts about sequences come first, as lemmas.

**`LivioAppProofs`**: `TypeOK`, `SignedOutStaysOut`, `SessionSurvives`.

- `Typed` adds to `TypeOK` that every token anywhere was issued and that the service is at finitely many
  exchanges, so that a new one has a number of its own (`UnusedIsUnused`, by the pigeonhole
  principle), and that `_restore` is never a sign-in.
- `OutInv` is the invariant behind `SignedOutStaysOut`. Until `_restore` has looked nothing else runs
  (`Starting`). As long as no deletion met new tokens: a deletion that comes to its second key finds the first
  one gone, an access token without a refresh token is a sign-in's, and an exchange still has the refresh token
  it began with (`Ordered`). If also no sign-in was kept: at most one sign-in is under way, over an empty
  store, and the login screen has an empty store or a deletion behind it (`Alone`).
- `Served` and `Attended` are the safety halves of `WaitingEnds`: a call that awaits the shared exchange has one,
  that is with the service or answered; the splash screen and a sign-in's spinner have a routine that will
  replace them. Both are inductive over `Typed`.
- `SurvInv` is the one behind `SessionSurvives`: while nothing disturbs the session, no refresh token has run out and the token the
  service would take is in the store, in the one exchange, or on its way from there into the store
  (`Inside`); or there is no refresh token and the one sign-in under way holds it (`Outside`).
  A call that will be repeated has a token that has not run out (`Calm`), which is why it does not renew again.

The attempt at `SignedOutStaysOut` showed a fault of the model: a restart used to forget that a
sign-in had been stopped between its two keys, and after a second one the login screen had an access
token behind it that no exception covered. One disturbance, as in the run, does not get there. Now the
sign-in stays *kept*. `Notifications` bounds the events of each partition instead of all of them together,
and gives a replica's new offset as a function of its own (`Reading`), for the prover's sake; with the one
partition of the run both are what they were.

*Model-checked only*: what lives (`ConfirmedIsChargedOrLost`, `EventsConsumed`, `ScreensSettle`,
`WaitingEnds`), since liveness under fairness is beyond the prover, and `PaymentShown`, which is
refuted. Every invariant and every action property of the other runs is a theorem, and of each of the four
that live the safety half is (`NoneForgotten`, `ReadIsRecorded`, `ScreensAgree`, `Served` and `Attended`): what is
waited for has not been lost. TLC checked these as well before they were proved.

## 6. Not modelled

- Data that is copied and never compared (items, notes, amounts, currency, texts); the arithmetic of
  signatures and password hashes.
- user-service: `upsert` is the pattern of the catalog's rows, one key per user.
- ServicesManager and BusinessProfile of provider-app: their writes are refused (section 4);
  their lists are fetched once.
- media-service (no code yet) and the image optimizer (pure I/O).
- Kong beyond what it refuses; deployment, observability and CI, read for the number
  of replicas, the durability of Redis and the broker's settings only.
- The scripts: one operator, one run after another.
- `register` as more than a sign-in: its race is left to the unique index on the e-mail address.

Limits of what is modelled:

- `OrderScreens`: TLC takes two status changes and one fetch under way per screen, which is as far as it can check
  `ScreensSettle` (a third makes some fifteen million states; the invariants of the proofs were
  run over half of them); the theorems are for any number of both. The
  client and the provider are two people; who signs in again on a page loaded afresh begins as in `Init`; the
  dashboard's filter by tab, the unmounting of `MyRequests` and the drawing of admin's `OrdersTable` are left out.
- `CatalogCache`: the last second of the append-only file, which a crash of the host may lose, is kept.
- `EventFeed`: a screen that is left within three seconds of a lost connection opens a
  stream that nobody closes (`EventFeed.tsx:143-152`); the model closes it.
- `LivioApp`: one account, each of the calls made once, and one sign-out by the person at a time.
- `WebSessions`: the applications never use the refresh token, and neither does the model.
- `Marketplace` leaves callbacks to `Payments`.

## 7. What could come next

1. `RotateDbPasswords`: the script with a failure at every step, once its order of steps is settled
   (section 4, gap 12).
2. `Profiles`, and ServicesManager and BusinessProfile, once provider-app's writes are accepted.
