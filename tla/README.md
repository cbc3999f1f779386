# A TLA+ model of SaintPetterAuth-Backend

This directory models the authentication backend under `src/src`: a NestJS
service over Postgres (TypeORM), Redis and RabbitMQ. Several requests run at
the same time in one process and in several processes; there are no database
transactions around a handler, so a handler is a sequence of awaited calls, each
atomic, with other requests, failures and crashes between any two of them. That
is what the modules model: one action per awaited call, with the computation
that follows it up to the next await.

`PROJECT.json` holds the same information for tools: the components, the runs,
which lines each definition stands for, the hazards and the theorems.

## 1. Inventory

| Component (source) | State it keeps | Operations | What is hard |
| --- | --- | --- | --- |
| Authentication flows (`auth/auth.service.ts`, `auth.guard.ts`) | `users`, `credentials` | register, login, refresh, logout, password reset, verification, deletion of an account, invitations | every flow is 3 to 8 calls without a transaction; overlapping flows of one account |
| Opaque tokens (`auth/token.service.ts`, `redis/redis.service.ts`) | keys `at:` (15 minutes), `rt:` (7 days) | store, resolve, revoke, expiry | tokens and session rows live in different stores; the guard looks at the token only |
| Sessions (`sessions/`, `user/session.repository.ts`) | `sessions` | list, revoke one, revoke all | revocation against a refresh in flight |
| One-time links (`one-time-link/`) | `one_time_links` | create, consume, peek | read, check in memory, update by id alone |
| Notifications (`notifications/`) | none of its own | dispatch, consume with retries, mail | queue or direct mail; a failed send may have been accepted; redelivery, give-up |
| RabbitMQ connection (`rabbitmq/rabbitmq.service.ts`) | connection, channel, attempts | connect, reconnect, publish, consume | calls of `connect()` overlap await by await over shared fields; every `error` and `close` event that anybody listens to drops them |
| Redirect allow list (`auth/redirect-allowlist.service.ts`) | `allowed_redirect_uris` and a cache of it per process | load, add, remove, is allowed | cache and table; overlapping reloads |
| Organisations, membership, provisioning (`organization/`, `management/management.controller.ts`) | `organizations`, `roles`, `user_organizations`, `user_roles`, invitations | create, rename and delete organisations, add, change, remove and invite members, create roles | multi-write handlers, find-then-insert without unique constraints, rights checked long before they are used |
| Management access (`management/management.guard.ts`) | none | scope of a caller | the caller may be a user or a service account |
| Administration of users (`management/management.controller.ts`) | `users` | update, delete | an update saves a row read some awaits earlier |
| Google sign-in (`auth/google.strategy.ts`) | `oauth_accounts` | find or create the user and link it | two writes; overlapping callbacks; the case of an address |
| Service accounts, API keys (`auth/api-key.service.ts`) | `users`, `api_keys` | create, use, revoke, delete, expiry | a use updates its key in the background; two writes to create |
| Multi-factor (`auth/mfa.service.ts`) | `user_mfa` | enrol, remove, verify | find-then-insert |
| Permission resolution (`organization/rbac-resolver.service.ts`, `authorization/`) | none | may a user do this on that resource | four queries at four moments over tables that change, memberships and roles apart |
| Seed (`seed/seed.service.ts`) | system organisation, resources, roles, permissions, the first administrator | seed at every start | a row per write; crashes; several instances starting together |
| Domain events (`events/`) | `domain_events` | emit, page through | stamps given before the commit; a cursor less precise than the stamps |
| Audit, templates, DTOs, shell | append-only rows, none | | not modelled: nothing depends on their state |

How they interact: the controllers call the services; every service shares the
repositories; `AuthService` calls sessions, tokens, links, notifications and
events; `AuthService` and `ManagementController` both call the organisation
provisioning; the notification service publishes through the RabbitMQ service
and falls back to sending the mail itself; the Google guard reads the allow
list that the management handlers change; permission checks read what the
seed and the administrators write.

What makes each part correct:

- *Tokens and sessions.* A closed session never yields another token. A token
  opens the account whose session it names. Only the owner closes a session.
  Each token is issued once, by a request that found or opened its session.
- *Accounts.* No credential, session, profile, key or TOTP row without its user;
  a deleted account does not come back; a used link is not used again; nothing
  is undone except by a handler that already held the old row.
- *Google and keys.* A profile signs in the same user every time; a revoked key
  stays revoked; a caller of one organisation changes only that organisation's
  service accounts.
- *Notifications.* What the broker took is not dropped; a mail is repeated only
  as often as retries and redeliveries allow; every dispatch comes to an end; a
  process without a channel is on its way to one.
- *Allow list.* An administrator who was told that a URI is on (off) the list
  can rely on it.
- *Organisations.* No membership or role of somebody who is gone; holders of a
  role are members; only the platform appoints organisation administrators;
  provisioning that failed is completed and not repeated.
- *Permissions and seed.* What is allowed was held at one moment; what is held
  throughout is allowed; an instance that serves is completely seeded; the platform
  administrator that it found has the role.
- *Events.* A client of the feed is shown every event, none of them for ever.

## 2. Modules

| Module | Models | Instance |
| --- | --- | --- |
| `AuthStore` | the repositories, Redis and the token and link calls, one operator per call | |
| `AuthService` | the handlers of `auth.service.ts` and `sessions.service.ts`, composed from `AuthStore` | `MCAuth` |
| `SessionLifecycle` | abstract: what is promised of sessions and tokens; `AuthService` implements it | |
| `OneTimeLink` | abstract: what is promised of one-time links; `AuthService` and `OrgMembership` implement it | |
| `Notifications` | `notifications.service.ts`, `rabbitmq.service.ts`, `notification.consumer.ts` and the mail adapter, with the broker and the mail provider around them | itself |
| `RedirectAllowlist` | the allow list, its cache and the two handlers that change it | `MCAllowlist` |
| `OrgMembership` | organisations, roles, memberships and invitations | `MCMembership` |
| `Directory` | the tables of users, profiles, TOTP rows and keys, with their constraints | |
| `Identities` | Google sign-in, update and deletion of users, TOTP | |
| `ServiceAccounts` | service accounts, keys and the guards that take them | |
| `Administration` | `Identities` and `ServiceAccounts` together, and their properties | `MCAdministration` |
| `RbacStore` | the tables of permissions and the writes of users and administrators to them | |
| `Authorization` | the permission check, query by query | |
| `Seed` | the seed, query by query, by several instances | |
| `Access` | `Authorization` and `Seed` over one `RbacStore`, and their properties | `MCAccess` |
| `EventsFeed` | emission of events and a client that pages through them | `MCEvents` |
| `AuthServiceProofs`, `AuthAccountProofs` | theorems about `AuthService` | |
| `RedirectAllowlistProofs`, `EventsFeedProofs`, `NotificationsProofs`, `OrgMembershipProofs`, `AdministrationProofs`, `AccessProofs` | theorems about these modules | |

### AuthStore and AuthService

A table is a function from identifiers to `Free` (never allocated), a row, or
`Gone` (deleted). Identifiers are random UUIDs or tokens of 256 bits and are
never reused. One element of `Grants` names the access and the refresh token
that one call generated: `at[g]` and `rt[g]`. Foreign keys are guards
(`UserExists` where a row is inserted) and cascades (`DeleteUserRow`); the unique
index on the address is `EmailTaken`.

`req[r]` is the state of one handler: its name, the call it makes next (`pc`) and
its local variables, copied when the code reads them and used as they are
later, which is how stale reads arise. Handlers that share a tail share actions:
`SaveSession`, `StoreAccess`, `StoreRefresh` and `Emit` are the ends of `register`
and `loginWithUser`; `Sweep` is `deleteByUserId` in three handlers. `Throw` is
any failure: a call that rejects, a row that is missing, a process that dies.
What was written before stays written, as in the code. A call whose guard is
false can only throw. `known` holds the token pairs that a response has carried
to a client; only those can be presented.

TTLs are the actions `Expire`, `ExpireOld` and `LinkExpires`, possible at any
time. Audit rows and the text of mails are left out.

### SessionLifecycle

Three variables: `owner` of each session, `issued`, the payload of each token, and
`permit`, the payload of the tokens that a request may still issue. A session is
opened once and closed once; a request gets a permit only by opening a session
(`Open`) or finding it open (`Renew`), and issues tokens with exactly that payload,
each at most once. The mapping (`AuthService!Lifecycle`) takes the session table
for `owner`, the two Redis tables for `issued`, and for `permit` the locals of the
handlers that are past their check (`revokeOld`, `storeAccess`, `storeRefresh`).
All other calls, failures included, are stuttering steps or `GiveUp`.

### OneTimeLink

Two variables: what has become of each link and the `purpose` it was issued for,
and the `claim` of each request: the link that it found open (`Take`) or has marked
(`Spend`), with the purpose it acts for. Several requests may take a link before
one of them marks it, as in `consume()`; none takes it afterwards. In
`AuthService` a purpose is the kind of the link and its user, and a claim is what a
handler that resets a password or verifies an address has in its locals. In
`OrgMembership` a purpose is the address, the organisation and the slug (the slug of
`member` when it is no template's), and a claim is what `acceptInvitation` holds from
`markUsed` until it answers or fails. That the locals keep the purpose through
every later await is the point of the mapping. All other calls are stuttering steps.

### Notifications

Connections are numbered in the order in which they open. `connect()` is a step
per await: `Open` (which sets `this.model`), `ChannelOpen` (which sets
`this.channel`), `QueueReady` (which resets the attempts and attaches the listeners
to whatever `this.model` is by then, or throws when that is null), and
`ConnectFails` and `SetupFails` into the catch block (`Catch`), which awaits
`handleDisconnect()`. `connecting`, `setup` and `timers` hold the calls that await
something, since several overlap and share `model` and `channel`; `listeners`
counts the pairs of listeners per connection, none on some and two on others.
`Break` is a connection failing at the broker and `Lost` the process receiving its
one or two events: each event calls `handleDisconnect()` once for every listener,
and an `error` to which nobody listens ends the process.

`Dispatch` and `SyncSend` are the caller's side, `Deliver`, `Accepted`, `HandleSends`
and `HandleFails` the consumer's. The provider accepts a mail in one step
(`Accepted`) and its answer comes in another: the process may die in between,
and a send that fails may or may not have been accepted. The adapter returns
success without a mail when the command names no recipient or is not of the
e-mail channel; `Mailable` are the others. `Die` is the process exiting (an
acknowledgement on a connection known to be closed rejects in the catch block
too, which is unhandled) or being killed; the broker then requeues what was not
acknowledged.

### RedirectAllowlist

A reload is two steps, `FindAll` and `Fill`, and overlaps with others. `Load`
is the reload at start. `added` and `removed` record what administrators were
told, so that the properties can speak about answers.

### OrgMembership

The handlers of the management controller, the guard that computes the scope of
a caller (`Callers`), and the provisioning service as the chain `FindRole`,
`SaveRole`, `FindMember`, `SaveMember`, `FindGrant`, `SaveGrant`, which five handlers
enter. Cascades happen in `DeleteUser` and `DeleteOrganization`. The reads before
a handler's first write are one step; all later reads are steps of their own.
`traffic` is chosen at the start of a behaviour: which handlers are called, and
whether they overlap.

### Directory, Identities, ServiceAccounts, Administration

`Directory` has the rows and what the database does with them: the unique address
in `SaveUser`, the cascade in `DeleteUser`. `SaveUser` is TypeORM's `save()`: an
insertion when the row is gone, which is how a stale row restores a deleted
account. `Address` maps an address to its lower case, because the lookup lowers
its argument and the Google sign-in saves what Google reported.

The Google sign-in is four steps: by profile, by address, the user, the
profile's row. `FindVerified` and `UpdateUser` read a row that `SaveRow` saves
later. In `ServiceAccounts` a caller is a platform administrator, an administrator
of some organisations, or a key; a key that is used is `touching` until the
background update of `lastUsedAt` is over or lost, while `Revoke`, `Expire` and
`Delete` go on. `signed`, `capital` and `raced` are history variables.

### RbacStore, Authorization, Seed, Access

`RbacStore` has the tables and the writes to them, each of which may come at any
time on an instance that serves. Memberships (`members`) and roles of a user
(`grants`) are tables of their own, and the handlers that write both appear write
by write (`SaveMembership`, `AssignRole`, `UnassignRole`, `DeleteMembership`), in
any order: so a role without its membership, which overlapping handlers leave,
is among the states. What those handlers look up first is in `OrgMembership`.
A second row of the same membership is not told from the first. A user is an
address, the platform administrator's or another one; `UpdateUser` changes it
and, as `save()` of a row that was read earlier, may bring a deleted user back.
`DeleteUser` stands for `deleteUser` and `deleteAccount` and cascades memberships
and roles; `erased` remembers whom. An organisation is its slug, the system's or
another one, which `UpdateOrganization` changes.

`Authorization` is a check in four queries: the organisation of the resource, its
name, the roles with their permissions, the memberships; `Counts`, `Matches` and
`EveryAction` are the filter that decides. `watch` records on what grounds the user
could be allowed throughout the check (`sure`: global roles, and roles with a
membership of their organisation), and at some moment of it (`ever`, with the
organisations of which the user was a member, `joined`); these grounds are read off
the tables at one instant and not by the steps of the resolver. A check may be made
with the token of a user who has been deleted.

`Seed` is what an instance does before it listens: per resource, role and
permission a query and, when nothing is found, an insertion, in the order of the
code, and for the administrator three queries and the assignment, which is
refused when the user or the role is gone by then. `Crash` may come at any of
them, and an instance that is down starts again. In `Access`, seeding, changes
by users and administrators and checks interleave.

### EventsFeed

An event has its `stamp` when its transaction begins and is visible when it
commits, so commits may be out of order. Stamps are microseconds and the
client's cursor is whole milliseconds (`Cursor`), since it went through a
JavaScript `Date`. `Poll` is one page and the client that continues after its last
event. `late` are the events whose transaction was open when the cursor passed
them: what a reader by timestamp cannot see.

## 3. Runs

| Run | Module, cfg | Question | Result |
| --- | --- | --- | --- |
| `sessions` | `MCAuth`, `AuthSessions` | two requests, two accounts: do closed sessions stay closed, is every session its owner's, was every token announced, and do the handlers implement `SessionLifecycle`? | `OwnSession`, `LoginAnnounced`, `ClosedForGood`, `OnlyOwnerCloses`, `KeepsLifecycle` hold |
| `accounts` | `MCAuth`, `AuthAccounts` | two requests register, log in, reset, verify and delete | `TypeOK`, `RowsHaveUsers`, `DeletedForGood`, `UsedOnceDone` hold |
| `consume_race` | `MCAuth`, `AuthConsume` | is `consume()` atomic, as its comment says? | no: two requests consume one link |
| `notify` | `Notifications`, `Notify` | calls of `connect()` that overlap, connections that break, a process that is killed, a full write buffer | `TypeOK`, `KeepsReconnecting`, `NothingDropped`, `MailsBounded`, `Settles`, `Reconnects` hold |
| `notify_nack` | `Notifications`, `NotifyNack` | is a message that is given up nacked, as the comment says? | no: it is acknowledged |
| `notify_unsent` | `Notifications`, `NotifyUnsent` | does `POST /notifications/send` send, as the README of the code says? | no: its command names no recipient, and the adapter skips it and reports success |
| `allowlist` | `MCAllowlist`, `Allowlist` | one change at a time, failures, restarts | `AddedIsAllowed`, `RemovedIsRefused` hold |
| `allow_race` | `MCAllowlist`, `AllowRace` | does an addition take effect immediately, as the README of the code says? | not when two reloads overlap: the older may fill the cache last |
| `membership` | `MCMembership`, `Membership` | all handlers one at a time, each failing anywhere, and six of them overlapping | `TypeOK`, `RowsHaveOwners`, `HoldersAreMembers`, `AddedOnce`, `OnlyPlatformAppoints` hold |
| `administration` | `MCAdministration`, `Administration` | two requests among sign-ins, updates, deletions, enrolments and the handlers of keys | `TypeOK`, `ChildrenHaveUsers`, `OneAccountPerAddress`, `EnrolledOnce`, `SameProfileSameUser`, `NothingUndone`, `RevokedForGood`, `ScopedToOrg` hold |
| `access` | `MCAccess`, `Access` | instances that seed, crash and start again, users who come, go and change address, administrators at work, and a check meanwhile | `TypeOK`, `AllowedWasHeld`, `HeldIsAllowed`, `ServingIsSeeded`, `SeededOnce`, `AdminIsSeeded` hold |
| `events` | `MCEvents`, `Events` | four transactions that commit in any order, a client with pages of two | `NothingSkipped`, `RepeatsWithinMilli`, `Delivered` hold |

What the properties add to a reading of the code:

- `ClosedForGood`: `refresh` looks the session up and stores tokens two awaits
  later, so a deleted session *can* get a token. The property states exactly
  when it no longer can: once no request is between that check and the last
  store. It is stated on steps, since it relates a state to all later ones.
- `DeletedForGood`: `verifyEmail` saves a whole row it read before, and `save()`
  inserts it when it is gone. The property confines the resurrection to that
  one window. `NothingUndone` does the same for `updateUser` and for a
  verification that an update overwrites.
- `UsedOnceDone` is what remains of "atomically": a link that is marked and that
  no request is about to mark is spent. `ConsumedOnce` is the stronger claim,
  which fails.
- `OnlyPlatformAppoints` follows the right to appoint from the invitation, where
  it is checked, to the acceptance by somebody else.
- `AddedOnce`, `EnrolledOnce` and `SeededOnce` rest on a look-up
  before an insertion. None of the tables has a unique constraint for them, so
  they are claimed for requests that do not overlap, where a handler that fails
  halfway is the danger; `HoldersAreMembers` is, too. README.md:109 of the code
  calls the seed idempotent; `SeededOnce` shows that it is when instances start
  one at a time, and `ServingIsSeeded` and `AdminIsSeeded` say what holds of
  instances that start together.
- `AdminIsSeeded` is about the user that an instance found by the address: the role
  stays through a change of the address, a second instance and the end of roles
  and organisations around it, and goes with the account only (`erased`).
- `OneAccountPerAddress` states how far the comparison in lower case goes: two
  accounts of one address exist only where the Google sign-in saved an address
  with capitals.
- `RevokedForGood` would fail if the background update of `lastUsedAt` saved the
  row that it read; `ScopedToOrg` would if a key were looked up by its id alone.
- `AllowedWasHeld` and `HeldIsAllowed` bracket a check whose four queries see
  four different states: it neither adds up what was never held together nor
  misses what was held all along. Roles and memberships are written and read
  apart, so the resolver may see a role without its membership; for a resource of
  another organisation, which is known by its id, that role does not count.
- `NothingSkipped` and `RepeatsWithinMilli` say what the client of a timestamp
  cursor can rely on. The two exceptions are in the code: an event that commits
  late, and a second event at the very stamp of a cursor that is a whole
  millisecond. `Delivered` has a third: a millisecond with as many events as
  a page holds, out of which the cursor never gets.
- `KeepsReconnecting` is about a process without a channel, or with one that it
  knows to be closed. One state is excepted: the channel belongs to a connection
  that is not the model, because another call of `connect()` has overwritten the
  model in between, and nobody listens to it. When that connection breaks,
  `sendToQueue` throws at every dispatch until the process is restarted.
- `NothingDropped` follows a message from the queue through handlers that die
  before or after the provider accepted the mail; `MailsBounded` is the price: at
  most `MaxRetries` mails each time that a consumer was registered, and one by
  the caller when there is no channel or the write buffer was full.
- `Settles` excepts what was written to a broken connection (`lost`).

### Bounds

Every set is as small as its hazard allows. Two requests in flight are enough
for every race of the code, since each is one handler's stale read against one
other handler's write; the proofs cover any number for those they are about. Two
users tell an owner from a stranger. Two sessions of one user tell "this
session" from "all". Two grants allow two logins, or a login and a refresh; two
refreshes of one token that both succeed, and longer chains, are left to the
proofs. Three links allow a verification, a reset and the verification of a
second account that takes the address over. One password suffices because the
properties are about which rows exist; an attempt with a wrong password is
`Throw`.

- `notify`: `MaxConns` 3 lets two calls of `connect()` overlap while the first
  connection is still to be lost; `MaxAttempts` 2 and `MaxRetries` 2 make both limits
  reachable, and `MaxMails` 8 only caps a counter, one above what the property
  allows. Messages share nothing but the connection, so one is enough; the
  message that the adapter skips is that of `notify_unsent`, and the proofs have
  any number of either kind. The two runs that violate a claim need one connection
  and no crash.
- `membership`: three roles, one per template of `ThreeTemplates` (the code has
  more, all handled alike). Each identifier is used once, so two memberships and
  two grants allow a removal and a second assignment, or a duplicate.
- `administration`: one person's address in two spellings, two profiles, so that
  two people of one address sign in; one key: to revoke a key below
  the path of an account that is not its own takes two accounts, not two keys.
  `MaxTotp` 2 is one more than an enrolment.
- `access`: one system resource, two default roles with three permissions between
  them, three roles and two resources. Two organisations tell the system's from a
  tenant's, and the resource's from another; either of two users may have the
  administrator's address. `Budgets` bounds starts, sign-ups, other changes and
  checks. Without a check: three starts with two changes, or two with three. With
  one, which is as good as several, since a check leaves nothing behind: four
  changes after one start, enough for an organisation, a membership, a role and the
  end of one of them around a query; or two starts, the second of which gives a user
  the administrator's role, and one change.
- `events`: two ticks to a millisecond, `MaxTime` 4, so that stamps fall on and
  between milliseconds; four events against pages of two make full and partial
  pages.

Identifiers are interchangeable, so the runs use symmetry, except those that
check liveness.

### Fairness

Requests have no fairness, since a request may hang or die. `FairSpec` of
`Notifications` has weak fairness for timers (`DelayOver`), for the awaits of
`connect()` to end one way or the other (`Open` or `ConnectFails`, and `Setup`
of each connection: the heartbeats of AMQP make a connection that is dead
noticed), for mails to end one way or the other (`SyncSend`, and `HandleSends`
or `HandleFails`), and for the broker to deliver; there is none for a mail to
succeed, for a connection to hold, or for its end to be noticed outside
`connect()`. `Settles` therefore assumes, in the property itself, that the
consumer ends up on a connection that holds: after a break it is not registered
again until the process restarts, and nothing in the code makes it restart.
`Reconnects` assumes a process that stays up. `FairSpec` of `EventsFeed` is a
client that goes on polling; transactions need not end, and the property is
about those that committed.

Deadlock is checked in all passing runs but those of `Notifications`, `Access`
and `EventsFeed`, whose behaviours end: when every message is settled and the
connections are used up, when the budget is used up and everything is down, and
when all events are delivered and the clock has run out.

## 4. Proofs

The theorems hold for every choice of the constants that satisfies the named
assumptions of the modules, which TLC evaluates in the runs. Those are that the
sentinels (`Free`, `Gone`, `None`) are no rows and no identifiers, that `Ops` is a set
of handlers, that lower case is lower case of itself, that the role templates
include those the handlers name, that the base list is among the URIs, that the
seed has system resources and default roles, `platform_admin` among them, each
with a list of different permissions, as in `seed.service.ts`, and that page size,
precision of the cursor and the bounds of counters are positive.
There may be any number of users, rows, messages, connections and overlapping
requests, and `AuthService` and `OrgMembership` may serve any subset of their
handlers.

| Module | Theorem | Statement |
| --- | --- | --- |
| `AuthServiceProofs` | `TypeCorrect` | `Spec => []TypeOK` |
| | `ClosedSessions` | `Spec => ClosedForGood` |
| | `OwnSessions` | `Spec => []OwnSession` |
| | `OwnerCloses` | `Spec => OnlyOwnerCloses` |
| | `Implements` | `Spec => KeepsLifecycle`: the refinement |
| `AuthAccountProofs` | `RowsOwned` | `Spec => []RowsHaveUsers` |
| | `DeletedAccounts` | `Spec => DeletedForGood` |
| | `LinksSpent` | `Spec => UsedOnceDone` |
| | `LinksImplement` | `Spec => KeepsLinks`: the refinement of `OneTimeLink` |
| | `OneRefresh` | under `Serial`: at most one refresh token per session |
| | `OnePassword` | under `Serial`: at most one credential per user |
| | `LoginsAnnounced` | `Spec => []LoginAnnounced` |
| `EventsFeedProofs` | `TypeCorrect` | `Spec => []TypeOK` |
| | `NoneSkipped` | `Spec => []NothingSkipped` |
| | `RepeatsBounded` | `Spec => []RepeatsWithinMilli` |
| `RedirectAllowlistProofs` | `TypeCorrect` | `Spec => []TypeOK` |
| | `AddedAllowed` | under `OneAtATime`: `Spec => []AddedIsAllowed` |
| | `RemovedRefused` | under `OneAtATime`: `Spec => []RemovedIsRefused` |
| `NotificationsProofs` | `Typed` | `Spec => []TypeOK` |
| | `NeverStranded` | `Spec => []KeepsReconnecting` |
| | `NeverDropped` | `Spec => []NothingDropped` |
| | `RepeatsBounded` | `Spec => []MailsBounded` |
| `OrgMembershipProofs` | `WellTyped` | `Spec => []TypeOK` |
| | `OwnersOutlive` | `Spec => []RowsHaveOwners` |
| | `PlatformAppoints` | `Spec => OnlyPlatformAppoints` |
| | `MembersHold` | `Spec => []HoldersAreMembers` |
| | `MembersOnce` | requests that do not overlap leave one membership per user and organisation |
| | `OnceAdded` | under `TemplatesOnly`: `Spec => []AddedOnce` |
| | `InvitesImplement` | `Spec => KeepsInvites`: the refinement of `OneTimeLink` |
| `AdministrationProofs` | `AlwaysTyped` | `Spec => []TypeOK` |
| | `ChildrenKeptWithUsers` | `Spec => []ChildrenHaveUsers` |
| | `AddressHasOneAccount` | `Spec => []OneAccountPerAddress` |
| | `EnrolsOnce` | `Spec => []EnrolledOnce` |
| | `ProfileKeepsUser` | `Spec => SameProfileSameUser` |
| | `StaysUndone` | `Spec => NothingUndone` |
| | `StaysRevoked` | `Spec => RevokedForGood` |
| | `ScopeKept` | `Spec => ScopedToOrg` |
| `AccessProofs` | `WellTyped` | `Spec => []TypeOK` |
| | `AllowedForGood` | `Spec => []AllowedWasHeld` |
| | `HeldGetsIn` | `Spec => []HeldIsAllowed` |
| | `SeededWhenServing` | `Spec => []ServingIsSeeded` |
| | `SeedsOnce` | `Spec => []SeededOnce` |
| | `AdminHasRole` | `Spec => []AdminIsSeeded` |

`Serial` and `OneAtATime` say that there is one request at a time, which may fail
at any await; the runs `consume_race` and `allow_race` show what goes wrong
without. The reload at start is not a request and overlaps with none.
`TemplatesOnly` says that the requests which do not overlap create no roles of
their own: `createRole` saves whatever slug it is given, as often as it is called,
so that a second `createRole` is no repetition. The traffics of the run
`membership` satisfy it.

*Types.* `TypeOK` of `AuthService` is inductive because of `Locals`: a handler that
is about to make a call has set the local variables that the call takes.
Without it `sessions[req[r].sess]` could be out of its domain, and nothing else
could be proved. `TypeStep` has one step per action. `TInv` does the same for
`RedirectAllowlist`, and `Typed` for `OrgMembership` and `Administration`, where
`StepLocals` follows a handler from each await to the next.

*Sessions.* `ClosedSessions` needs only `TypeOK` and three lemmas: how a session row
changes (`SessionStep`: `Gone` is final), that a step which writes a token for a
session is one of its carriers (`TokenStep`), and that a request becomes a
carrier only by finding the session live or being one already (`CarrierStep`).
`OwnSession` is the inductive strengthening for `OwnerCloses`. A token's pair of
user and session comes from a handler's locals, and those come from a row, from
another token, or from the path; `OwnStep` follows the pair around. The part about
`saveUser` is there because between choosing a user and opening its session the
handler must not carry a session of anybody else. `OwnerCloses` then follows
from `WorksOn`: the sessions that a step deletes are those of the request's user
or the one in its locals.

*Refinement.* `StepMaps` takes each handler's step to a step of `SessionLifecycle`
or to a stutter; `QuietStep` disposes of the steps that concern neither sessions
nor tokens. Revoking a token is `Lapse` only if it was issued, so the invariant
`TokensHeld` is needed: a token that a request was given has been stored, and the
refresh token that it is about to store has not. `OwnSession` makes the permit
that a refresh takes the payload of the session's owner.

*Accounts.* `UserStep`, `CredStep` and `CallStep` say how a row of a user, a row of a
credential and a handler's next call change in one step; the three theorems
follow from them. The serial invariants `Rotation` and `Password` say of a
handler in flight what it knows of the table: one that is about to store tokens
has revoked the old one, and one about to insert a credential found none.

*One-time links.* `LinksImplement` and `InvitesImplement` rest on one invariant each,
`LinksHeld` and `InvitesHeld`: a request that holds a link is a handler that
consumes links, past its look-up. A handler of any other kind holds none, so
that its steps are seen as stutters, or as `Issue` where it creates a link
(`CreateMaps`, `SaveMaps`). `LookedUp` gives `Take` an open link and the locals its
purpose, `KeepsClaim` carries them unchanged through the later calls, and `Marked`
says that nothing but the mark changes in the row.

*Announcements.* `LoginAnnounced` speaks of the tokens in the clients' hands. A
token may have come through any number of refreshes, so `Announced` follows the
event through them: each handler that carries a token knows that its session or
its user was announced, or is about to announce it itself.

*Notifications.* `TypeOK` is inductive. `KeepsReconnecting` needs `Heard`, which says
why overlapping calls do not strand the process: a model whose `connect()` is over
is alive as far as the process knows and has listeners, and one without a channel
is still waiting for it. `AllSafe` follows a message from the queue to the consumer
and back, and adds that what the provider accepted counts as mailed before the
answer comes. `AllCounted` bounds the mails of a message in a handler's hands by
those of earlier consumers (`Earlier`), its attempts so far, the one that is being
made and the caller's (`Own`); what makes it inductive is that a message which is
back in the queue of a consumer whose connection holds was not mailed by that
consumer.

*Organisations.* `RowsHaveOwners` is inductive on top of the types, since a foreign
key guards each insertion and cascades each deletion. `OnlyPlatformAppoints`
needs `Apt`: a handler with a role of an administrator has the scope that was
checked, whether it was asked by a request or by an invitation of another
request (`InvitesApt`). The other three are about requests that do not overlap:
`Current` says what the only handler in flight knows of the tables at each await,
which is what makes a failure there harmless, and `Missing` that the template
which it is about to save is not there.

*Administration.* `Moved` and `KeyMoved` say all that can become of a row of a user
or a key in one step; `NothingUndone` and `RevokedForGood` follow from them. `Kinds`
is what a handler can still believe of a user that it read awaits ago: the row
may be gone, or back, but as long as it is there it is of the same kind and, for a
service account, of the same organisation. It is inductive only with its third
part, that nobody holds a whole row of a service account. With `KeysKnown`, that
the key about to be revoked is the account's, it gives `ChildrenHaveUsers` and
`ScopedToOrg`. `AddressesKept` speaks of the rows about to be saved as well as of
those in the table, and `Enrolments` of the handlers that found no enrolment.

*Events.* `NothingSkipped` is not inductive: an event whose transaction is open
must be counted as late already when the cursor passes it (`PassedKnown`), and an
event that begins at the very stamp of the cursor must find there the event
that the cursor stands for (`CursorOfEvent`). `CursorBelow` and `CursorMonotone`
are the arithmetic of rounding down to a millisecond.

*Allow list.* `SInv` says that a reload in flight holds what the table holds, which
is what overlapping requests destroy. For `RemovedRefused` it also says that no URI
is listed twice (`ListedOnce`), or a removal would leave the twin.

*Permissions and seed.* The tables change in few ways, and two facts carry all
the proofs (`Kept`): a role goes only with its organisation, and permissions are
only added to it; a user keeps the global roles as long as the account is there
(`erased`). `Typed` adds that the roles which an
instance has in its map are there and global. A check is followed by `Answers`: a
ground that was there all the time is still there, membership included, and
counts among what was read (`Sure`, `Heard`): the role was read while it was held and
the memberships while it still was. What was read was a ground at one moment
(`Ever`).
`Seeding` says what an instance knows at each await: the roles of its map have the
slugs of the defaults, those before the current one are complete, and the current
one has its permissions up to the next to be saved (`Progress`); the
administrator of an instance that serves has a role of that slug, or is erased
(`AdminKnown`). It does not
mention what other instances do, since nothing of it can be taken away: that is
why it survives instances that start together. `SeededOnce` does need to be
alone (`Alone`): what an instance found missing is missing until it is saved, for
permissions all those from the next one on, which takes that a default lists
none twice.

`KeepsLinks` and `KeepsInvites` are proved and belong to no run: TLC found no
violation of them on the instances of `accounts` and `membership`, but takes
minutes more there. What the run `accounts` checks of them is `UsedOnceDone`.

Only model-checked: liveness (`Settles`, `Reconnects`, `Delivered`), which is
out of the prover's reach. Every other property of a passing run is a theorem,
four of them under the assumptions on traffic named above.

## 5. Not modelled

- Audit rows and templates, DTOs, wiring, configuration and the health check:
  no behaviour depends on them.
- The orderly shutdown of the RabbitMQ service, after which the process is gone;
  and `resendVerification`, which creates a link as `register` does.
- The read-only endpoints, with the rules on who may read what.
- The permission check of an API key. A service account can be given a role of an
  organisation by `createOrganization`, which takes any user as administrator
  (`management.controller.ts:167`), so its check may well allow. It is that of a person
  after one more query, which denies it when the resource is of another
  organisation than the account (`authorization.service.ts:41`).
- Of `updateOrganization`, `RbacStore` has the slug, which the seed goes by; name and
  metadata are left out, and `OrgMembership` leaves out the handler.
- The reads and checks of the handlers whose writes are in `RbacStore`: those are in
  `OrgMembership` and `Administration`. A second row of a membership, which
  overlapping requests can insert, is one with the first there. A deleted user or
  organisation may come back through a stale save, without what was cascaded;
  `AdminIsSeeded` excepts whoever was deleted once, also when back.
- The organisation that `AuthGuard` and `OrgContextMiddleware` attach to a request
  for a key (none, when the account has vanished since): the handlers modelled
  here take it from `Callers`, and the use of the key itself is `UseKey`.

Six hazards have no property, since the code permits what they say and no text of the
repository promises otherwise. A request passes on its token alone, so access
outlives the session until the token expires (`auth.guard.ts:37`); that nothing
lengthens it is `ClosedForGood`. Two overlapping resets may leave two credentials of
one user (`auth.service.ts:221`); `OnePassword` shows that it takes an overlap. A login
that compared the old password before a reset may open its session after the
sweep (`:231`). Two overlapping additions list a URI twice
(`management.controller.ts:1022`). A member whose role is changed has none in between
(`:316`), and a request that is refused because the administrator is not found leaves
the organisation that it created (`:159`).

## 6. Plan

Done, in this order: `AuthStore` and `AuthService`, `Notifications`,
`RedirectAllowlist`, `OrgMembership`, `EventsFeed`, `Administration`, `Access`,
`SessionLifecycle` and its refinement, the proofs of section 4, and `OneTimeLink`
with its two refinements. What is left out is in section 5.
