# A TLA+ verification of nestjs-orm-backend

`apps/nestjs-orm-sandbox` is a NestJS server: an HTTP API over a relational
database (MikroORM 5.9), and a socket.io gateway that keeps clients informed of
changes of the *features* they subscribe to. This directory holds TLA+ models of
the parts whose correctness depends on the order of events, the TLC instances
that check them, and TLAPS proofs of their safety for every instance.

Paths below are relative to `src/apps/nestjs-orm-sandbox/src` unless they begin
with `libs`. `PROJECT.json` gives the source lines of every definition.

## 1. The system

The server is one Node.js process. Code between two `await`s runs without
interruption; what makes the order of events hard is that

* each handler of a WebSocket message or an HTTP request gives up the event loop
  at every `await` (user lookups, queries, flushes), and any other handler can
  run there;
- every HTTP request works with its own EntityManager, so the database
  transactions of two requests are ordered by the database only;
* connections close, database calls fail, tokens expire, and the process ends,
  at any of these points.

| Component | State | Operations | Interacts with |
|---|---|---|---|
| Client connections (`client-connection/`) | `connections` Map of ClientConnection (auth, roles, tokenInfo, activeFeatures), collector `_activeFeatures`, socket.io rooms | connect, disconnect, Auth, Logout, AddFeature, RemoveFeature, broadcast, broadcastAll | AuthService (lookup), feature data providers (initial data), client monitor (its own changes are feature CLIENT_MONITOR) |
| Guard of WebSocket messages (`auth/passport/ws-connection.guard.ts`) | the token and its `valid` flag | canActivate | in front of every gateway handler |
| Feature catalogue (`libs/@nestjs-orm/client/src/model/feature.model.ts`) | none | bit masks, data distribution, roles | all of the above, and the client |
| Feature data providers (`core/features/feature-data-provider.ts`, locator, CounterService) | list of providers, a counter with a timer | getInitialFeatureData, notifyDataAdded/Changed/Removed | broadcast |
| Application configuration (`core/config/app-config/`) | cache Map, table `app_cfg` | init, getVariable, setVariable | broadcast, `.env` |
| User configuration (`core/config/user-config/`) | table `user_cfg` | getAll, getVariable, setVariable | broadcast to one user |
| Authentication (`auth/`) | none; JWT tokens are stateless | login, validateUser, HTTP guards, role guard | user table |
| User administration, profile (`feature-modules/admin`, `profile`) | user table | CRUD of users, change of password | broadcast of LogoutOnUserChange |
| Startup (`main.ts`, `init/`) | progress of the process | initDbContent, init of every service, listen | everything |
| CRUD layer (`core/orm`) | tables | CRUD with ownership filter and operation switches | users, sandbox entities |
| Events, feature event emitters (`core/events`, `core/features`) | listeners | emit, on | feature data providers |
| Trace (`core/trace`) | `inited`, `TRACE_DISABLED`; switches are application variables | isTraceEnabled, verbose | every handler |
| Client library (`libs/@nestjs-orm/client`), transforms | none | masks, roles, decisions, conversions, maps | all of the above, and the client |
| Task executor, scheduler, sandbox | queues, jobs, example tables | | |

What makes each of them correct, and hard:

* *Client connections.* User, role bits, rooms, features and what was announced
  of a connection must agree, although the Auth handler writes to the connection
  after an await in which the client logged out, sent another token or closed. A
  subscriber of a global feature must be in the room its changes are sent to, and
  variables of a user must reach nobody but him. The collector must show what at
  least one connection wants, and nothing else.
* *Application configuration.* Table, cache and subscribers must agree, although
  two sets, a reload, a failed flush or a restart can fall between the steps of
  a set.
* *Feature data providers.* Initial data and the changes told later must leave no
  gap: a change made while the data are read must be in them or be addressed to the
  subscriber, although he logs out or authenticates as another user meanwhile.
* *User configuration.* Gets and sets of a user's variables must be atomic,
  although each is several queries, and what a deleted user owned must stay gone.
* *User administration.* A refused request changes nothing; tokens, which nobody
  compares with the table again, say what it once said; a change of password
  changes the account it checked, and nothing but the password.
* *Startup.* A start ends listening and initialised, whatever the one before it
  left in the database when it crashed or failed half way.
* *CRUD layer.* A user changes only the rows he owns, and every row has an owner,
  although tokens outlive their users.
* *Operators.* Bit masks are the sets they stand for, the program's four checks of
  roles agree, and the value of an application variable keeps its meaning on its
  way to text and back.

`PROJECT.json` lists the hazards, each at its line, with the properties that
speak of it.

## 2. Modules

| Module | Models |
|---|---|
| `Features` | the feature catalogue, role names, room names |
| `ClientConnections` | gateway handlers, ClientConnectionService, guard, rooms, user lookup |
| `FeatureBroadcast` | `ClientConnections` composed with pushes of feature data |
| `FeatureData` | `ClientConnections` composed with the feature data providers |
| `AppConfig` | AppConfigService, its table, its cache, its callers |
| `ConfigStore` | abstract: an atomic store of the variables of owners, the users or the application |
| `UserConfig` | UserConfigService, its table, its callers; implements `ConfigStore` |
| `UserAdmin` | login, tokens, the user table, its administration, change of password |
| `OwnedRows` | `UserAdmin` composed with a table of rows that users own |
| `Startup` | processes from `main()` to `listen()` on one database |
| `Lists` | the loop that collects some items of a list |
| `AccessRules` | masks, roles, decisions, as operators |
| `Conversions` | values, texts, transforms, traces and maps, as operators |
| `Operators` | the inputs and properties of the two |
| `*Proofs` | theorems and proofs, one module per component |
| `MC*` | instances for TLC |

### Features and ClientConnections

A socket id lives once: `fresh`, `open` (it has an entry in the Map), `gone`.
`auth`, `roles`, `token` and `features` are the fields of its ClientConnection
object, which a pending handler still holds after the entry was deleted.
`activeFeatures` is the collector, `rooms` what socket.io keeps, `announced` the
connection as the last `notifyDataAdded/Changed/Removed` described it (`Dto`: user,
role bits, features, and the token with its flag, as `convertSensitiveData`
sends them). A set of
features or roles stands for the bit mask: each has a bit of its own.

| Action | Code |
|---|---|
| `Connect`, `Disconnect` | `handleConnection`/`add`, `handleDisconnect`/`remove` |
| `AuthStart` | `handleAuth` up to `await validateUser`: the token is verified and stored |
| `AuthBadToken` | the same when `verify` throws; there is no await then |
| `ReadUser` | the moment the database evaluates the lookup, or fails it |
| `ValidateReturn` | the continuation: user found, not found, or an exception; joins the user room and answers |
| `Logout` | `handleLogout`/`logout` |
| `AddFeature`, `RemoveFeature` | `handleAddFeature`/`addFeature`, `handleRemoveFeature`/`removeFeature` |
| `GuardFindsLapsed`, `TokenLapses` | the guard clearing `valid` of an expired token; the clock |
| `EditUser` | an administrator changing the row `validateUser` reads |

The reads and writes of a handler between two awaits are one step, with all
that it calls: an AddFeature joins the room, sets the bit, merges the collector
and announces. Guard and guarded handler are one step, for only microtasks
separate them. AddFeature and Auth reach their handlers unguarded: the
decorator `@UseRequestContext` replaces the method under which the guard would
find its metadata. `ReadActiveFeatures` is empty because the getter of
`activeFeatures` is commented out (client-connection.service.ts:51-56).
`Broadcast` in `FeatureBroadcast` emits to a room if the collector, read through
the same getter, has the feature.

Left out: Ping and Test messages, the wording of answers and log lines, the
`disconnect` that handleConnection calls when `add` throws. An Auth without a
token returns without a change and is no action.

What the code does in these cases has no run of its own and is worth knowing; the
model does the same, and the properties say where they stop:

* *Rooms of user variables.* An AddFeature of USER_CONFIG before any Auth joins the
  room `USER_CONFIG@undefined` (app.gateway.ts:187, client-connection-utils.ts:67),
  to which nothing is ever broadcast: the feature bit is set, and no change of the
  variables reaches the connection, also after it authenticates. A logout leaves
  neither the user room nor the room of the variables (app.gateway.ts:150-166), so
  that who logs in next on the socket goes on receiving those of the user before.
  `SubscribedInItsRoom` therefore speaks of global features only, and
  `VariablesReachTheirOwner` of users this socket has authenticated as, not of the
  one it is authenticated as now.
* *Unsubscription.* A subscription that is removed after a logout, or after a change
  of user, keeps the room AddFeature joined, for the room is computed from whoever is
  authenticated at that moment, although client-connection-utils.ts:36 says of it
  "this room will be left on feature un-subscription (removeFeature)". An AddFeature
  that fails after the subscription (the provider of USER_CONFIG throws without a
  user) stays subscribed.
* *Announced tokens.* `handleAuth` stores another token without an announcement
  (client-connection.service.ts:133-146); the lookup that follows announces it. The
  guard clears the flag of an expired token and announces it to nobody
  (ws-connection.guard.ts:102): the client monitor shows it valid until the next
  change. `AnnouncedIsCurrent` names both exceptions.
* *`AppGateway.logout`* (for the HTTP logout, which is commented out) would leave
  the room `name`, where the user's room is `@name`.

### FeatureData

Application variables, counter and connections are in memory; the user variables
are read from the database, so that an AddFeature of USER_CONFIG is three steps.

| Action | Code |
|---|---|
| `Refuse` | `checkFeatureInitialDataAuthorization` throws before anything changes |
| `AddAnswered` | `handleAddFeature` with data in memory, or with a provider that throws after the subscription |
| `AskUserConfig`, `ReadVariables`, `AnswerAsk` | the room is joined and the query sent; it is evaluated or fails; the client is answered |
| `Leaving`, `Staying`, `ConnectionStep` | the steps of `ClientConnections`, and which of them end a subscription |
| `ChangeVariable` | `UserConfigService.setVariable` from `notifyDataChanged` on |
| `Count`, `SetCounter` | the interval of CounterService; `PUT /counter/:value`, whose event reaches the provider within the call |

`missed` is a history variable: a change after the query was addressed to no
room of the client. A change is *addressed* here; that socket.io is never asked
to emit it is what `FeatureBroadcast` shows.

Who is answered is less than the source says it is. All four providers declare
`'AnyRole'` (of the connections: client-connection.service.ts:280-282), so the
locator refuses nobody, and the gateway ignores it when
`checkFeatureInitialDataAuthorization` returns false because nobody is
authenticated (app.gateway.ts:181, 347-349). A connection without a user is
therefore answered CLIENT_MONITOR with all connections, although the catalogue
gives that feature `initialDataRoles: [Role.Admin]` (feature.model.ts:127), and
app.gateway.ts:318 names AppConfig as the only feature for which "No authorization
is required". `InitialDataAreDue` says what does hold: of the authenticated, only an
administrator is answered the connections.


### AppConfig

A value is its text; Boolean and String variables are enough for what differs
between a set (which caches the value it was given) and a reload (which caches
what `valueFromString` makes of the text, and takes `.env` where the text is
missing or empty).

| Action | Code |
|---|---|
| `Boot` | start of the process, `init()` awaited before it listens; its failure leaves an empty cache |
| `SetStart`, `SetRead`, `SetCommit`, `SetFinish` | `setVariable` up to `findOne`; the row is read; `flush` commits; cache and broadcast |
| `SetFail`, `SetAnswerLost` | the query or flush rejects; it commits and rejects all the same |
| `LoadStart`, `LoadRead`, `LoadFail`, `LoadFinish` | `POST /appconfig`: `init()`, not awaited by the controller |
| `Crash` | the process ends; only `db` survives |

`attached` says that the cache entry a set found is still the one in the Map (a
reload replaces entries by new objects). `Flushed` is the ORM's part: `flush`
writes what differs from the row as it was read, and `create()` without
`persist()` writes nothing (`persistOnCreate` is off in the locked version
5.9.8; every other `create()` of the repository is followed by `persist`).
`alone`, `raced` and `suspect` are history variables: no guard reads them. A PUT
whose id is unknown or whose type differs throws before any state changes, and is
the guard of `SetStart`.

The table and the cache can end with different values after two overlapping sets
of one variable, as each assigns the cache after its own commit; and a first
change of a variable is lost, as in `UserConfig`. Neither is what
config.model.ts:11 says of a change ("if a variable is changed config service
persist it into the database"); they have no run of their own, and
`CoherentUnlessRaced` and `AcknowledgedIsStored` say when they happen.

The races are the cache's alone. `ImplementsStore` maps the table to
`ConfigStore` with one owner, the application: a set is a set of the store, which
takes effect when its flush commits, or when it reads the row if it will have
nothing to write; a reload is a get, of the rows its query returned, answered
when it has filled the cache (the response to POST /appconfig does not wait for
it). What a set marks on others, and what a reload detaches, the store does not see.

### ConfigStore and UserConfig

| Action | Code |
|---|---|
| `GetStart`, `GetRead`, `GetReturn` | `getAll`: the request, its one query, the answer |
| `SetStart`, `SetLoad`, `SetReload` | `setVariable`: the request, the query of `getVariable`, and a second one if the variable is missing |
| `SetRead`, `SetCommit`, `SetReturn` | `applyValue`: `findOne`, the commit of `flush`, the broadcast and the answer |
| `SetAnswerLost`, `CallFail` | flush commits and rejects all the same; a query fails, or `checkVariable` rejects |
| `DeleteUser`, `Crash` | the foreign key of `OwnedByUserEntity` cascades; the process ends |

The service has a Map named `cache` that it reads and never writes. The Maps
that calls build from their queries are therefore private to the call, and
`userVars.set` in `setVariable` changes one that is dropped: the table is the
only state. What decides the outcome of a set is the row `findOne` reads, as the
ORM refreshes the entity that was loaded before. `create()` without `persist()`
inserts nothing, as in `AppConfig`. Tokens are not checked against the user table
on HTTP requests (`JwtStrategy.validate`), so a deleted user can still make
calls. `getVariable` on its own is `getAll` and a choice from its result.

`ConfigStore` is what clients may rely on: an operation is invoked, takes effect
at one moment, and is answered; one that fails may or may not have taken effect.
`ImplementsStore` maps `user_cfg` to `value`, and says when a call takes effect:
a get at its query, a set when its flush commits, or, if what it read leaves
it nothing to write, at that read. The same mapping fails for `AppConfig`, whose
cache answers the gets and is written after the commit.

### UserAdmin and OwnedRows

A request is answered in the step of its only query, unless something happens
between its queries or after the last. A row is a name, the stored form of its
password (a hash, or the password itself), and its rights; a token is what login
read of a row. `granted` (what active rows have been worth) and `renamed` are
history variables.

| Action | Code |
|---|---|
| `Login`, `LoginReturn`, `Renew`, `Expire` | `LocalStrategy` and `validateUser`; the token is signed after the query; `POST /auth/renew` signs the token it got |
| `Rejected`, `QueryFails` | JwtAuthGuard and RolesGuard; the first or a later query of a request fails |
| `Insert`, `Update`, `DeleteAll` | UserController over OrmCrudController and UserRepository, one query each |
| `DeleteRead`, `Delete` | `UserController.delete`: the row is read, then deleted |
| `PasswordCheck`, `PasswordFlush` | `changePassword`: `validateUser` by the name in the token, then `update` by its id and `flush` |
| `InsertRow`, `UpdateRow`, `DeleteRow`, `DeleteAllRows` | OrmCrudForCurrentUserController with the filter `owner` |
| `CreateTestData`, `DeleteTestData` | PersonService |
| `Cascade` | the foreign key of `OwnedByUserEntity`, in every step that deletes users |

Details that decide the properties: every row of the table is in the identity map
of a request after `validateUser`, which finds users by `findAll`, so `update`
works on the row as it was then (`Entity`); `flush` writes the columns that differ
from it, by key (`Flushed`); the changed password is stored as it came, and
logins with it fail until an administrator sets another (`Plain`, `Matches`); an
update and a deletion broadcast after their commit with a target that has no
feature, whose bit cannot be looked up, so that they are answered with 500
(`BroadcastToUser`). After a rename, `changePassword` checks the password of the
user who has the old name now and changes that of the user with the id:
`CheckedAccountIsChanged` excepts that history. `DELETE /user` calls the
repository past the operation switches (orm-crud.controller.ts:54).

### Startup

Several processes share a database that outlives them. `users` and `variables`
say which transaction inserted a row, so that a user deleted and inserted again
is another one.

| Action | Code |
|---|---|
| `Start`, `Create` | `main()` reads `.env`; `NestFactory.create` and `initApplication`, which does nothing in a test |
| `CountUsers`, `SeedUsers`, `SeedVariables` | `initDbContent`: the query of users and its two transactions |
| `LoadConfig` | `AppConfigService.init`, which logs its exception and returns |
| `InitTrace`, `InitProviders`, `Listen` | `TraceService.init` reads every switch and may throw; the providers; `listen` |
| `QueryFails`, `ConfigQueryFails`, `Crash` | a query fails, or commits and its answer is lost; the process ends |
| `AddUser`, `DeleteUser`, `DeleteAllUsers`, `SetVariable`, `CreateSchema` | the requests that matter to the next start; `main createdbschema` |

A rejection of `initApplication` reaches `unhandledRejection`, which logs it: the
process is `stuck`, neither listening nor ended. `clean` (history) says that a
start found a complete `.env` and no other process, and met no failure.

A crash between the two transactions leaves users without variables for good, for
the next start finds users and inserts nothing. A process whose `.env` lacks the
filter of traces listens all the same, and its first traced message throws.

### AccessRules, Conversions and Operators

The pure functions, translated one by one: feature masks (`feature-utils.ts`),
lists of roles in the four places that test them, decisions and their evaluator,
`ConfigUtils`, `EnvUtils`, the loading, setting and getting of variables, the
transforms, the filter of traces, `MapUtils`. A text is a sequence of words, what
stands between its commas, each with or without blanks around it. `Operators` has
one variable, the input; its properties compare the results with sets,
quantifiers and round trips.

Loops are folds or recursive functions over the rounds, and a decision is
evaluated by a recursive function over the decisions of bounded depth, so that they
can be reasoned about. `&`, `|` and `~` are defined by division and remainder as
far as the code uses them, on one bit or on a run of bits; two assumptions of
`MCOperators` compare them with the module `Bitwise`.

`SetValue` takes a value of the type it names: the code compares the type that is
named only, not the value, and caches what it was sent (app-config.service.ts:133),
so a value of another kind is cached until the next load. `StringOf` has that
arrays lose their brackets and objects everything on their way into a row
(user-config.service.ts:155).

How user variables are read is not modelled, and no property speaks of their
values: `UserCfgConverter` hands on the text of the row and the row's type
(user-cfg-converter.ts:13), and the typed getters compare the type they are asked
for with the row's. That is against config.model.ts:14 ("during loading string values
converted into real type using ConfigUtils.valueFromString()") and :25 ("to
access values with real type use service.get<TYPE>(id)"): `getBoolean` of a stored
variable returns a string. A set checks the type it is sent only when the variable
is missing (user-config.service.ts:98), so a row may also hold a text that does not
fit its type. `UserConfig` has which text is stored.

## 3. What is checked

| Run | Instance | Shows |
|---|---|---|
| `auth_races` | 1 socket, 2 users, 2 lookups in flight, rows active as admin, active as user, deleted | user, role bits, user room, room of the user's variables and announcement stay consistent; every Auth is answered |
| `collector` | 2 sockets, 1 user, 1 lookup, 1 change of his row, 2 features | the collector has no phantom feature, and is exact after each loss of a subscription; subscribers of a global feature are in its room |
| `feature_data` | 1 socket, 1 user, 1 lookup, 1 AddFeature waiting for the database, 1 change of his row, 3 features, counter up to 1 | a subscriber misses no change of the user variables while he waits; initial data leave no gap to the changes told later; every AddFeature is answered |
| `config_races` | 1 changing variable, another one after it, 2 sets, 1 reload, every initial row | cache, table and subscribers agree but for races and lost answers, lone calls repair them, and the table implements `ConfigStore` |
| `user_config` | 2 users, 2 variables of which one is always stored at first, 2 values, 2 calls | the service implements `ConfigStore`; a lone set of a stored variable is stored; nothing of a deleted user comes back |
| `user_admin` | 2 clients, 2 ids and names, 1 administrator at first, 3 kinds of rights, 2 changes of users, 1 row, any number of changes of it | tokens, checked accounts and owners stay consistent; a refusal changes nothing; only administrators edit users; every request is answered |
| `startup` | 2 processes, 3 starts, 5 `.env` files, 2 changes of users or resets of the schema | a clean start comes to listen and is usable, whatever the ones before it left; seeded users have their variables |
| `operators` | 158 thousand inputs | masks are sets, the checks of roles agree, values of application variables keep their meaning |
| `broadcast_misses_subscriber` | 2 sockets, 1 push | violation: nothing is ever broadcast (missing getter) |
| `logout_overtaken` | as `auth_races` | violation: a lookup in flight authenticates the connection after Logout |
| `new_variable_lost` | user variables without a row | violation: the first set is answered and not stored |
| `user_change_fails` | as `user_admin`, without rows | violation: an update of a user is committed and answered with 500 |

The four violations are disagreements between the code and its own comments
or tests, quoted in `PROJECT.json` under `findings`.

*Bounds.* Two lookups on one socket give every overlap of two Auth handlers, and
of one with Logout, Disconnect and subscriptions; a third adds no new pair. The
properties speak of one socket, or of a socket and the collector, so that two
sockets suffice for the latter. `MaxUserEdits` bounds changes of user rows;
lookups may fail at any time regardless. Two sets and a reload give every pair
of overlapping calls; the second variable is there for the reload that throws
half way. The slots of the sets are interchangeable there (`SameSlots`): no
property names one, and the operations of the store are permuted with them. Two
calls on two variables of two users give `user_config` every
overlap of a set with a get, with a set of the same and of another variable, and
with the deletion of its own or another owner. `MaxPushes` is one: a push changes
nothing a later one reads.

`feature_data` has one user, so that the client logs out and in again but not as
another: with two the state space is beyond a few minutes. The theorem
`NothingMissedTheorem` covers the rest. Its properties speak of one socket and of
each waiting handler by itself.

In `user_admin` each of two clients makes one request at a time, so that a login,
a deletion or a change of password overlaps with everything another client can
do; two ids make a row deleted, and one renamed or inserted in between; two names
give the clash of names. `MaxId` and `MaxEdits` bound the table and its changes,
not logins, renewals, changes of password and requests on rows; updates rename,
set a password or disable. In `startup` the third
start is the one after a process that failed or crashed beside another; two
changes are a deletion and an insertion of the same user, or a reset. In
`operators` lists have up to two members (lists of rows up to four), decisions
two levels, and masks a bit without a feature in every range of roles.

Sockets that are gone do not return, starts are bounded and processes may be
stuck, so the instances of `ClientConnections` and `Startup` really end and are
run without the deadlock check; the other passing instances never stop and are
run with it.

*Fairness.* Weak fairness, and only of what the event loop and the database owe:
each lookup of `ClientConnections`, each AddFeature handler of `FeatureData`, the
continuation of each client's request in `OwnedRows`, and the next step of each
process in `Startup`: the database answers or fails every query, and the event
loop runs every continuation. Clients, administrators and the clock owe
nothing, and nobody need start or crash a process. `AuthAnswered`,
`AsksAnswered`, `EveryRequestAnswered` and `CleanStartListens` need it.
`AppConfig` and `UserConfig` assume none.

*Mutants.* Every property comes with a mutated definition, a plausible bug, under
which TLC finds it violated: a stale announcement, role bits of an earlier
authentication, a failed set that caches, a query without its ownership filter, a
flush of every column, inserts that are not awaited, a loop that starts from the
wrong value, and so on. They stand next to the definitions they mutate.

## 4. What is proved

For every set of sockets, clients, users, requests, rows, processes, variables
and texts, from the named assumptions of the constants only:

| Module | Theorems |
|---|---|
| `ClientConnectionsProofs` | `TypeCorrect`, `RolesTheorem`, `UserRoomTheorem`, `OwnerTheorem`, `SubscriptionTheorem`, `AnnouncementTheorem`, `CollectorTheorem`, `CollectorRepairTheorem` |
| `FeatureDataProofs` | `ConnectionsKept`, `DataTypeCorrect`, `NothingMissedTheorem`, `InitialDataTheorem` |
| `AppConfigProofs` | `TypeCorrect`, `SafetyInvariant`, `CoherenceTheorem`, `AcknowledgedTheorem`, `ReloadTheorem`, `KnownTheorem`, `ThereTheorem`, `StoreTheorem` (the table implements `ConfigStore`) |
| `UserConfigProofs` | `TypeCorrect`, `SafetyInvariant`, `LoneSetTheorem`, `DeletedTheorem`, `StoreTheorem` (`UserConfig` implements `ConfigStore`) |
| `UserAdminProofs` | `TypeCorrect`, `TokensTheorem`, `CheckedTheorem`, `RefusalsTheorem`, `OnlyAdministratorsTheorem` |
| `OwnedRowsProofs` | `OwnedUsers`, `OwnedTypeCorrect`, `OwnersExistTheorem`, `OwnersAloneTheorem` |
| `StartupProofs` | `TypeCorrect`, `SwitchesTheorem`, `SeedsTheorem`, `CleanTheorem`, `UsableTheorem` |
| `OperatorsProofs` | `FeatureMasksAreSets`, `RoleChecksAnswerAlike`, `ValuesKeepMeaning` |

Each is the argument *Init establishes, every action preserves*, with one step
per action; but for `OperatorsProofs`, where the only variable never changes and
the work is in what the operators compute.

*Connections.* The properties are inductive relative to `TypeOK` and to one
another: a user room is kept because a room is left only by RemoveFeature, whose
room is never a user room, or by closing; the room of a user's variables is joined
for the user the connection is authenticated as, who is in his user room by
`AuthenticatedInUserRoom`; the room of a global feature has one name, whoever asks,
so that only the RemoveFeature that takes the bit leaves it. For the announcement,
`AnnouncedBecomesCurrent` has that a step that announces a connection makes what was
told of it current, whatever it was, and `CurrentUndisturbed` that a connection to
which nothing is done stays so; Auth and the guard, which change a token
unannounced, lead into the property's two exceptions.

*Feature data.* `DataStepIsStep` maps every step of the composition to a step of
`ClientConnections` or a stutter, so that its invariants carry over
(`ConnectionsKept`). That nothing is missed needs that a client who has stayed is
in the room of the user it asked for, which holds because rooms of an open socket
only grow, RemoveFeature apart; and that the counter is what its room was told.

*Configuration.* The properties are not inductive: a set knows nothing of the
table when it starts. `Safety` in `AppConfigProofs` adds what holds during the
calls: `DownIsIdle` (nothing is in flight while the process is down), `LoneSets` (a
set nobody raced has nobody beside it; what it read is what the table holds until
it commits, and its text afterwards), `UnracedLoads` (what a reload has read is
the table, on variables no set overlapped) and `QuietAgree`, the coherence
itself. `Safety` in `UserConfigProofs` adds `LoneSet`, the same for one set.
`StoreTheorem` needs only `TypeOK`; two lemmas carry it: `FlushedIsWritten` (a
flush that writes is the store's `Written`, also when the row has gone with its
owner) and `CleanIsWritten` (a set that reads its own text, or no row, has taken
effect at that read). `StoreTheorem` of `AppConfigProofs` is the same argument
where nobody deletes rows: it needs `ReadIsThere` besides (`ThereTheorem`: the row
a set has read does not disappear), and that an identifier names one call. The
step lemmas say what each action is for the store (`SetMoves`, `SetEnds`, `LoadMoves`,
`LoadEnds`: one slot changes, and the others are the calls they were).

*Users.* A row that login has read may change before the token is signed, and a
token is renewed without a look at the table; `TokensGranted` has both the tokens
held and those a login is about to sign in `granted`. That the checked account is
the changed one rests on `NamesGranted` (while nobody has been renamed, the name a
token was granted for is still the name of its id, if that id has a row) and
`Checked`, the property of each call in flight. `Grows` and `Committed` say once
what a step can do to the table, for the two action properties.

*Rows.* `OwnedUsers` shows that requests on rows keep what holds of users;
`RowRequestWrites` reduces every request to a write of rows the caller selected,
for an owner who exists; the foreign key does the rest.

*Startup.* `Tables` is the shape with `Numbered` (transactions are numbered in
order), `Owned` (no variable outlives its owner) and `Inserting` (a process has
inserted users only where it goes on to their variables): without them a user
deleted and inserted again between the two transactions could not be told from
the one before. `Traced`, `Seeded` and `Clean` are the properties for each step of
the start; a clean process is alone, so that between its two transactions nobody
touches the users.

*Operators.* Every safety property that a run checks on bounded inputs is proved
for lists of any length, decisions of any depth, and any words, texts and rows. The
assumptions: masks have the 24 bits of the catalogue's three ranges; numerals
contain 0 and 1 and neither the empty word nor NaN; a word has one form of each
case; the bounds are numbers.

Induction theorems whose parameter is an operator cannot be instantiated here.
`IntervalInduction` therefore has a set in place of the predicate, from the
well-foundedness of the naturals, and `LoopExists` and `FoldExists` say of a set of
candidates that one of them satisfies the equation of a loop or of a `FoldLeft`.
From these: `FilterFacts` (a filter keeps the members of the set, each once, in
their order), `FlattenSteps`, `DistinctFacts`, `MapFacts` (a map has each key once,
with its last row, and all rows if their keys differ), `GroupFacts` (each key has one
group, its rows in their order) and `EvaluateMeans` (a decision means what its
quantifiers say: by induction on its depth, for which a decision has a verdict, and
only one). `SetBits` and `RangesOfMasks` reduce the masks to arithmetic, and
the properties follow from these by cases on the kind of input.

Left to TLC: the four liveness properties (fairness is beyond the prover), that
the bit operators are those of `Bitwise` (whose definitions are recursive and
which no module with a theorem can use), and what the four violations show, of
which an instance is the proof.

## 5. Plan

1. *Done*: every module of section 2, with its runs and proofs.
2. Left: an abstract registry of connections that authenticates at a single
   moment, and `ClientConnections` shown to implement it where no logout overtakes
   a lookup; `feature_data` with two users.
3. Left: companies and the transaction experiments of the sandbox, as instances of
   an abstract table; the emitter of the CRUD layer, once a controller has one.

## 6. Not modelled

* *Task executor.* Its initialisation is commented out in InitService and nothing
  adds a task.
* *Scheduler and developer tools.* Demonstration jobs that log, and endpoints that
  list or stop them; they share no state with the rest. `DELETE schedulers` names
  `stopAllSchedulers` without calling it (dev.controller.ts:102) and so stops
  nothing.
* *Event test of the sandbox.* A ring of events that emit each other until a flag
  is cleared; a stop and a start in quick succession leave two rings running. It
  is a demonstration with no state but the flag.
* *Caches and context.* `EntityCache` is commented out; nobody uses
  `SimpleEntityCache`, `ContextService` or `KeyValueUtils`.
* *Reads.* `getAll` and `get` of the CRUD layer, listings of connections, Ping:
  one step that changes nothing.
* *The emitter for controllers.* No controller is given one.
* *Declarations*: columns and SQL scripts, option objects, module wiring, log
  formats, build files, code templates.
