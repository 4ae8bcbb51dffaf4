# Verification of the Asterisk PBX config portal

TLA+ modules, TLC configurations and TLAPS proofs about the portal in this
repository: a Django application that keeps the configuration of many PBX
locations, exports it as immutable config versions, deploys versions to PBX hosts
over SSH, and talks to an agent on each host over a WebSocket.

Run a model with `tlc -config <run>.cfg <MC module>`, a proof with
`tlapm <module>_proofs.tla`. `PROJECT.json` maps every definition to the source
lines it stands for and lists runs, faults (mutants), findings, hazards and
theorems.

## 1. Inventory

| Component (src/core unless named) | State | Operations | Talks to | Modelled in |
|---|---|---|---|---|
| Live dispatch, `live_operations.py` | registry location -> session; per session: closed flag, pending futures, outbound queue | dispatch, dispatch_recording_file, resolve_result, register, unregister, close | views (request threads), `agent_ws.py` (event loop, worker threads) | `AgentLink`, `AgentThreads` |
| Agent WebSocket application, `agent_ws.py` | one coroutine and two tasks per connection | handshake, message loop, report handlers | dispatch, database, agent | `AgentLink`, `AgentThreads`, `LocationRow` (reports) |
| PBX agent, `agent_client.py` | connection, current command | control loop, one-report exchange, recording files, AMI commands | portal, Asterisk (AMI) | `AgentLink` (the connection's other end), `RecordingPlayback`, `AmiSession` |
| AMI client and telemetry, `ami_telemetry.py` | one AMI connection, action ids | action, event collection, telemetry, scan of recordings | Asterisk | `AmiSession`, `RecordingPlayback` |
| Deployment, `deployments.py` | DeploymentRecord, deployment fields of ConfigVersion and Location; on the host: volumes, `.previous`, marker, script | deploy_config_version (deploy and rollback) | PBX host over SSH, audit log | `Deployment` |
| Export, `config_export.py`, `config_archive.py`, `runtime_images.py` | ConfigVersion | create_config_version, archive building, routing validation | models, deployment | `ConfigExport`; the dial plan in `CallRouting` |
| Dial plan generators, `ivr_dialplan.py`, `ring_group_dialplan.py` and others | none (pure) | contexts for IVRs, ring groups, feature codes, outbound routes | export | `CallRouting` |
| Locations, `models.py`, the location form, `ami_credentials.py` | the location's row | form, rotation, reports, feature codes | agent, deployment, dashboard | `LocationRow` |
| Extensions and groups | extensions, DIDs, memberships | forms, deletion, import | export | `ExtensionEdit` |
| Phones, speed dials, DIDs, `phone_csv*.py` | phones, lines, speed dials, DID routing | three imports, phone export, phone form | export | `PhoneImport` |
| Providers, trunks, outbound routes | rows that refer to each other | forms and deletions | export | `TrunkRoutes` |
| Users, identities, API keys: `service_principals.py`, `access.py`, `middleware.py`, `audit*.py` | users, roles, key hashes, AuditLog | create, rotate, revoke, authenticate, update | views | `ApiAccess` |
| Backups, `backups.py` | backup archives | create_admin_backup | database, media, exports | `AdminBackup` |
| Admin site, templates, settings, migrations | - | presentation, declarations | all | not modelled |

What is hard here:

* three kinds of threads share a session: request threads that block in
  `Future.result`, the ASGI event loop, and worker threads that block in
  `queue.get`. Locks cover single statements, never a whole operation;
* a connection is replaced by the next one with the same credentials, and every
  telemetry or marker report of the agent is such a connection;
* a command outlives its caller's time-out;
* an export and a backup read the portal query by query while operators edit it;
* a deployment is ten remote commands without a transaction; the portal process
  may be killed and the SSH session lost between any two of them, and nothing
  keeps two deployments of a location apart;
* a view reads a row, checks, and saves every column later; most rules that span two
  rows are checked by the form of one of them only;
* Asterisk's manager interface answers with messages that may be cut, delayed, or
  mixed with others.

What makes the components correct:

* dispatch: futures are completed once, nobody waits for a completed or forgotten
  one, commands are carried out at most once, answers belong to their requests,
  closing ends everything that waits;
* deployment: a recorded success means that this version is what the host runs,
  whatever happened before; a failure is visible; records, versions, dashboard and
  audit agree;
* export: versions are numbered in the order in which they appear, no export fails
  on another's number, no archive breaks the hard export block;
* location: the dashboard shows drift whenever there is some, no writer undoes
  another's columns, secrets come from administrators;
* access: a replaced or revoked secret is refused from then on, only administrators
  change access, every change is in the log;
* dial plan: every call ends, at the destination that was configured, with the
  recording that was configured; emergency numbers go where they must and only from
  where they may;
* edits and imports: references stay within a location, nothing is written half,
  what an import reports as done is done;
* backup: it contains the media of the rows it contains, and what it lacks or has in
  excess changed while it was made;
* AMI: success means that Asterisk did it and that a list is whole; a session ends.

`PROJECT.json` lists the hazards with their lines and the properties that watch
each one.

## 2. Modules

| Module | What it is |
|---|---|
| `LiveCommand` | abstract specification: what a caller and the PBX see of a live operation |
| `AgentLink` | the portal's side of the agent link, the connections and the agents |
| `AgentLink_proofs` | theorems about `AgentLink` |
| `MCAgentLink` | instances of `AgentLink` for TLC |
| `Deployment` | deploy_config_version, the remote swap script, the records |
| `Deployment_proofs` | theorems about `Deployment` |
| `MCDeployment` | instances of `Deployment` |
| `ConfigExport` | create_config_version and its view against concurrent edits |
| `ConfigExport_proofs` | theorems about `ConfigExport` |
| `MCConfigExport` | instances of `ConfigExport` |
| `LocationRow` | the row of a location and all its writers |
| `LocationRow_proofs` | theorems about `LocationRow` |
| `ApiAccess`, `MCApiAccess` | users, identities, API keys: requests against each other |
| `ApiAccess_proofs` | theorems about `ApiAccess` |
| `CallState` | the state of `CallRouting` and what is to hold of calls |
| `CallRouting`, `MCCallRouting` | the generated dial plan, and what a call does in it |
| `RoutingSamples` | the configurations and calls it is checked with |
| `ExtensionEdit`, `MCExtensionEdit` | extensions, DIDs, groups: form, deletion, import |
| `ExtensionEdit_proofs` | theorems about `ExtensionEdit` |
| `PhoneImport` | the files of phones, speed dials and DIDs |
| `TrunkTables`, `TrunkRoutes` | providers, trunks, outbound routes, emergency trunks: the rows and their rules; the forms |
| `BackupState`, `AdminBackup` | a backup of a portal in use: state and properties; the operations |
| `AmiState`, `AmiSession` | a connection of the agent to Asterisk: state and property; the session |
| `RecordingState`, `RecordingPlayback` | recordings: state and properties; scan, report, playback |
| `Generated_proofs` | theorems about `AdminBackup`, `TrunkRoutes` and `CallRouting` |
| `Reports_proofs` | theorems about `RecordingPlayback` and `AmiSession` |
| `AgentThreads` | the executor's threads under the agents' connections |
| `MCLiveness` | what must end: instances of `AgentLink`, `AmiSession`, `AgentThreads`, `CallRouting` |
| `MCGenerated` | what is made of the rows: instances of `ConfigExport`, `AdminBackup`, `CallRouting`, `TrunkRoutes` |
| `MCReports` | what an agent reports: instances of `LocationRow`, `RecordingPlayback`, `AmiSession` |
| `MCEdits` | forms and files: instances of `ExtensionEdit`, `PhoneImport` |

A `...State` or `...Tables` module declares the variables of a component and states its
invariants, so that a run of several components and the proofs use the same definitions.

The components do not share variables. They meet in the location's row: `LocationRow` has
`Deployment`, `ConfigExport` and the agent's reports as actions that write their columns
of it, each as one step, and asks what the dashboard makes of all three together.
`Deployment` takes a version `ConfigExport` has committed and never changes its archive;
`AgentThreads` takes away the thread per connection that `AgentLink` grants;
`RecordingPlayback` and `AmiSession` are what an agent does with a command that
`AgentLink` has carried to it.

### AgentLink

State: `registry` is `_sessions_by_location_id`; `closed`, `pending`, `outbound`
are a session's fields; `future` the request's Future. `pc` is a request thread in
`_dispatch_pending_result`, `phase` a coroutine in `__call__`/`_message_loop`,
`outTask` its `to_thread` task. Actions are cut where the code can be interrupted:

* request threads: between the registry lock, the session lock, the put, the wait
  and the removal after a time-out;
* the event loop thread: between awaits only. A coroutine in the middle of such a
  stretch is `owner`; no other coroutine moves meanwhile, but request threads,
  worker threads, the network and agents do. `close()` is cut into marking (under
  the lock), failing each future, and putting the sentinel; `resolve_result` into
  popping and completing;
* `asyncio.wait` returns with the received message and with the outbound task if
  it has seen that finish (`outDone`);
* a connection breaks at any time and loses a suffix of what is in flight in each
  direction; a send on it is dropped or raises; an agent's process may end.

A session is identified with its connection and a future with its request: both
have fresh uuid4 ids. An agent that reconnects is another member of `Conns`. Frames
carry no data but the request's id; an ack and an error are one `Reply`.

The abstract `LiveCommand` says: a request is asked once, ends once, is answered
only if it was executed, and is executed at most once, perhaps after its caller
was told that it failed, or refused before any of this (an unknown operation or bad
parameters end in `Refuse` and never reach dispatch). The refinement mapping is `callState`.

### Deployment

State: `pc` and `err` are deploy_config_version's position and exception; `record`,
`reload`, `latest`, `audit`, `version`, `deployedAt`, `location` are database
fields; `staged`, `active`, `previous`, `marker`, `hostScript`, `running` are the PBX
host; `at` and `vol` are the remote script's position. A directory is named by the
attempt that staged it, and `inner` is what a later `mv` put inside it: `mv` of a
directory onto an existing one nests, and fails if the name is taken.

The script runs on its own once started: the portal's step returns when it ends
(`SwapReturns`), or fails earlier when ssh does (`SwapLost`). Every remote command may
fail, before or after taking effect. `Kill` ends the portal's side anywhere. Commands
that only create parent directories or remove `.previous` of the marker are left out.

`setting` says where PBX_ACTIVE_CONFIG_MARKER has the marker, and with it where the script
takes it from (`MarkerSource`, `MarkerCommands`) and what the agent reads (`MarkerRead`):
`copied`, under /etc/asterisk while the location's Asterisk volume is elsewhere: copied from
the volume in place; `inPlace`, where that volume is /etc/asterisk: part of it; `apart`, an
absolute path outside of /etc/asterisk, as debian-deploy-commands.sh has it: copied from the
attempt's own staging directory; `relative`, or no marker: not installed. All are checked.
The setting and the location's paths stay as they are within a behaviour, all versions were
exported with the one setting, and a marker that is apart is not inside a volume. A bundle
path under `tftp/` is not made by the exporter (config_archive.py:26-41) and left out.

A successful attempt locks its version's and its location's row in one query
(`RowsFree`), takes the time and commits; the failure handler's save of the location
waits for such a lock. These are row locks of PostgreSQL, which the portal is deployed
with; SQLite (settings.py's fallback for development) has none. The location's edit
form also writes `deployment_status`; that writer is not in this module.

### ConfigExport

State: `config` are the committed rows, of which the model keeps the three facts the
hard export block is about; `pc` is an export's position, `loaded` what its view read of
the location, `checked`, `draft` and `number` what it has read since; `versions` are the
rows of ConfigVersion. Every query sees what is committed at its moment (READ
COMMITTED), so an edit may come between any two. A step is one query:

* `Load`, `CheckExtensions`, `CheckRoutes`: the view and the validation, before any
  lock;
* `Lock`: the transaction takes the location's row and the next number;
* `BuildExtensions`, `BuildRoutes`: the archive, rendered from queries of its own;
* `Insert`: the unique constraint and the commit; `Audit` in a transaction that follows.

`EditLocation` waits for the row, as an UPDATE of a locked row does; `Edit` of an
existing extension or route does not. A new extension or route has a foreign key to
the location and would wait too; the model keeps the weaker rule, in which every change of
those columns may be an update (`is_active`, `emergency_calling_enabled`,
`is_emergency_route`). `Abort` is any exception that is not a validation error (it leaves
the view without an audit entry) or the end of the process.

### LocationRow

State: `row` are the columns of one location; a request `req` holds the copy its form
read, `rep` a report of the agent with the marker it read. `LocationForm.save` writes
every column, everybody else writes its own (`update_fields`). `exported`, `deployed`,
`records` are what the dashboard compares with the row. `mine`, `undone`, `entered`,
`reads`, `heard`, `cut` are history. The columns that are only settings are one,
`is_active`; the telemetry columns are written just as the report's are and left out.
Reading the marker and the handshake are one step. One deployment is under way at a
time (`Deployment` has more). A location is not made again after its deletion.

### ApiAccess

State: `state` and `grant` of users and service identities, `keys` with the number of
their current secret, the two logs, and `req`, where each request is and what it holds.
A request authenticates, has its permission checked, reads a row, and writes it, each a
step; what the view puts into `transaction.atomic()` with `select_for_update` is one
step. A request may be killed. `retired`, `wasAdmin`, `older` are history. Superusers,
session lifetime, the client CIDR check and the wording of the entries are left out.
An update sets at most one of two fields, and a new row is active.

### CallRouting

A behaviour is one call in one configuration. `DialPlan` translates the rows into
`extensions.conf` as the export writes it (contexts, extens and their lines as a set of
entries); `plan` is the result; the actions are what Asterisk does with a line. A dial
pattern is the set of numbers it matches, and which of two patterns that match a number
is better is left open. Digits dialled during a prompt count as dialled in WaitExten.
The configurations are those that the `clean` methods accept (`Valid`) and the export
does not refuse (`Exportable`). Slugs are taken to be distinct.

### ExtensionEdit

State: `ext`, `did`, `member`, `group` are rows; `req` is what a request has checked
and is about to write; `audit` the entries of the last step. Checking and the
transaction are a step each. Ring groups stand for queues and paging groups, which are
handled by the same functions. `turnedOff` is history.

### PhoneImport

State: `phone` with its lines and speed dials by their primary keys, `ext`, `did`, `req`,
the import that each request handles, and `page`, the page of a phone that somebody has open
(one at a time). `Check` is the parser with the rows it looks up; a preview ends
there. `Save` is the transaction: the rows one by one (a fold over the file), each
checked by the rules of its model, all or nothing. `fits` of a line says whether its texts
and numbers have the lengths and ranges of their columns: the parser does not ask,
`full_clean` does. A cell is a sequence of entries; a label with a separator in it is one of
two kinds, and `LineEntries`/`DialEntries` say what such a label reads as when it was
exported.

`OpenPage`, `CheckPage` and `SavePage` are `phone_create` and `phone_update`: a page shows the
rows there are, its posted form and formsets are checked against the rows of that moment, and
the transaction then writes the phone and the rows that were changed, by their keys; what the
page does not show stays as it is. A phone that has been deleted meanwhile is inserted again.
`DeleteExtension` first takes the extension from its DIDs; a line protects it. Each check and
each transaction is one step: what a transaction reads of rows that another changes before it
commits is left out, and so are models, names, providers, trunks and the normal form of MAC
addresses. No page changes a MAC address, locations are not deleted, and extensions move only
in `ExtensionEdit`.

### TrunkRoutes

State: the rows of providers, trunks and routes, `links` of routes with trunks,
`chosen`, the emergency trunk of each location, and `page`, the open pages of routes with
the links they were rendered with. A posted page says what becomes of the links it
shows and which are added; links that were added since stay. The other forms are one step:
they carry nothing but values. Priorities, names and credentials are left out. A link
that is removed and made again is the same link.

### AdminBackup

State: `rows` and `log` are committed, `files` the media directory; `reading` is the part a
backup reads next and `archive` what it has read. The database part is a snapshot
(`pg_dump`) or, without it, one table after the other; media, exports, configuration and
audit follow with queries of their own. The code has no restore. File modes, the
search for a free file name and the download view are left out. So is a location whose
configuration cannot be built: the backup leaves it out, with an error in the manifest
(backups.py:302-306), and `DifferencesExplained` is about the locations that are built.

### AmiSession

State: `pc`, `got`, `answers` are the client's, `wire` is what Asterisk has said and the
client has not read, `broken` the connection. Asterisk answers actions in order, may
refuse, cut or leave out an answer, and may say something without an ActionID at most
`MaxExtra` times. A message that is late shows as a time-out. The greeting has no
time-out and is assumed to arrive. A failure reported promises nothing: closing may
raise after the command was carried out.

### RecordingPlayback

State: the day `now`, the files `present`, the `retention` of the location and `kept`,
the one the PBX host was deployed with; `scan`, the agent's scan under way, `listed`, what
the portal has been told, and `play`. Three parties judge the age of a recording: the
scan, the view, and the agent that reads the file. A file's name is not used again.

### AgentThreads

State: `live` and `ended` sessions, `line` and `running`, the waits for an outbound
message without and with a thread, `box`, the queues, `taken`, loops with a message to
send. `EnoughThreads` (no more live sessions than threads) is an assumption the code
never states; `CommandsMove` shows that it suffices, which needs that the thread of an
ended session always comes back.

## 3. Runs

| Run | Instance | Shows |
|---|---|---|
| `link` | 2 connections (of 3 in one location, control or one-report, or one in each of 2 locations), 1 or 2 requests | `CompletedOnce`, `NoLostWaiter`, `RegistryMatchesLoops`, `SentinelIsLast`, `AnswerIsOwn`, `ExecutedOnce`; the inductive invariant `LinkInv` (`TypeOK`, `LoopInv`, `FutureInv`, `RegistryInv`, `MessageInv`, `ResultInv`, `SentinelInv`) |
| `must_end` | link: 2 control connections, 1 request; ami: sessions of one action; threads: 2 threads, 3 sessions; call: calls from the network | `LinkReleases` (`CloseReleasesWaiters`, `ClosedLoopEnds`, `QueueDrains`), `ImplementsLiveCommand` (its liveness included); `SessionEnds`; `CommandsMove`; `CallsEnd` |
| `deploy` | 3 attempts in turn, the last a rollback (2 with a marker in place or a relative one), or 2 at once with a marker that is copied | `SuccessIsLive` and `FailureIsShown` (each says most of attempts in turn); `DeployedWasReloaded`, `MarkerTellsAsterisk`, `AuditAgrees`, `DashboardAgrees`; the inductive invariant `DeploymentInv` (`TypeOK`, `AttemptInv`, `StampInv`, `MarkerInv`, `TurnInv`) |
| `generated` | export: 2 exports, 3 edits; backup: 2 uploads, 1 backup; call: one row of each kind; trunks: 2 locations, 2 trunks, a page at a time | `NumbersInOrder`, `CallerIdInForce`, `UneditedIsValid`, `AuditMatchesVersions`; the inductive invariant `ExportInv` (`TypeOK`, `NumberingInv`, `ContentInv`); `ArchiveConsistent` (`BackupTypeOK`, `MediaComplete`, `DifferencesExplained`, `DanglingIsRecent`, and for the proof `RowsInv`, `BackupInv`); `CallsGoAsConfigured` (`CallTypeOK`, `DestinationsWork`, `DirectDidRings`, `AnsweredByTarget`, `PolicyKept`), `EmergencyCalls` (`EmergencyBlocked`, `EmergencyPlaced`, `NoForeignCallerId`); `TrunkRules` (`TrunkTypeOK`, `NothingDangles`, `OnlyTrunkEditsBreakRules`, and for the proof `PageShowsAll`) |
| `access` | keys: 3 requests, 2 keys; users: 2 requests, 3 users, 1 identity | `KeysAgree` (`TypeOK`, `KeyHistoryAgrees`, and for the proofs `AccessInv`), `SecretsStayDead` (`KeepsRevoked`, `RefusesDead`); `Authority`, `DeactivationHolds` |
| `reports` | row: 2 requests, a report, a deployment; recordings: 3 files, a limit of 2, 4 days; ami: sessions of 1 and of 5 actions | `DriftShown`, `RowStands` (`TypeOK`, `ColumnsStand`, `SecretsFromAdministrators`, `CodesComplete`, `DeployedLocationStays`, and for the proofs `HistoryInv`, `SeedingInv`, `ReportInv`); `RecordingsKept` (`RecordingTypeOK`, `ServedIsDue`, `ScanLosesNothing`, and for the proof `PlayInv`, `ScanInv`); `OutcomeIsWhole` (`AmiTypeOK`, `ResultIsWhole`) |
| `edits` | extensions: 1 request at a time, 2 locations; overlapping: 2 requests; files: 1 import, 2 phones, 2 DIDs; races: 2 imports, 2 pages or deletions; exports: labels with separators | `RowsWhole` (the types with their unique constraints; extensions: `RelationsLocal`; races: `ShownExists`); `DisabledByAdmin` (overlapping requests as well); `ImportedAsWritten` (extensions); `RequestsExact` (extensions: `DisableIsLogged`, `KeepsDids`; files: `WritesFile`, `WritesNothing`, `FailsAsKnown`; races: `OnlyUnseenMisplaced`; exports: `KeepsPhone`) |
| `deploy_script` | 1 attempt | violation: the retention script is never installed |
| `deploy_buried` | 2 attempts at once | violation: a successful rollback is buried inside another volume |
| `export_stale` | 1 export, 3 edits | violation: a version breaks the hard export block |
| `routing_ivrs` | 2 IVRs | violation: a call to the second IVR is lost |
| `extension_unlogged` | 2 requests, 1 location | violation: emergency calling is turned off without an entry |

In parentheses are the parts of a property that joins several, each stated with its own
comment in the module it is about. The joint ones are at the end of that module or, where
they join parts of several components, of the MC module.

A run that is about several modules which share no state has a variable `part`: each behaviour
begins in one of the parts and stays in it, and its `Next` moves only the variables of that
part. Nothing is lost by this, since no action of one reads a variable of another; the parts'
fairness is guarded by `part`. Some parts restrict their behaviours further, to the union of
several scenarios, each of which allows everything for a few of the actors: `InScenario` (which
connections and requests are used, `link`), `inTurn` (attempts in turn or at once, `deploy`),
`KeyScenario` and `UserScenario` (what the requests ask for, `access`), `RowScenario` (two
requests and one report and deployment, or one request and three of each) and
`RecordingScenario` (three files in two days, or one file in four, `reports`), `CallScenario`
(calls from the network in configurations that differ in destinations, calls of phones in those
that differ in routes, `generated`), `PlainDials`, `ActivePhones`, `OneKind` and `Written` (what
the page of a phone sets while a file is imported, files about phones or about DIDs, and in a
race no imports that end with their check, `edits`). These are conjuncts of the run's `Next`, so
that deadlock and action properties are still checked as they stand.

Bounds. Inside the first three modules only the edits are capped (`MaxEdits`): three
can change each of the three columns between any two steps of an export, or one
column back and forth. A connection is used once, a request and an attempt are made once,
so queues, channels and `clock` are bounded by the constants. Two connections give
one replacement, the late result on the replaced session and the late unregister; two
requests give a second waiter in a closing session and a message behind the
sentinel. Three attempts give success, a half-done swap, and success again; two
overlapping attempts give every interleaving of two scripts (with a marker that is copied; what
holds of the other settings when attempts overlap is proved, and one that is apart breaks
`ReportedIsActive`, see the findings); two exports give every
order of computing a number and inserting the row.

In the other modules two requests at a time give every order of one's check and another's write,
which is what goes wrong in code that reads, checks and saves; three requests about keys give a
use, a rotation and a deletion of one key. Two locations are enough for a reference that leaves
its location, two rows of a kind for a clash of unique values, files of two lines for a line
that fails after one that was written. `MaxEdits` in `PhoneImport` counts the pages and
deletions: one between the check and the transaction of an import, or around it (two: a line
goes, then the extension it showed); `MaxAdded` is the rows a page adds, three where labels are
exported together. `CallRouting` has one row of each kind and, for the violation, a second IVR;
a second group or queue adds nothing, for `[ivrs]` is the one context that is written per row.
`AmiSession` has one or two stray messages (`MaxExtra`): each read takes or skips one.
`RecordingPlayback` needs a day before, at and after each of two retentions (`MaxTime`).
`MaxVersions`, `MaxReads` and `MaxDeployments` in `LocationRow` give two versions to tell apart
and a third report after two.

Requests, connections, default codes, locations and trunks are interchangeable where
a run declares a `Symmetry`; the run with liveness properties has none. Deadlock is not
checked where a behaviour is meant to end: requests, imports, uploads, backups and
reports are used up, a call ends, the only phone may be deleted.

Each property of a passing run has a fault: an operator that a plausible bug would
have written otherwise (the blocks "Faulty forms"), with which TLC finds the property
violated. Of a property that joins several, `PROJECT.json` lists one fault; some blocks
have faults of the other parts as well.

Fairness. `PortalFairness` is weak fairness of request threads, of the steps of
`close()`, of each coroutine and each worker thread: the operating system and asyncio
run what is ready, and nothing in the code starves a ready task. It assumes an
executor thread per connection (see the hazards) and a database call that returns.
Connections, agents and SSH get none. `TimeoutFairness` is added only where a caller
has to be released from a silent agent: `Future.result(timeout)` does expire.
`CallRouting` has weak fairness of `Next`, since every application in a generated plan has a
time-out or returns; `CallsEnd` is about configurations whose destinations do not lead
back to one another (the forms do not prevent a circle). `AmiSession` has weak fairness of
the client, each of whose reads has a time-out but that of the greeting. `AgentThreads`
has weak fairness of a free thread that takes the next call, of a wait whose queue is not
empty, and of a loop with a message to send.

### Findings

* `SSHDeploymentRunner.upload_bundle` packs `asterisk`, `tftp` and `active-config`
  but not `scripts`, so `pbx-recording-retention` never reaches the host, although
  `tests.py:4011` asserts that it is uploaded (with a runner of its own).
* Overlapping deployments: a rollback can be recorded as successful while its
  volume lies inside the other attempt's directory.
* `create_config_version` validates before its transaction and builds the archive from
  later queries: an edit in between gets a configuration into a version that the hard
  export block of the technical specification (lines 390-392) refuses.
* Dial plan: the exten of every active IVR but the first is written into the context
  of the one before it, and a call that is sent to it is lost, although the technical
  specification (line 223) offers any IVR as a destination.
* Extensions: a stale form turns emergency calling off again without an entry, although the
  specification (line 215) asks for an administrator and an audit entry.

These five have a run. The following are stated as properties in the modules, each
under a heading that says so, and TLC finds them violated when the property is put
into the .cfg of the run named, with the change given:

| Property | Said by | What the code does | To see it |
|---|---|---|---|
| `ReportedIsActive` | spec :318, "Report current active config version from the deployed PBX config/version marker." | with a marker outside of /etc/asterisk, where debian-deploy-commands.sh:198 puts it, overlapping scripts copy their markers in another order than they swap the volumes (deployments.py:612) | `deploy_buried` |
| `DriftShown`, late report | spec :460, "highlights drift between latest exported, last deployed, and PBX-reported active versions" | the last report to arrive wins, not the last made (agent_ws.py:70) | `reports`, two members in `Reports` |
| `DriftShown`, stale form | the same | a location form writes back the report it read (forms.py:393) | `reports`, without the conjunct about `undone` |
| `UserUpdatesLogged` | spec :424, "API-driven user updates must be audit logged" | what changed is computed from an older row (views.py:2601) | `access` |
| `OnlyAdminsChangeAccess` | tests.py:5550, a non-admin cannot set is_active | a member's update of its own row saves every column and inserts a deleted row (views.py:2595) | `access` |
| `RelationsLocal`, overlapping | models.py:1447, "Ring group members must belong to the ring group location." | a group moves between the check and the transaction (extension_management.py:97) | `extension_unlogged`, with two locations, `Groups = {g1}` and `GroupHome <- GroupsAtHome` |
| `LinesLocal` | models.py:1004, "Phone line extensions must belong to the phone location." | an extension moves while a phone shows it (forms.py:649) | `extension_unlogged`, with two locations and `Lines <- OnePhone` |
| `ImportedAsWritten` of `ExtensionEdit` | extension_csv.py:263, "is already assigned to another extension" | two lines of a file name the same free DID (extension_csv.py:262) | `extension_unlogged`, with `Dids = {d1}`, `DidHome <- OneHome`, `Files <- TwiceNamed` |
| `EmergencyOnCapable` | models.py:1815, "Emergency routes can only use emergency-capable trunks." | a trunk is edited (views.py:326), or a page does not show a link (forms.py:531) | `generated`, as `Forms!EmergencyOnCapable` (two members in `Pages` for the second) |
| `TypesMatch` | models.py:1707, "Trunk type must match the selected provider type." | a provider changes its type (views.py:265) | `generated`, as `Forms!TypesMatch` |
| `LinesOfLocation` | the same | a page moves its phone and keeps the lines that an import added after it was opened (views.py:1604) | `edits`, as `Raced!LinesOfLocation` in part "races" |
| `ValidatedIsImported` | csv_import_content.html:44, "Validate only" | the preview does not see an extension on two lines, a DID that leads nowhere, nor a text that is too long (phone_csv.py:288) | `edits`, as `Filed!ValidatedIsImported` in part "files" |
| `PrefixesWork` | default_feature_codes.py:34, "Prefix for directed pickup by extension." | the exten is the code alone (config_export.py:2167) | `routing_ivrs`, with `Configs <- PrefixConfigs`, `Calls <- PrefixCalls`, `Prefixed <- PrefixedNumbers` |
| `DigitsOffered` | spec :237, "Digit routes.", "Timeout route." and "Business-hours and after-hours behavior." | an IVR with hours destinations plays no menu (ivr_dialplan.py:72) | `routing_ivrs`, with `Configs <- HoursConfigs` |

Not counted as findings, because nothing in the repository says otherwise: a command
whose caller timed out is still carried out; a killed attempt leaves its record
pending without an audit entry; an audit that raises turns a successful record into a
failed one whose version stays deployed; the portal relies on a thread per agent, of which
the default executor has min(32, cpus + 4); a backup may lack what was uploaded while it was
made; an exported label with a separator in it does not read back; an import fills a blank
`is_active` from a read before its transaction; a refusal as expired follows the last
scan, not a retention that was raised since.

## 4. Proofs

The theorems of a component are in a module `<component>_proofs`, or with those of others in
`Generated_proofs` and `Reports_proofs`. They hold for every value of the constants that the
component's assumption admits; other hypotheses are named below. The argument is always the
same: an invariant of the component (`LinkInv`, `DeploymentInv`, `ExportInv`, the parts of the
joint properties that section 3 names "for the proof", and `SessionInv`, `EditInv`, `SerialInv`,
`CallInv`, `GoesInv` beside their proofs) holds initially, every action keeps it, and the
property follows from it, or, for an action property, from it and the step. The invariants that
section 3 names are checked by a run as well. The lemmas about steps have a case per action, and
below it a step per conjunct that the action disturbs.

What a recursive function over a sequence computes (the rows of an import, the active
trunks of a route) is proved by induction over the naturals. The library's induction
theorems take an operator as a parameter, which the provers cannot instantiate; the lemmas
`LeastNat` (a set of naturals has a least element, from the well-foundedness of finite sets
ordered by inclusion) and `UpTo` (a set that contains 0 and with n also n + 1) take a set
instead and do the same.

### AgentLink: the link and the abstract specification

For any finite or infinite sets of locations, connections and requests.

| Theorem | Rests on |
|---|---|
| `TypeLoopCorrect` | `TypeOK /\ LoopInv` is inductive by itself: one coroutine is between two awaits, and it closes one session |
| `CompletedOnceCorrect`, `NoLostWaiterCorrect` | `FutureInv`: a future is in at most one table, in that of its own session, and not in the loop's hands as well |
| `RegistryMatchesLoopsCorrect` | `RegistryInv`: what holds while a coroutine is half-way through register() or its finally clauses; the property speaks of moments between callbacks |
| `AnswerIsOwnCorrect`, `ExecutedOnceCorrect` | `MessageInv`: a request that was dispatched has one place in queue, task, wire and agent, and all of them of its own session; `ResultInv`: a result on its way, or in a future, was executed |
| `SentinelIsLastCorrect` | `SentinelInv`: behind the sentinel there is only what callers put there that found the session open before it was marked, and whose futures have the exception |
| `ImplementsLiveCommandSafety` | all of these: with `callState` as refinement mapping each step is one of `LiveCommand` or a stutter |
| `LinkInvCorrect` | the six parts, as `LinkInv` |

`LiveCommand` promises that a request is executed once and answered only then, so the
refinement is not a renaming: its steps `Answer` and `Execute` need `ResultInv` and
`MessageInv`. The liveness of `LiveCommand` is left to TLC.

### Deployment

For any sets of attempts and versions.

| Theorem | Rests on |
|---|---|
| `AuditAgreesCorrect`, `FailureIsShownCorrect` | `AttemptInv`: which exception can be pending at which step, that a record turns "success" only after its script ended well (`RecordInv`, `ScriptInv`), and that in turn the attempt under way is the latest (`SerialInv`) |
| `DeployedWasReloadedCorrect` | `AttemptInv`; only a commit changes a version's status (`OnlyCommit`), and a witness stays one (`ReloadedStays`) |
| `DashboardAgreesCorrect` | `StampInv`: times grow with commits, because one attempt at a time holds the rows |
| `MarkerTellsAsteriskCorrect` | `MarkerInv`: a marker under /etc/asterisk names what Asterisk would load, or some script has not come to its end; one that is apart does so in turn, by `TurnInv` |
| `SuccessIsLiveCorrect` | `TurnInv`: in turn, where the latest attempt's script stands tells what it has made of both volumes, and what its record says tells what the location and the running configuration are (`HostInv`, `LiveInv`) |
| `DeploymentInvCorrect` | the five parts, as `DeploymentInv` |

`inTurn` says whether attempts follow each other; it is a variable that never changes, so
that one behaviour has either kind. `SuccessIsLive` holds only of attempts in turn: that
overlapping ones break it is the finding of `deploy_buried`.

### ConfigExport

For any set of exports and any number of edits. `NumbersInOrderCorrect` and
`AuditMatchesVersionsCorrect` rest on `NumberingInv`: the holder of the row is one, has the
next number, and an export has its version from the commit on and once. That the inserted
number is the next one was settled when the row was locked, so the property is not
inductive. `UneditedIsValidCorrect` rests on `ReadInv`, what an export that saw no edit
has read is what is in force, and `CallerIdInForceCorrect` on `CallerIdInv`, what was
read under the lock is in force until the row is released. `ExportInvCorrect` states all.

### ApiAccess

For any finite or infinite sets of requests, users, identities and keys; secrets are
numbered, so that there is always a new one.

* `KeysAgreeCorrect`, `SecretsStayDeadCorrect`: of a key, the log's last "create" or
  "rotate" has the secret of the row and a "revoke" is there if and only if it is revoked
  (`KeyLogInv`); two keys never have the same secret and a live key's is not retired
  (`SecretInv`); and the copy a request writes back is of the row it writes (`HeldInv`).
* `AuthorityCorrect`: a request whose caller was at no moment an administrator got past
  no check but those anybody passes, and what it will write is its own caller's row without
  the fields of administrators (`AuthorityInv`). Check, reading and writing are
  separate steps, so nothing less survives them.
* `DeactivationHoldsCorrect`: who holds an active copy of a principal that is not active
  any more was under way when it was deactivated (`OlderInv`).

### TrunkRoutes

`NothingDanglesCorrect` holds for any number of open pages: it is inductive with the types.
`TrunkRulesCorrect` has the hypothesis `OnePage`, one route page at a time, because the
property is about that: a page shows all links of its route (`PageShowsAll`), so that a
posted route that moves or becomes an emergency route is checked against all its trunks.
With two pages it is false, as the finding `EmergencyOnCapable` tells.

### LocationRow

For any sets of requests, administrators, reports and codes and any bounds.
`RowStandsCorrect` needs in addition what a form's copy may hold and that reports and
deployments have a record (`HistoryInv`), and that a missing code is one some request has
yet to ensure (`SeedingInv`). `DriftShownCorrect` has the hypothesis `OneReport`, one report
under way at a time: then the report under way is the last that was begun and the row has
what was heard last (`ReportInv`). With two the last to arrive wins, see the findings.

### RecordingPlayback

`RecordingsKeptCorrect`, for any finite set of recordings, any retentions but 0 and any
limit of a report. `PlayInv`: what an agent has judged due is a written recording, its day
stays, and a request under way has the location's retention and a permitted user.
`ScanInv`: of the files a scan has found each is to be asked for, has answered, or is gone
and left an error. That a report has at most `Limit` entries, and exactly that many when
one is left out (lemma `Reported`), is a fact about cardinalities: entries and chosen
names are in bijection.

### AdminBackup

`ArchiveConsistentCorrect`, for any IVRs, uploads, versions and backups. `RowsInv`: the
rows agree with the files saved before them and with the log written beside them; of an
IVR without a prompt the log says why. `BackupInv`: what was dumped was true and is
explained by the log of now, and each later part by the log until the log is read itself,
which is last. Entries name the kind of object they are about (`ConstantsAssumption`).

### AmiSession

`AmiOutcomeIsWhole`, for any finite lists, any number of stray messages and the scripts of
all jobs. `SessionInv`: what is on the wire and what was gathered belong to the action under
way, in order: an item is one that Asterisk lists, and what completes the answer comes
after all of them (`Orderly`); so each answer that is complete is the list of its
action (`Agree`), and a job that did not fail has all of them (`AllAnswered`).

### ExtensionEdit

For any rows, numbers, DIDs, groups and files.

* With any number of requests at once: `OffByAdministrators` (`DisabledByAdmin`) and
  `EditTypes`, from `EditInv`: tables are whole, and what an editor is about to save with
  emergency calling off was off by an administrator when it was read and is not on again.
* `ImportsAreAsWritten` (`ImportedAsWritten`), with any number of requests, under the
  hypothesis `DidsOnce`, no two lines of a file name one DID; without it the statement is
  false, as the findings tell. `ApartInv`: what is about to be saved has this property; then
  a row that was saved keeps its DIDs while the rows behind it are saved.
* `RelationsStayLocal`, `DisablesAreLogged`, `DidsAreKept`, under `OneRequest`, requests
  follow each other: with two they are false. `SerialInv`: what a request has checked still
  fits the rows when it writes.

### CallRouting

`EmergencyCallsCorrect`, for any configurations and calls. Of the configurations it assumes
that routes, IVRs, the trunks of a route and the members of a group are sequences and that no
extension is called `Nothing` (`ConfigsAssumption`); the rest is in `Valid` and `Exportable`,
which an export checks. The plan is the one `DialPlan` computes, so the lemmas go through
it generator by generator: which contexts an entry may be in and which applications it may
have (`ExtensElsewhere`, `IvrsElsewhere`, `PlanIs`); that a route's lines set the number first
and then dial exactly its active trunks in their order (`TrunksInOrder`, `RouteBegins`,
`DialsRemain`); and that a phone's emergency number is found in the context `emergency`
before any other, where a block for the caller hides the route (`FoundFirst`,
`BlockedFinds`, `OthersFind`). `CallInv` then follows the call: a number once set is
followed by quiet lines only (`NumberInv`), a blocked caller is on lines that dial nobody
(`BlockedInv`), and a placed call has dialled the first m trunks of its route and has the
others before it (`PlacedInv`).

`AnswersAreAsConfigured` and `CallsGoAsConfiguredCorrect`, of calls that need no trunk. The
lemmas give each entry of the plan a kind by what it dials and records (`EntryKinds`):
extensions, groups and queues dial their own and, with a policy, record first; a DID leads
to its destination; a route dials trunks and leads nowhere else; all others dial no
extension of the location. `GoesInv` follows the call with these: what its lines dial was to
be called on its way (`TargetInv`); it is recorded as the policies so far ask for, or the
hook comes next, or it is on a route (`PolicyInv`); a DID that is assigned leads to lines
that ring its extension only (`DirectInv`). They need `PlainNames`: that no number is `s` or
`i`, which the validators of numbers see to, and that no group or queue has the slug `i`,
which nothing refuses: Asterisk would take such a group for the exten of invalid numbers, and
a call to an inactive group would ring it. That no call is lost on its way to an active
row (`PlacesFound`) needs `OneIvr` as well; with two active IVRs it is false
(`routing_ivrs`), which is why it is a theorem of its own. The run `generated` assumes
both of its configurations.

### Only model-checked

* All liveness (`must_end`): fairness and ENABLED are out of the proof system's reach. The
  refinement of `LiveCommand` is proved but for its liveness.
* `RowsWhole` and `RequestsExact` where they are about `PhoneImport`: the types, `ShownExists`,
  `OnlyUnseenMisplaced`, `WritesFile`, `WritesNothing`, `FailsAsKnown`, `KeepsPhone`. The import
  is a fold over the lines with an error value, and the cells of a line are folds themselves.
  The parts of both properties that are about `ExtensionEdit` are proved.

## 5. State of the plan

Everything that was planned is modelled, and each passing run's safety properties are
proved but for those above.

## 6. Not modelled

* The parameters of live commands (validated by one pure function per command), the
  call detail and event files of the telemetry (read whole at each report), and the files
  of an archive other than `extensions.conf` (phone files, RTP, `manager.conf`): text without
  state, which the unit tests compare with what is expected.
* The conversion of audio prompts by ffmpeg, whose result `AdminBackup` takes as two files.
* The forms of rows that refer to nothing but their location (feature codes, prompts,
  destinations), lists and the phone book: Django's handling of one row, or queries.
* The several WSGI workers of the deployment script: one process is modelled, and a live
  operation is refused in the others.
* The admin site, templates, settings and migrations: presentation and declarations.
