# Elium Drive: a TLA+ development

Elium is an office suite with a zero-knowledge team Drive. The browser client
(`web-studio/`) encrypts everything; the server (`server/`, Fastify and
PostgreSQL) stores ciphertext, wrapped keys, and the bookkeeping that says which
key is current. The server cannot see whether that bookkeeping is true. What
makes the Drive correct is therefore spread over client procedures and server
handlers that run concurrently, and that is what is modelled here.

Paths below are relative to the repository.

## 1. Inventory

| Component | State it keeps | Operations | What is hard, what makes it correct |
|---|---|---|---|
| **File key rotation** (`web-studio/src/drive-cloud/rotate.ts`, `server/src/routes/nodes.ts`, `versions.ts`, `lib/content-preconditions.ts`) | `nodes.key_epoch`, previous-key slot, `key_rotation_required`, current version; `node_versions` rows and their epoch stamps; blobs | `rotateNode`, `repairInterruptedRotation`, `/rotate`, replace a version's bytes, upload, restore | Many requests from one client, each of which may fail or land late; concurrent managers, uploads and restores. Every version stays readable, no upload is lost or stored under a revoked key |
| **Co-editing log** (`drive-cloud/collab.ts`, `server/src/collab/relay.ts`, `rotate.ts`) | rows of `collab_updates`, sockets of a room, the channel's outbox, unacknowledged updates, key | edit, encrypt, send, acknowledge, reconnect, renew the key, close; admit, persist, kick, compact | A socket may break at any await. No edit is lost, the log is written and readable under keys the members hold, every edit gets there |
| **Co-editing catch-up** (`collab.ts`, `relay.ts`) | the cursor `lastSeq`, pages in flight, live updates | page through the log, receive live updates, replay on admission | The cursor is shared. A reader misses no committed update |
| **Shares, teams, organisation key** (`routes/shares.ts`, `groups.ts`, `orgs.ts`, `lib/group-rotation.ts`, `lib/key-share-policy.ts`, `drive-cloud/ops.ts`, `recovery.ts`) | `node_keys`: a content key wrapped to a user, a team or the organisation; team and organisation key generations; `rotation_required` | share, revoke, add and remove members, rotate team, node and organisation keys, grant recovery | Wrapping happens in a client, from a listing it made earlier. Nobody keeps a key he lost the right to, nobody loses the key he needs |
| **Sessions** (`routes/auth.ts`, `users.ts`, `site.ts`, `middleware/auth.ts`, `lib/tokens.ts`; `drive-cloud/api.ts`, `session.tsx`) | rows of `sessions` with their current and replaced refresh hashes, `users.token_epoch`; the pair of tokens in `localStorage`, the pair each tab holds, one refresh per tab | login, refresh, reuse detection, logout, password change, reset, revoke the others, suspend; Web Lock, storage event, retry after a refusal | A refresh is several statements and its answer may be lost; tabs share one token that may be used once. A theft is detected, an innocent refresh is not taken for one, a session that ended lets nobody in |
| **Second factor** (`routes/auth.ts`, `lib/second-factor.ts`, `totp.ts`, `webauthn.ts`, `owner-access.ts`) | the secret in force, the pending one, the last step, the count of failures; backup codes; passkeys | set up, confirm, verify, disable, regenerate, reset | No transaction around the statements of a request. A code counts once, and a request that dies locks nobody out |
| **Authorisation engine** (`rbac/`) | roles, shares along the path to the root | evaluate | A pure function with many rules |
| **Node tree** (`routes/nodes.ts`, `versions.ts`, `lib/subtree-blobs.ts`, `storage/`) | parent links, trash marks, version rows, blobs | create, move, trash, restore, purge, upload, restore a version | The check of a move, and every access to the storage, is outside the transaction. No folder below itself, no row without its blob, no blob without a row |
| **Audit chain** (`lib/audit*.ts`) | hash-linked rows | append, verify | One successor per row |
| **WebSocket tickets, backplane** (`lib/ws-tickets.ts`, `collab/backplane.ts`) | tickets in Redis or memory; published events | issue, consume; publish | Single use across instances; losing Redis |
| **Housekeeping, account deletion** (`lib/housekeeping.ts`, `account-deletion.ts`) | ages of rows | purge of the trash, of old versions, of ended sessions | What a sweep has listed may be used again before it is deleted |
| **Backup of the workspace to the Drive** (`web-studio/src/workspace/drive-sync.ts`, `sync-controller.ts`, `backup.ts`, `backup-io.ts`; `drive-cloud/sync-remote.ts`) | the items and the catalogue of a device, its links (`localStorage`); a folder of the Drive with one file per item and a shared index | push, merge the index, detect, restore, start afresh | Devices write the index over one another with no comparison; a device may lose its items and keep its links. What is taken for sent was sent; nothing is forgotten that nobody erased |
| **Signing links, SSO, SCIM, site settings** (`routes/`) | short-lived tokens, directory rows | request handlers | Mostly single statements |
| **AI gateway** (`ai-gateway/`) | rate windows | proxy | Stateless otherwise |
| **Installer, updater** (`installer/`) | staged files, backup | download, swap, roll back | A crash between two renames |
| **Document formats, editors, Python core** (`src/elium/`, `web-studio/src/components/`) | documents | convert, render, edit | Data transformation |

Interactions. Clients call the server over HTTP; each handler runs alone in its
process but many run at once, and only their transactions and row locks order
them. A client procedure such as a rotation is a dozen requests with no
transaction around them. Revocation handlers mark nodes `key_rotation_required`
(`markRequiredNodeRotations`), which blocks writes until some manager's client
rotates the key, and call `kickRoom`, which evicts co-editors. Co-editors talk
to the relay over one WebSocket per open document, and renew their key over
HTTP when it kicks them.

The hazards of all this, each at its line, are in `PROJECT.json` (`hazards`).

## 2. Plan

| Order | Modules | Composition, abstraction | State |
|---|---|---|---|
| 1 | `KeyRotation`, `MCKeyRotation` | implements `RotationPromise` | written, checked |
| 2 | `KeyRotationProofs` | extends `KeyRotation` | type, every safety property and the refinement proved, for concurrent managers too if commits compare epochs |
| 3 | `CollabLog`, `MCCollabLog`; `CollabCatchUp`; `CollabLogProofs`, `CollabCatchUpProofs` | implements `EditsPromise`; the sending and the receiving half of a channel | written, checked; types, every safety property and the refinement proved, for concurrent managers and INSERTs too if compactions carry what they delete |
| 4 | `KeyShares`; `KeySharesProofs` | gives `KeyRotation` its managers: who may hold a current key | written, checked; type, `RowsOpenUnlessOvertaken` and `FrozenWhileExposed` proved |
| 5 | `Sessions`, `MCSessions`; `SessionsProofs` | the server's rows and the tabs of one browser | written, checked; type and every safety property that holds are proved |
| 6 | `NodeTree`, `MCNodeTree`; `NodeTreeProofs` | the tree, the blobs, the sweeps | written, checked; type, `ForestUnlessCrossed`, `NoBrokenReference` and `NoOrphan` proved |
| 7 | `DriveSync`, `MCDriveSync`; `DriveSyncProofs` | several devices and one folder of the Drive | written, checked; type, `NotForgottenUnlessLost` and `SavedUnlessUnwritten` proved |
| 8 | `SecondFactor`, `MCSecondFactor`; `SecondFactorProofs` | statement by statement, with requests that die | written, checked; type and both safety properties proved |
| 9 | `WsTickets`, login challenges | abstract: a secret is honoured once | next |
| 10 | the updater's swap; authorisation rules as operators, checked against a reference definition | | later |

The order follows the damage: what makes a file unreadable or an edit vanish
first, then who may read, then how people and devices get in.

## 3. The modules and the code

### KeyRotation

A content key is named by the epoch that installed it and a blob is reduced to
the key its bytes are under. The server's knowledge (`rows[v].stamp`,
`node.epoch`) and the truth (`blob[ref]`) are separate variables; the module is
about the gap between them. So are the epoch a client was told and the key it
unwrapped from its own share row: a client in `Outdated` may have a row that was
posted under a key already replaced (shares.ts:274), and rotates, re-encrypts or
uploads with that one. A manager in `LegacyManagers` rotates without
`expectedEpoch`, which is optional (nodes.ts:518, 550).

| State | Code |
|---|---|
| `node` | a row of `nodes`: `key_epoch`, `prev_key_wrapped`, `key_rotation_required`, `current_version_id`, `content_ref` |
| `rows`, `blob` | `node_versions` and the object store |
| `mgr[m]` | the locals of `rotateNode` and `repairInterruptedRotation` between two awaits |
| `puts`, `upload`, `restore` | handlers between their reads and their transaction, and between that and their cleanup |

Each `Manager` step is what the client does between two requests; each request
that has effects is served in separate steps (`Reencrypt` stores the blob,
`PutCommit` is the transaction, `PutFinish` removes the old blob and answers),
with `PutCrash` at either side of the commit. `Impatient` managers may stop
waiting for a request that is still being served. `base` in a row and `skipped`
in the node are history: the version an uploader had opened, and whether a manager
of these two kinds has rotated with another key than the one he replaced. Names, quotas, audit and share rows are left out: no property reads them.

### CollabLog, CollabCatchUp

`CollabLog` has the sending half of `EncryptedCollabChannel` (outbox,
unacknowledged, `nodeKey`, the two awaits of `sendNow` and of the ready
handler), the relay's admission and persistence, `kickRoom`, and the manager
who rotates and compacts. `unfinished` is history: the rotations whose compaction
left rows under older keys, until one leaves none. An INSERT is two steps, because a sequence number is
taken before the row is visible; `MaxInserts` says how many may be open at once.
`CollabCatchUp` has the receiving half: pages, live updates and the cursor they
share; `PageSize` is the constant of the code. The two halves meet in the log
only. The relay's presence, quotas and backplane are left out.

### KeyShares

A row of `node_keys` is the epoch of the key inside and the generation of the
public key it is wrapped to; the server sees neither. Clients prepare requests
from a listing (`Prepare...`, one step per client procedure of `ops.ts`,
`rotate.ts` and `recovery.ts`), the server applies them in one transaction each
(`Post...`). A permission is looked up by a handler before its transaction, so
the model takes it as it was when the request was prepared, which is weaker than
the code and admits all its behaviours. Under `LEGACY_CLIENT_COMPAT`, on by default
(config.ts:121), a client of the previous version (a user in `Legacy`) shares and
rotates without naming the team's key, the organisation's epoch or the node's epoch,
and the server takes the current ones (key-share-policy.ts:37-60, nodes.ts:550); it
cannot make the other requests (`ServeNew`). `overtaken` in a row, `granted`,
`unshared` and `knows` are histories.

### Sessions

A refresh token is worth its rank, so a pair of tokens is `[s, k, iat]`: the
`k`-th pair of session `s`, whose access token was issued at epoch `iat`.

| State | Code |
|---|---|
| `session`, `account` | rows of `sessions` (hash, replaced hashes, `revoked_at`, `expires_at`) and of `users` (`token_epoch`, `status`) |
| `calls` | requests on their way, inside a handler (`pc` is the next statement), or answered |
| `storage`, `mem` | `localStorage` and the tokens a `DriveApi` holds |
| `gone`, `job` | storage events not yet handled; the one `tryRefresh` of a tab: waiting for the Web Lock, or refreshing |

`/refresh` is three statements (`Cas`, then `Reuse` or `CheckUser`), a password
change is three (`Bump`, `RevokeAll`, `Insert`), a reset is one transaction. A
tab holds the lock from `Acquire`, which reads the storage, to `EndRefresh`,
which stores the answer if the pair is still the one it presented. `Cut` breaks
a connection: the request may still be served, nobody hears the answer. A refused
call of the user waits for the refresh of its tab and is sent again, once, with
the headers it had (`hdr`). `past` records what the browser gave up by itself,
which the properties except. The history of replaced hashes has 20 entries in
the code, `History` in the model; a tab has one call of the user at a time, and
its refresh beside it.

### NodeTree

| State | Code |
|---|---|
| `parent`, `trashed` | `nodes.parent_id`, `nodes.trashed_at` |
| `versions`, `current` | `node_versions.content_ref`, `nodes.content_ref` |
| `stored`, `drawn` | the object store; the random keys drawn for it, never twice the same |
| `req` | what each handler or sweep is at, between two statements |

A handler that reads before its transaction is two actions (`CheckMove` and
`Move`, `ReadVersion` and `RestoreVersion`, `SelectOld` and `Retire`). A purge
is `SelectTrash`, then for each node `ListBlobs`, `Cascade`, and one `Erase` per
blob; the sweep of the trash is the same over several nodes. `Below` is what the
recursive query computes, a least fixed point. `past` says which moves crossed,
which nodes left a subtree whose blobs were already listed, and which blobs were
left behind by something named in the property.

### DriveSync

| State | Code |
|---|---|
| `disk` | the items of a device: the content, and `modifiedAt` and `size` in the catalogue |
| `state` | `SyncState`: `reconciled`, folder, the link of each item, the index it writes to and the catalogue it was written for |
| `folders`, `drive` | backup folders and their files, in the order of creation, which is the order of a listing (nodes.ts:301) |
| `run` | the locals of `syncOnce`, or of a restoration, between two awaits |

`Start` to `UploadIndex` are the steps of a run: the folder is verified or
found, each changed item is updated or uploaded, then the index is read, merged
and written. `Fail` is a request that is not answered: stored or not.
`Probe`, `Choose`, `WriteItems` and `LinkItems` are a detection and a restoration
with the user's choices. Of several indexes a detection reads the first one, and
a restoration links the last one, as in the code. A detection downloads the
index with the listing, and a restoration all the contents, in one step each;
an edit writes the content and the catalogue in one step. `past` is history: the
items ever made, erased by the user, lost by a failed restoration, and those whose
content one was to replace and did not write (`unwritten`).

### SecondFactor

| State | Code |
|---|---|
| `user` | the `mfa_*` columns of a row of `users`; the account is locked when the count is at its limit |
| `codes` | the unused rows of `mfa_backup_codes` |
| `call` | the next statement of each request under way |
| `clock` | the time step of TOTP; a code is accepted one step off |

A request is admitted with its first statement: `ReadPending` for a confirmation,
`ReserveAttempt` for anything that verifies a code. What follows is one action
per statement. `Die` ends a request anywhere, and loses its answer. A batch has
ten codes in the code, `BatchSize` in the model, and five attempts lock the
account, `MaxFailures` in the model. A code is only chosen when it is looked at,
which is when its step matters. When the lock ends the columns keep their values
and the next attempt counts as the first; `LockEnds` sets the count to zero.

### Promises

`RotationPromise` and `EditsPromise` say what the two protocols are for with a
few set-valued variables. `KeyRotation!KeepsPromise` and `CollabLog!KeepsEdits`
are the refinements: a version lags exactly when its bytes are not under the
current key; an edit is durable when a committed row carries it, and pending
when its author's channel is responsible for it.

## 4. Runs

| Run | Shows | Bounds |
|---|---|---|
| `rotation_single` | `VersionsRecoverable`, `CompleteMeansReencrypted`, `NodeServesCurrentVersion`, `NoForkedHistory`, `NewContentUnderLiveKey`, `KeepsPromise`, `RunsEnd` | one manager whose requests are answered, two uploaders, two versions, two rotations, a crash |
| `rotation_concurrent` | `VersionBlobsExist`, `StampsNeverLag`, `StampedRecoverable` | two managers, one impatient, one of an older client with an outdated row; an uploader with an outdated row, a restorer, two rotations, a crash |
| `log_durable` | `NoEditLost`, `WrittenUnderLiveKey`, `LogRecoverable`, `KeepsEdits` | two edits, two rotations, a revocation, failing and repeated compactions, one broken socket or insert |
| `log_live` | `EditsReachLog` | one edit, two rotations whose compaction succeeds, a document that may be closed |
| `catchup_reader` | `NoGapUnlessLapped`, `Converges` | pages of two rows, three rows, a broken socket |
| `shares_holders` | `RowsOpenUnlessOvertaken`, `FrozenWhileExposed` | two users, one with a client of the previous version, a team, one node, four requests, one rotation of each kind |
| `shares_reinstated` | refutes `RevokedStaysOut` | three users, three requests |
| `sessions_tabs` | `NoFalseAlarm`, `TokenKept`, `NoZombieTab`, `EpochEndsAccess`, `NoResurrection` | two tabs, two sessions, one refresh of each, a password change, a lost answer or a reload, « disconnect the others » once |
| `sessions_ends` | `DeadTabEnds` | two tabs, one session, two refreshes, a lost answer, a reset, revocation, suspension or expiry |
| `tree_files` | `NoBrokenReference`, `NoOrphan`, `ForestUnlessCrossed` | a folder and a file, two blobs, four requests or sweeps, a crash at any time |
| `sync_backup` | `SavedUnlessUnwritten`, `NotForgottenUnlessLost` | two devices, two items, two folders, three files, two edits, one failure or loss, five runs |
| `factor_enrolment` | `AcceptedOnce`, `EnrolmentWhole` | two requests at once, two secrets, two batches of two codes, two time steps, a lock after two attempts, any number of requests that die |

Why these bounds are enough for the cases aimed at. Losing a version takes two
rotations, the first of which leaves it behind; hence `MaxEpoch = 3`, and two
versions so that one may lag while the other does not. Four blob references let
a re-encryption, an upload and what each replaces coexist. A log row is stranded
by a second rotation, and a cursor is lapped with one row on a page and one
behind it. Any two of the share protocols interleave with two requests; the
other two prepare the ground. A false alarm takes two tabs and one rank of a
session; a session that comes back takes a second one. A blob is orphaned by two
requests, and two more leave room for the rows to move meanwhile. An index is
overwritten by the third run, and read by a fourth. Codes of an earlier enrolment
survive a request that died and the next confirmation, hence two batches; a code
replayed takes two attempts, and an older one a second time step. In `sessions_ends` the one
session there is leaves no room for a password change, which `sessions_tabs` has.
Every symmetry set is a set of model values the
specification treats alike; runs with a temporal property use none, except where
only action properties are checked.

No run checks for deadlock: all actions are bounded, so every one stops.

Fairness. `KeyRotation` assumes weak fairness of each client's steps and of the
requests it waits for: a client goes on after an answer, and a request is served,
refused or cut off by a crash. `CollabLog` assumes it of clients (timers and
promises), of the relay, and of a compaction that has been started and is not
flaky. `CollabCatchUp` assumes it of page requests and of the channel. `Sessions`
assumes that each tab's refresh, and its other call, go on at the server and in
the page; that a tab in use is refused in the end, because access tokens expire
(`Reject`); and that it gets the lock, which browsers grant in the order of
requests (strong fairness of `Acquire`). `NodeTree` assumes that a request under
way goes on unless the server stops (`NodeTree_moves.cfg` checks `Erased` with
it). `DriveSync` assumes nothing, since no property of it needs it. Nothing makes a user write, a manager rotate, or a connection break.

## 5. What the counterexamples show

One of them is a run. The others are configurations beside the modules:
`tlc -config <name>.cfg <module>` shows the trace; the property each of them
checks is in parentheses.

Files and keys (`MCKeyRotation`):

- `KeyRotation_overlap` (`VersionsRecoverable`): `PUT /versions/:versionId/content`
  stamps the row with the node's epoch at commit (versions.ts:153). A request in
  flight while another manager rotates marks bytes under the replaced key as
  current; the next rotation leaves them two keys behind, although
  rotate.ts:310-316 says "no version ever ends up more than one epoch behind".
- `KeyRotation_restore` (`NodeServesCurrentVersion`): the reference is read
  before the transaction that writes it to the node (versions.ts:183).
- `KeyRotation_outdated` (`VersionsRecoverable`): a manager whose share row
  carries a replaced key, and who finds nothing to catch up, rotates at the epoch
  he was told: the epochs agree (nodes.ts:550), and the slot receives the replaced
  key, not the one the versions are under (rotate.ts:327-354).
- `KeyRotation_legacy` (`VersionsRecoverable`): under `LEGACY_CLIENT_COMPAT`, on
  by default (config.ts:121), an upload without base headers is accepted at any
  epoch (content-preconditions.ts:71).

Co-editing (`MCCollabLog`, and `CollabCatchUp` for the last one):

- `CollabLog_overtaken` (`NoEditLost`): compaction's `id <= upToSeq` also deletes
  a row that took its number earlier and committed later (relay.ts:667);
  rotate.ts:25-26 says "only its fully-integrated prefix is ever deleted".
- `CollabLog_stranded` (`EditsReachLog`): admission awaits between reading the
  epoch and joining the room; `kickRoom` in between misses the socket, which
  stays read-only (relay.ts:443).
- `CollabLog_stuck` (`EditsReachLog`): an encryption that outlives its socket
  puts its edit in the outbox of a channel that is already ready (collab.ts:400).
- `CollabLog_closing` (`NoEditLost`): `close()` waits for encryptions, and drops
  the outbox of a channel that was not ready (collab.ts:427).
- `CollabLog_unfinished` (`LogReadable`): two rotations whose compactions both
  failed leave rows under a key that nobody is given (rotate.ts:387). It is the
  exception of `LogRecoverable`; the two need not be the last two for the row to
  stay out of reach.
- `CollabLog_late` (`WrittenUnderLiveKey`): the ready handler assigns the key
  before it compares sockets (collab.ts:302).
- `CollabCatchUp_pages` (`NoGap`): a live update received between two pages moves
  the cursor from which the next page is asked (collab.ts:112).

Shares (`KeyShares`):

- `KeyShares_reinstated`, the run `shares_reinstated` (`RevokedStaysOut`): a
  rotation's rows become those of a list made before a revocation (nodes.ts:564).
  The same holds of a departure from the organisation; the departed user's
  sessions are refused, but the row is there if he is invited again. A share
  granted in between is removed in the same way.
- `KeyShares_overtaken` (`RowsCarryCurrentKey`): a share, a recovery grant or a
  re-wrapped recovery row may carry a replaced key (shares.ts:274, orgs.ts:683,
  941). Its holder cannot read the node; what a manager who holds only such a row
  does to it by rotating is `KeyRotation_outdated`.
- `KeyShares_legacy` (`RowsOpen`): a client of the previous version names no key,
  and the server takes the current one for the one it meant
  (key-share-policy.ts:37-41, 47-54). What it had wrapped to a key that was replaced
  meanwhile is stored, opens for nobody, and stops the next rotation of the team or
  the organisation, which must open every row (ops.ts:900).

Sessions (`Sessions`):

- `Sessions_others` (`OthersSparesCaller`): a request to revoke « every OTHER
  session » (users.ts:165) that is sent again after a refresh still carries the
  old refresh token in its header (api.ts:357, 499-507); it ends its own session
  with the others.
- `Sessions_logout` (`LogoutEndsSession`): a logout revokes the session whose
  current token is the one presented; when another tab has refreshed meanwhile,
  it is a replaced one and the session lives on (auth.ts:524;
  web-studio/src/docs/sections/11-authentification.md:30 says that it ends).

Second factor (`MCSecondFactor`):

- `SecondFactor_unconfirmed` (`SecretConfirmed`): the secret promoted is the one
  that is pending at that moment (auth.ts:591-598), no longer the one the code was
  checked against. A set-up in between puts a secret in force that no code has
  confirmed, although auth.ts:565 says "confirm the pending secret with a first
  valid code"; a second confirmation finds it cleared, and leaves a factor enabled
  with no secret at all.

Tree (`MCNodeTree`):

- `NodeTree_cycle` (`Forest`): two moves, each legal when it was checked, make
  each folder the other's parent (nodes.ts:345-383).
- `NodeTree_purged` (`OnlyTrashPurged`): a node restored from the trash between
  the check and the deletion is deleted (nodes.ts:489-492).
- `NodeTree_references` (`References`): a node that leaves a subtree between the
  listing of its blobs and its deletion keeps its row and loses its blobs;
  housekeeping.ts:122-123 says "jamais une référence cassée".

Backup (`MCDriveSync`):

- `DriveSync_forgotten` (`NotForgotten`): what is linked
  and not in the catalogue is published as deleted (drive-sync.ts:255). Only a
  workspace without any item is held back, so after `resetVault`, which keeps the
  links (App.tsx:457-476), one new item turns all the earlier ones into
  tombstones.
- `DriveSync_unwritten` (`SavedKept`): a restoration that fails to write an item
  notes it and goes on (drive-sync.ts:565), then links every item it was to
  restore, that one included (drive-sync.ts:569-582, where a comment says that
  "les éléments restaurés correspondent exactement au Drive"). It takes three
  failures: the file of an item is stored but its upload reported failing, the
  upload of an edit is not, while the index lists the edit, and the restoration
  that is to replace the item cannot write it. The edit on the device is then
  taken for sent and no file has it, provided that the catalogue's stamp and size
  are those of the index.

## 6. Proofs

### KeyRotation

`KeyRotationProofs` holds for any sets of clients, versions and references and
any bounds, under `KeyRotationAssumption` (legacy, impatient and outdated clients are among the clients,
`None` is no other value) and what a theorem assumes besides.

- `TypeCorrect`. `TypeOK` is not inductive: committing a PUT updates a field of
  a row, so the row must exist. `TargetsExist` says that what a request or a
  manager's list is about exists; it holds because no row is deleted
  (`RowsStay`).
- `StampedCorrect` (`StampedRecoverable`), for any managers, impatient, of older
  clients or with outdated rows. Through `SkipInv`: until a manager of the last two
  kinds has skipped a key, every stamp is that of the current key or of the slot
  (`StampsLevel`), because whoever reaches the swap has seen every version at the
  epoch he was told (`RunLevels`), stamps only grow (`StampsGrow`), and the epoch he
  was told is compared with the node's (nodes.ts:548). A version that could not be
  re-encrypted counts as a failure, and a run with a failure does not swap; a
  request its manager no longer waits for may still commit, which only raises a
  stamp (`AwaitFine`). When stamps are true is the condition `WritesCurrent`, below.
- `StampsCorrect`, through `LagInv`: every key in a client's or a handler's
  hands, and every blob, is under the node's epoch or an earlier one, since
  epochs only grow (`ManagersBehind`, `BlobKeys`); a commit therefore stamps a
  row with an epoch at least that of its bytes.
- `BlobsCorrect`, through `BlobInv`: each blob has one owner. Rows have distinct
  references, a request that has not committed owns its new blob and one that
  has owns the blob it replaced, and no two own the same. Removal is always by
  an owner. There is one lemma per action that touches a blob.

- `NewContentCorrect`, assuming no legacy client and no writer with an outdated row, through `UploadKeys`: a body
  in flight stays under the key its headers announce, because (`BlobInv`) nobody
  else owns its blob. The server compares the header, not the bytes.
- `HistoryCorrect`, assuming no legacy client and no restore, through `Chain`: no
  listed version was based on the current one, so the upload that names the
  current version is the first to. After a restore an old version is current
  again and may rightly be continued a second time.
- `ServesCorrect` (`NodeServesCurrentVersion`), assuming no restore, for any
  number of managers and uploads: every transaction that writes the node's
  reference writes that of the current row in the same step.

What a rotation is for rests on one comparison that the code does not always
make. `WritesCurrent` says that each content is committed under the key of that
moment: `PUT /versions/:versionId/content` stamps the row without looking
(versions.ts:153), and so does an upload without base headers. As a condition on
the steps, `Spec /\ [][WritesCurrent]_vars`, it is all that the three properties
need beside `UpToDate` (no share row carries a replaced key, and every manager
names his epoch): managers may be any number and stop waiting for their requests,
writers be legacy ones, versions be restored and the server crash.

- `RecoverableIfCurrent` (`VersionsRecoverable`) and `CompleteIfCurrent`
  (`CompleteMeansReencrypted`: a manager who was told that his rotation is complete
  left no version behind, as long as the epoch he installed lasts; of a node whose
  manager was told something else, or nothing, it says nothing), through `PromiseInv`: a stamp names the key its
  bytes are under, and that is the current one or the one in the slot
  (`StampsTrue`); a request that its manager waits for is his only one, and once it
  is committed its version is level, unless another has rotated since (`PutsFine`);
  and for a manager who works at the epoch of the node, what is not in his list of
  versions left is level (`RunFine`). It needs `BlobInv`, since what was committed stays
  under its key only while nobody else writes its blob.
- `PromiseIfCurrent`: `KeyRotation` implements `RotationPromise`. `Swap` is
  `RotateKey`, and `RunFine` is what shows that nothing lags by then; `PutCommit`
  is `Relevel`, `CommitUpload` is `AddVersion` and `RequireRotation` is `Freeze`;
  all else stutters.
- `RecoverableCorrect`, `CompleteCorrect` and `PromiseKept` are about the code as
  it is, assuming `OneManager`: one manager rotates, waits for the answer of each
  of his requests, no client is legacy and no share row outdated. Then every step satisfies
  `WritesCurrent` (`OneManagerCurrent`): one request of the manager at most is
  being served, it is for the epoch of the node (`OnePut`), and a body in flight
  is under the key its headers announce (`UploadKeys`).

Without the condition they are false: `KeyRotation_overlap` has two managers and
`KeyRotation_legacy` a legacy writer, and each trace commits a content under a
replaced key. `KeyRotation_outdated` is what `UpToDate` excludes.

### CollabLog

`CollabLogProofs` holds for any number of clients, managers, edits, sockets and
rotations, under the assumptions of the module and those of each theorem. Each
of these has a configuration of section 5 that shows what happens without it.

- `TypeCorrect`. Beside `TypeOK`, a channel that is ready has a socket
  (`HasSocket`), and a key that was answered is a key (`KeysRead`).
- `LiveKeyCorrect` (`WrittenUnderLiveKey`), assuming `Prompt`: no encryption and
  no ready handler outlives the socket it began on (`Slow = {}`; without it,
  `CollabLog_late`). Through `LiveInv`: a socket has one end at
  the relay; a channel that is ready has a key no older than the epoch with which
  this socket was admitted, and so has every frame on its way. The relay compares
  that epoch with the node's, and no key is ahead of the node, so what it inserts
  is under the key of the moment.
- `RecoverableCorrect` (`LogRecoverable`), assuming `Prompt` and one manager,
  whose compactions may fail and be repeated. Through `RunInv` (a manager at work
  holds the key of the node and the one it replaced) and `Behind`: when no manager
  is at work, rows under the slot's key come from a rotation in `unfinished`; while
  one is, older rows come from the rotation before, the compaction has their key,
  and once it has read the log it will replace them all. A compaction that is
  given up then adds the second of two rotations in a row to `unfinished`, or
  leaves only rows that the slot opens.
- `EditsIfCarried` (`NoEditLost`) and `PromiseIfCarried` (`KeepsEdits`), for
  any number of managers, INSERTs at once and calls that outlive their sockets,
  assuming no channel that closes (`CollabLog_closing`) and `[][Carries]_vars`: a
  compaction deletes no row whose edits neither its snapshot nor another row
  carries. While nobody closes the document, compactions are thus the only steps
  that can lose an edit, and the channel and the relay alone never do: kicks, refusals, failed INSERTs, broken
  sockets, duplicates and encryptions that end on another socket included.
  `relay.ts` cannot check `Carries` (it sees ciphertext); it compares ids.
  Through `EditsInv`, which follows an edit from the outbox to the frame, the
  INSERT and the log, and `SnapshotLogged` (a snapshot carries edits of the log
  only). Under the refinement `Edit` is `MakeEdit`, `CommitInsert` is `Persist`,
  or a stutter when the edit was there, and compaction stutters (`Untouched`).
- `EditsCorrect` (`NoEditLost`) and `EditsKeepPromise` (`KeepsEdits`) follow
  assuming `Orderly`, under which every compaction satisfies `Carries`
  (`OrderlyCarries`): INSERTs one at a time (without it, `CollabLog_overtaken`),
  one manager, `Prompt`, and no channel that closes. With two managers, or one
  encryption that outlives its socket, TLC finds behaviours that lose an edit,
  the second only past 30 steps. Compactions may fail anywhere, and sockets
  break. Through `LogInv`: numbers are taken once and in order (`Numbers`), a
  compaction that has read the log carries every edit of the rows it will delete
  (`Stands`), and an INSERT that a snapshot has overtaken is out of reach of the
  next compaction, which cannot open the rows before it (`Overtaken`).

### CollabCatchUp

`CollabCatchUpProofs` holds for logs of any length, pages of any size and any
number of broken sockets.

- `TypeCorrect`: cursor and editor never run ahead of the log, and a catch-up
  holds rows of the log only (`RunsFromLog`).
- `NoGapCorrect` (`NoGapUnlessLapped`), through `CoverInv`: as long as a catch-up
  is under way, a row that is neither in the editor nor among the live updates
  received is still due (`Due`): on the page in hand or behind the point from
  which the next one is asked for; and an open channel misses none. That a
  page of the first rows behind the cursor leaves no hole needs the greatest of a
  finite set of numbers (`Greatest`, `Least`), which the well-foundedness of
  inclusion gives without an induction.

### KeyShares

`KeySharesProofs` holds for any users, clients of the previous version among them,
any nodes, bounds and number of requests, under `KeySharesAssumption` (the owner is a
user, the principals are distinct).

- `SharesTypeCorrect` and `RowsOpenCorrect` (`RowsOpenUnlessOvertaken`) come from one
  invariant, `Inv`. The property alone is not inductive: a deleted team has
  generation 0, and a request prepared then would be served as fresh. `Requested`
  says that no request names a team that did not exist when it was prepared, and
  `TeamGone`, which `Requested` needs for rotations, that a deleted team has no row
  left. A row is excepted only if it was wrapped to a key already replaced when it
  was stored, by a client that names none: what such a client stores under the
  present key is re-wrapped with the rest.
- `FrozenCorrect`, through `Kept`, a condition on each step rather than on a
  state: unless a step changes the epoch or deletes a share, a right is only lost
  by freezing the node. There is one lemma per handler. Learning a key needs a
  right to the node, so `Kept` carries `FrozenWhileExposed` from state to state.

### NodeTree

`NodeTreeProofs` holds for any nodes, blobs and requests, finite or not, under
`NodeTreeAssumption`.

- `TypeCorrect`: `TypeOK` is inductive.
- `TreeSound`: `ParentsExist` and `ForestUnlessCrossed`, through `TreeInv`. A move
  keeps the forest because its target is not below its node; this was checked
  before, so `MovesChecked` says that it is still true of every move whose check
  no other move has followed. It survives a creation, since what is new has
  nothing below it (`CreateTree`), and a purge, since what is deleted is closed
  under `Below` (`CascadeTree`); a move ends the freshness of the others.
  `NotBelow` and `BelowClosed` are the two facts about the recursive query, whose
  least fixed point is defined without recursion.
- `ReferencesCorrect` (`NoBrokenReference`), through `BlobInv`: a blob has one
  owner. It is a row (`RowsOwn`), a request that stored it and has not committed
  (`PutOwns`), or a request that is to erase it (`ErasuresOwn`). A purge lists
  blobs that rows still own, so its list becomes its own only when `Cascade`
  deletes these rows; what left the subtree in between is in `past`.
- `OrphansCorrect` (`NoOrphan`): besides, the list of a purge covers the blobs of
  what it will delete, unless something was added meanwhile (`ListsCover`), and
  no node that is gone has versions (`NoOrphanVersion`). Lemmas say what is below
  a node after a move, after a creation and after a cascade.

### Sessions

`SessionsProofs` holds for any tabs and any bounds, under
`SessionsAssumption` (`None` is no tab and no pair; the bound of rotations is not
zero).

- `AlwaysSound`: `Sound` is the type of every variable without its bounds, since
  the bounds count the calls on their way, which says nothing about the code. It
  adds what a call of each kind may be at (`WellMade`) and that every pair is of
  a session that exists (`Known`).
- `NoTabForgotten` and `LogoutStays` follow from it: whoever empties the storage
  tells the others, and the answer of a refresh is stored over the pair that it
  was for, hence never into an empty storage.
- `NoOlderToken`, through `EpochInv`: a pair whose access token is of the epoch
  is of a session opened since, or was given by a refresh that overlapped the
  revocation (`Recent`). A refresh that matched when no revocation was under way
  matched a live session, and those are then all of the epoch (`LiveRecent`); one
  that matched earlier is older than the epoch by the time it is answered.
- `TogetherIsNoTheft` and `NoSessionLost`, through `TokenInv`. The lock leaves one
  refresh at most with its tab (`OneRefresh`, `Locked`); the sessions of the
  others were given up (`GivenUp`). The pair in the storage is then the current
  one of its session or the one that this refresh presented (`StorageCurrent`),
  so what is presented is current when it is served (`AllFresh`), and is taken
  for a replay of no one. When the answer is not stored, the storage has another
  session by then (`HeldStill`), which nobody else knew before (`NewOffer`). A
  step that changes no token is one lemma (`QuietStep`), one that serves a
  refresh another (`ServedStep`), one that gives calls up a third (`GiveUpStep`).
- `BoundsKept` (`TypeOK`), through `Bounded`: a guard counts what the calls on
  their way will add, so the rows and the calls that will add one stay within
  `MaxSessions`, and the epoch and the calls that will move it within `MaxEpoch`
  (`Counted`). A step is a function from the calls to what they become, none of
  which asks for more (`NoMore`, `CarriedCount`); `Insert` and `Bump` take one out
  of the count as they add one to the rows or the epoch. A refresh under way, or a
  tab that waits for the lock, has a pair that may be replaced once more (`Fits`,
  `TabsNarrow`).

### SecondFactor

`SecondFactorProofs` holds for any number of requests at once, of secrets, of
batches and of time steps.

- `TypeCorrect`, with `Shape`: what a request holds at each of its statements.
- `OnceCorrect` (`AcceptedOnce`), through `BatchInv` and `OnceInv`: the codes of a
  batch exist only once it was drawn, and a backup code that was accepted is no
  longer a row, since the update that takes it is also the test; the step of a
  TOTP code that was accepted for the secret in force is not behind the last one.
- `EnrolmentCorrect` (`EnrolmentWhole`), through `OrderInv`: as long as no two
  changes of the enrolment overlapped, one of them at most is under way, and what
  secret and codes are in force follows from the statement it is at. A request
  may die at any of them.

### DriveSync

`DriveSyncProofs` holds for any number of devices, items, folders and files,
assuming `OneRun`: a device has one run or restoration at a time. That is what
`running` of sync-controller.ts gives to one tab; two tabs are not covered.

- `TypeCorrect`. `TypeOK` is not inductive: a link names a file that exists, a run
  begun on a device remembers the state that the device has, and a restoration
  that has chosen has a listing to choose from (`TypeInv`).
- `NotForgottenCorrect` (`NotForgottenUnlessLost`), through `KnownInv`: every list
  of deletions, in a state, in a run or in a file, is of items that their user
  erased or that the device lost. The code infers a deletion from a link without
  an item; `KnownState` says that this is what it means.
- `SavedCorrect` (`SavedUnlessUnwritten`), through `SavedInv`: stamps come from a
  clock nothing is ahead of (`ClockInv`); and an edit that no file has is the last
  one of its item, is not linked, and no run that is about to link the item links
  it with this stamp (`UnsavedInv`). The exception is a content that a restoration
  was to replace and did not write, which `past.unwritten` remembers until the
  item is edited or written; `DriveSync_unwritten` shows that such an edit may be
  lost, and the proof that no other one is. The run `sync_backup` allows one
  failure, and a loss takes three.

### Only model-checked

Liveness (`RunsEnd`, `EditsReachLog`, `Converges`, `DeadTabEnds`,
`Erased`), which is out of the prover's reach: every invariant and every action
property of a run that passes is a theorem, under the assumptions named above. The properties of section 5 are no theorems, since they do not hold.
Theorems that assume `OneManager`, `UpToDate` or `WritesCurrent`, `Prompt`, `Orderly` or `Carries`,
or `OneRun` say nothing of a system without it; the runs that check the same
properties satisfy these assumptions, or stay below the bounds at which it matters.

## 7. Not modelled

`PROJECT.json` gives the reason for each component. In short: data
transformation (formats, editors, cryptographic primitives, the audit hash) and
stateless proxies have no interleavings to explore; login challenges (checked,
then burned, auth.ts:360), tickets and the updater have, and are in the plan.

Inside the modelled components:

- Keys and shares: roles and folder inheritance of shares, a folder's
  descendants, several teams and recovery administrators, public links,
  encrypted names (rename against rotation), quotas, admission counts
  (relay.ts:622), a channel with two live sockets, the membership check that
  precedes the transaction of groups.ts:257.
- Second factor: passkeys, the session that a login opens, the erasure with the
  account.
- Sessions: that a challenge is used once, the resolution of
  `iat` (two bumps within one second of the clock), several browsers at once,
  whose tabs share no storage and meet only in the server's rows.
- Tree: names, quotas, the access rows that a move drops, listings, account
  deletion.
- Backup: settings and extra pieces with their dirty marks (a mark set while its
  piece is being sent is cleared with the old one, drive-sync.ts:303), item
  names, the locked vault, the consent of an organisation, the archive of older
  versions. A device runs one push or restoration at a time; two tabs that share
  its `localStorage` are not checked. After an offline failure no timer retries
  (sync-controller.ts:253-257): a run begins when something else starts it, and
  no liveness is claimed.
