# pivss: a verification development

pivss is a personal, paid backup provider: a server (`pivss-server`) stores
encrypted files for clients (`pivss-client`), keeps every version, proves on
request that it still has them, seeds them as torrents, announces itself over
nostr and takes Lightning payments. This directory holds TLA+ modules of its
logic, TLC configurations that check them on small instances, and proofs that
TLAPS checks for all instances. Source references are to `src/`, crates by
their short name (`server/state.rs` is `src/crates/pivss-server/src/state.rs`).

Contents: [inventory](#inventory), [modules](#modules), [runs](#runs),
[bounds](#bounds), [fairness](#fairness), [proofs](#proofs),
[what the checks found](#what-the-checks-found),
[not modelled](#what-is-not-modelled), [plan](#plan).

## Inventory

| component | code | state it keeps | operations |
|---|---|---|---|
| Backup service | `server/state.rs` 279-412 | manifests and data keys in the store, seed files on disk | `store_backup`, `get_backup`, `get_backup_data`, `answer_challenge`, `list_backups` |
| Versioned store | `server/store.rs` | key -> (version, value) | `get`, conditional `put`, `list`; `MemoryStore` and `VssHttpStore` |
| Payment recording | `server/state.rs` 415-490, `server/lib.rs` 100-125, `pivss-ln/lib.rs` 80-125 | records at `payments/{id}`, an in-memory channel, one consumer task | `record_payment`, `match_and_record_incoming_payment`, `on_event` |
| Settings | `server/state.rs` 156-259, `server/config.rs` | shared `Config` under a lock, `config.toml` and its temporary file | `apply_settings_patch`, `Config::save`, `Config::load`, `--listen` |
| Client commands | `client/main.rs`, `client/lib.rs` | `ledger.json` | `backup`, `verify`, `watch`, `restore`; `list`, `info`, `pay`, `receive` |
| Proof of storage | `core/proof.rs`, `core/manifest.rs` | none | `make_challenge`, `compute_proof`, `verify_proof`, `quote_msat` |
| Seeder | `server/seeder.rs` | map of child processes, list of statuses, each under a lock | `detect`, `seed`, `statuses` |
| Announcement, discovery | `server/announce.rs`, `server/api.rs` 239-257, `client/discover.rs` | `last_announcement` (never read); events on relays | `announce`, `publish`, `discover_providers`, `query_relay` |
| Wallet and offer | `server/ln.rs`, `pivss-ln/lib.rs` | cached offer, SDK handle | connect, `refresh_offer`, `pay_offer` |
| Identity key files | `server/lib.rs` 28-98, `server/main.rs`, `client/main.rs` 208-240 | `vss.key`, `nostr.key`, `breez-mnemonic.txt`; the client's mnemonic | take from the configuration, read, or draw and write |
| Envelope encryption | `core/crypto.rs`, used in `client/main.rs` | none | `encrypt`, `encrypt_with`, `decrypt`, `is_envelope` |
| Torrent metadata | `core/torrent.rs` | none | `create_torrent` |
| Nostr events | `core/nostr.rs` | none | event id, signature, npub |
| VSS wire format | `core/proto.rs` | none | protocol buffers messages |
| HTTP routes, web panel | `server/api.rs`, `server/*.html` | none | one operation of the state per route |

How they interact. An HTTP handler calls one operation of `AppState`; handlers
run concurrently and interleave at every await, and a handler is dropped when
its client goes away. The backup service shares the store with payment
recording, which reads manifests to decide whether a payer's note names a
backup. The wallet reaches the server only through events pushed into a
channel. Clients see the service through its listings, its downloads, the
answers of uploads and the answers to challenges; what they remember of it is
`ledger.json`. Settings are read by all handlers as snapshots.

What is hard. No operation that takes more than one store call is protected by
a lock: an upload is a manifest read, a data put, a seed file, a manifest put,
and each may be the last. A put to a vss-server can be applied after its caller
is gone. Settings are merged under a lock but saved outside it, through one
shared temporary file. Client commands are separate processes that read and
rewrite one file. Events are held in memory only, may be repeated, and are
judged by one read of the store. The full list, each at its line, is under
`hazards` in `PROJECT.json`.

What makes each component correct:

- *Backup service*: every listed version has exactly the bytes and the seed
  file it lists; history only grows; an acknowledged upload stays listed;
  racing uploads are serialised, one wins each version; challenges are answered
  from the listed bytes.
- *Payments*: a payment counts at most once; with a wallet, only what was
  received is recorded; a payment for a known backup whose event arrived is
  recorded eventually, and none is let go without a cause.
- *Settings*: what was answered as persisted survives a restart; a crash never
  leaves a broken `config.toml`.
- *Client ledger*: an entry describes one upload; a failed proof has a cause;
  finished uploads stay in the ledger, unless two commands overlapped.
- *Restore*: gives back one version as it was uploaded.
- *Proof of storage*: ranges stay inside the file; only a provider that has the
  bytes in a round is paid for it; the amount covers the price.
- *Discovery*: of a provider's events the newest signed one wins; what a relay
  accepted is found; nothing is shown that was not announced.
- *Listing*: it misses nothing that was there when it began, over any number of
  pages and whatever is uploaded meanwhile; in the order of `updated_at`; and it ends.
- *Billing*: the provider earns nothing for a round in which it did not prove
  that it has the bytes; a claim said to be paid is what the provider recorded.
- *Key files*: a provider stays one VSS user, one nostr key, one wallet.
- *Envelopes*: a restore gives the file that was backed up, or fails; the
  passphrase of a backup, and no other, restores and proves it.
- *Torrents*: every byte is under a piece's hash, keys are in order.
- *Seeder*: ports differ, every seed has its status, a panic has a reason.

## Modules

`VersionedStore` is the store: a cell `[version, value]`, what a conditional
put accepts and what it writes. Both backends decide a put the same way
(`store.rs`); they differ in what can happen around it, which `BackupService`
models by its constant `Backend`.

`BackupService` extends it with uploads and challenges.

| model | code |
|---|---|
| `meta[s]`, `data[s][n]` | the keys `backups/{id}/meta` and `backups/{id}/v{n}` |
| `seeds[s][n]` | the file a version is seeded from, complete or not |
| `pc[u]`, `base[u]`, `target[u]` | the await an upload is at, the manifest it read, the backup id of its file name and kind |
| `challenge[r]` | one `answer_challenge` between its two reads |
| `RejectTooLarge`, `ReadManifest`, `PutData`, `Materialize`, `PutManifest` | `store_backup`, one action per await |
| `Fail` | an error at any `?`, or the handler dropped; a seed file may be left incomplete |
| `LateData`, `LateManifest` | a put that the vss-server applies after its request has ended |
| `Restart` | the process stops and starts; the in-memory store is empty again, seed files stay |
| `ChallengeManifest`, `ChallengeData` | `answer_challenge` |

An upload is its own content: equal bytes of two uploads are told apart, so
the properties are about whose bytes are where. The timestamps of a manifest
are in the next module; nothing but the order of a listing depends on them.

`ListBackups` extends it with `list_backups` and with the times. `TakeTime` is
`now_unix()` at the start of an upload, before it reads the manifest;
`UploadEnds` writes that time into the manifest it puts. A listing asks for
pages of keys (`ReadPage`): the in-memory store gives all at once, a vss-server
the first keys after the token, as many as it likes up to the page size (a
page is empty only if nothing is left), with the page's last key as the next
token, which it may give although no key follows. A listing then gets the
manifests one by one (`GetManifest`) and sorts them (`Answer`). A key is the
place of its series in `IdOrder` and 0 for the manifest or a number for a
version; `NameOrder` says which version that number names, since `v10` comes
before `v2`. Uploads go on between any two of these steps.

`VersionArchive` is what the service promises, free of store and steps: per
series a list of uploads that grows only at its end, no upload twice, each in
its own series, `created` answered only for what is listed, `error` possible
for what is listed or not. `BackupService` implements it under the mapping
`Downloads` (what a client gets by following the listings) and `Reply`.

`BackupInvariant` holds the inductive invariant of uploads and challenges,
`BackupProofs` the proofs, those of the refinement and of listings included.

`Payments`: `wallet` (is a real wallet connected), `settled` and `emitted` (the
SDK), `channel`, `consumer` (receive, look up the note, put the record),
`claims` (`record_payment`), `records`. In a behaviour the store is `durable` (a
vss-server) or not (the in-memory store, the default, `server/config.rs` 80). A
vss-server may answer with an error, before or after a put took effect, and
keeps records and manifests over a restart; the in-memory store always answers,
and a restart empties it (`server/lib.rs` 64), so that a claim answered 201 has
no record any more (`forgotten`). Of the backup service `Payments` needs only
whether a backup has a manifest (`known`). `lost` is a history of how the server
let go of a payment since its last event. A payment that reaches the wallet
otherwise than over Lightning is one that settles and has no event: the listener
drops it (`pivss-ln/lib.rs` 82-90). `PaymentsProofs` holds its proofs.

`Billing` composes it, by `INSTANCE`, with the client's side: the `watch`
command asks for a proof, pays when it is good, sleeps and goes on; the `pay`
command pays at once; each either with its own wallet (`pay_offer`: get the
offer, hand the payment to the SDK, get it back or an error) or by a claim
(`pay_mock`). `pay_offer` does not look at the status of the payment it gets
back, so `Paid` may say paid of one that is pending, and settles later or never. Any request may fail, with its effect, without it, or with its
effect later. Whether the provider can prove a round is one bit here, `stored`;
`ProofOfStorage` is where it is earned. `BillingProofs` holds its proofs, and
takes those of the provider's side from an instance of `PaymentsProofs`.

`Settings`: the merge under the lock is one action, `Apply`; open, write and
rename are one each, on inodes that names point to, so that a truncation or
rename by another save is what the file system makes of it. A configuration
maps each field to where its value came from: a patch, the file, the command
line or the default. `Workers` bounds the requests that run at once: the
handler never awaits, so that is the number of worker threads. `SettingsProofs` holds its
proofs.

`ClientLedger` composes the client's commands with the server. The server is
`VersionArchive` itself, by `INSTANCE`: what `BackupService` is proved to
implement is all a client may rely on. A backup command is load, send,
receive, truncate, write; `verify` and `watch` are load, seal the local file
again, ask for a proof, next round; `restore` is a listing, then a download.
Bytes are (file, how often it was edited, nonce), so a proof fails exactly when
one of these differs. `ClientLedgerProofs` holds its proofs, and that what the
commands do to the server is what `VersionArchive` allows.

`Discovery`: each announce request reads the terms (`announcement()`), then the
time, then sends one event to one relay after the other; a relay takes it and
answers, or it is lost, or it arrives later. Relays keep the newest event per
key (`nostr.rs` 13-16) and may hold events with bad signatures. `client` is one
`discover` command: relay by relay a set of events, taken in any order, complete
or cut short by the timeout, merged per key; then those that parse, by price. A
revision number stands for the terms and for their price. Unreadable events are
those of a release with other fields (`Foreign`). `CommandProofs` holds the proofs
of `Discovery`, `Envelope`, `ProofOfStorage` and `Torrent`: what single commands
of the client, and a download of what a provider seeds, rest on.

`KeyFiles`: processes that resolve their secrets one after the other, each from
the configuration, from its file, or by drawing it and writing it with one
`fs::write`, which is an open that truncates and a write. A process may end
anywhere, inside that write too. A behaviour lets processes overlap or not
(`overlap`); servers meet only when they bind their port (`Binds`), after their
secrets. A secret is the process that drew it. `KeyFilesProofs` holds its
proofs.

`Envelope`: `crypto.rs` as operators over files under any number of seals, and
one file with its last backup: `BackupFile`, `RestoreFile` over it, and
`ReplaceFile` by other content or by a download of the stored bytes. So what is
backed up may be an envelope already, or begin like one by chance (`Lookalike`). A seal is opened by
its passphrase and by no other: that the ciphers work is assumed.

`Torrent`: `create_torrent` as an operator from bytes and trackers to ordered
dictionaries; a hash is the bytes it is of, and bencoding is left out. It
extends `ProofOfStorage` to ask of what the provider of a watch has stored that
its metainfo describes it: byte k in the piece and at the place where a
downloader looks for it (`CoveredBy`).

`ProofOfStorage`: `proof.rs` as operators over byte strings (`Offsets`,
`Lengths`, `Slice`, `Proof`, `Verifies`), `quote_msat` with its wrap, and the
rounds of `watch`. The provider may lose or change the bytes once and answer
with any proof it gave before, its nonce replaced or not. It also answers other
callers (`AnswerOther`), whose ranges the server does not check: a range with no
slice to take makes `compute_proof` panic (`core/proof.rs` 84), which ends that
request only, since no lock is held and nothing is changed. A hash is the pair
of nonce and bytes.

`Seeder`: one `seed` call per upload, as choose a port, spawn, insert, push a
status: the steps between which it holds no lock. `checked` is the build (are
overflows a panic?), `poisoned` the lock after a panic. `live` also has the
children of a server that was killed. `SeederProofs` holds its proofs.

The `MC` modules give the constants that need definitions (`MCCore` puts the
three modules of `pivss-core` side by side: TLC explores one part or the
other); bugs that a property must catch are definitions named `X_Fault` (or by the bug) beside `X`, used by
no specification.

## Runs

| run | shows |
|---|---|
| `backup_vss` | With a vss-server, failures, late puts and restarts: `VersionsIntact`, `ListedIsSeedable`, `ManifestWriteNeverConflicts`, `ChallengeAnswersListedBytes`, and that every behaviour is one of `VersionArchive` (`ImplementsArchive`). |
| `backup_wedge` | Violation: with failures a series can refuse uploads for ever. |
| `list_requests` | A listing over two pages while uploads race, fail, are applied late and the server restarts: `ListingIsComplete`, series come in the order of the uploads that put their manifests last (`ListedByNewestUpload`), `ListingEnds` (liveness). And of the uploads: a series at rest none of whose uploads failed can be written (`QuiescentSeriesIsWritable`), and an upload refused there lost to one that does become listed (`ConflictMeansAnotherWon`, liveness). |
| `payments_events` | `RecordedOnce`, `RecordsAreReceived`, `ClaimsMatchRecords` with repeated events, claims, store errors, restarts, with and without a wallet, over a vss-server or the in-memory store that a restart empties; a payment is let go only over an unknown backup, a store error or a restart, never over a put that is refused (`LossHasCause`), and every queued payment for a known backup is recorded in the end, unless the store fails or the server restarts (`QueuedIsRecorded`, liveness). |
| `billing_commands` | Two commands, each a `watch` or a `pay`, one with a wallet and one with claims, over the provider of `Payments`, which may lose the bytes: `RevenueIsProved`, `SaidMatchesProvider`, and, over a vss-server, the payment of a `watch` whose event reached the channel is recorded in the end, unless the store fails or the server restarts (`WatchEventIsRecorded`, liveness). |
| `settings_serial` | One request at a time, with failing file operations and crashes anywhere: the file is whole (`ConfigFileWhole`), what was persisted survives (`SavedSurvives`), what was answered is in effect (`AnsweredIsInEffect`). |
| `settings_overlap` | Violation with two workers: what was answered as persisted does not survive. |
| `ledger_commands` | Two backup commands at a time, killed anywhere, with edits, checks and restores between: `EntryDescribesItsUpload`, `FailureHasCause`, `RestoreMatchesLedger`, and an entry is lost only to a command that overlapped its own: each of the two had loaded the ledger before the other had written it (`LostOnlyToOverlap`). |
| `discovery_relays` | Two overlapping announcements, lost and late events, a discovery at any time: `NewestIsKept`, `AcceptedIsFound`, `ShownWasAnnounced`. |
| `proof_watch` | Two rounds over every file of up to three bytes, with every choice of ranges: with other callers' ranges answered between: `RangesInFile`, `PaidOnlyIfStored`, `PaymentCoversPrice`. Of the torrent of each such file: `MetainfoDescribesFile`. Of a file that is backed up, restored and replaced, with every passphrase: `RestoreUndoesBackup`, `SamePassphraseSucceeds`. |
| `seeder_children` | Four overlapping seeds over three ports: `PortsDifferUnlessRaced`, `PanicsOnlyAtPortLimit`, `OneStatusPerSeed`. |
| `keys_starts` | Three starts of a server, overlapping or not, each ended anywhere: `OneIdentity` and `StartFailureHasCause` if they do not overlap, `SettledSecretsStay` in any case. |

Every property of a passing run has a mutant of the code that breaks it
(`mutants` in `PROJECT.json`).

### Bounds

- *Backup*: three uploads over two series are enough for two that race and a
  third that comes later or reads a stale manifest, in the same series or
  beside it. `MaxVersion = 3` lets all three be listed in one series. One
  reader suffices, since readers change nothing that others read. The proofs
  below remove all of these bounds.
- *Listing*: two uploads, in one series or in two, make up to four keys; with
  pages of at most two keys, shorter ones included, a listing takes up to five
  requests, ends on a full page, a short one or an empty one, and meets keys
  that appear before and after its token. Two
  seconds suffice to take times in one order and put manifests in the other.
  The vss backend is the one with pages; with the in-memory store, whose list
  is one step, the module is not run, but proved about all the same.
- *Billing*: one command with a wallet and one with claims, each a `watch` or a
  `pay`, two rounds (the second may come after the bytes were lost, or before
  the first one's payment settled), one event a payment: `payments_events` has
  the repetitions.
- *Key files*: the three secrets of a server, one of them configured; three
  starts are one that is cut short, one that fails over what it left or goes
  on, and one that would see another identity. The proofs remove these bounds.
- *Envelopes*: a file and one that begins like an envelope, two passphrases, two
  salts, up to two seals, so that what is sealed may be an envelope. *Torrents*:
  files of up to three bytes and pieces of two, so that files end on a piece, inside one, or are
  empty; no tracker, one, two.
- *Payments*: three payments (with a hash, without, without a note or for a
  backup not listed yet), two events each (the repetition), two claims, two
  random identifiers; either store, any number of restarts. Identifiers of 8 random bytes are assumed distinct.
- *Settings*: two overlapping saves show both races. The serial run has two
  patches of different fields, one that overwrites both, and an invalid one.
- *Ledger*: three commands, two on files of one name (one backup id), two at a
  time, one edit per file, one verifier that may go on for any number of rounds.
- *Discovery*: two requests of one provider (a second provider never announces),
  two relays, two seconds, two revisions, one event with a bad signature and the
  latest time, one request whose event does not parse. Two relays are what it
  takes to hold different events of one key.
- *Proof of storage*: files of up to three bytes over two values, ranges of up
  to two, two ranges a challenge, two rounds (the second may be answered with
  the proof of the first), MiB = 2 and prices such that one quote wraps at
  `Word` and the others do not. Another caller asks at most once, for the first
  byte or for a range whose sum wraps: what it gets has a nonce of its own, so a
  second proof of the kind is no other case. The proofs remove these bounds.
- *Seeder*: four uploads on ports 1 and 2 of 0..2, so that the third wraps and
  the fourth meets the first; two starts.
- `CHECK_DEADLOCK FALSE` where a system may stop: all requests answered, all
  events taken.

### Fairness

- `ListBackups!FairListSpec`: weak fairness of the steps of a listing and of
  those of an upload that has read its manifest: the server's runtime polls a
  handler until it returns. Store calls may fail, and the handler may be dropped
  or the server restarted at any point: the properties say which of these ends
  the wait. A page request is taken to be answered or to fail, though the code's
  client of the vss-server sets no timeout (`server/store.rs` 160): one that
  is never answered makes a listing wait for ever. Nothing makes an upload or a
  listing start, and nothing makes an
  upload that has not yet read its manifest go on.
- `Payments!FairSpec`: weak fairness of the consumer task, which loops on `recv`.
- `Billing!FairSpec`: the consumer task again. Nothing makes a payment settle that
  was said to be paid, nor its event reach the channel.

No fairness is assumed of client commands, of payments under way, of restarts
and failures.

## Proofs

The theorems on the backup service are for any set of series, uploads and
readers, any `MaxVersion`, either backend, with or without faults. Their
assumptions are the named ones of `BackupService`: `NoBytes` is no upload,
`MaxVersion` is a natural number, `Backend` is `"memory"` or `"vss"`, `Faults`
is a Boolean. Those on listings add any number of listing requests, any page
size, any order of finitely many series (`IdOrderAssumption`) and of the names
of versions (`NameOrderAssumption`). Those on payments are for any payments, claims, backups and
identifiers, which `DistinctAssumption` keeps apart; those on proofs of storage
for files, ranges, prices and words of any size, a file being shorter than a
word can count (`LengthAssumption`); those on key files for any processes and
any list of different secrets; those on envelopes for any files, passphrases,
salts and number of seals; those on torrents for any bytes, any trackers and
any size of a piece.

The theorems on billing are for any commands, of either kind and either way of
paying, any number of rounds and any backups; a payment's hash is no random
identifier (`ProviderAssumption`). Those on settings are for any fields, patches
and file errors. Its type invariant holds for any number of workers; the three
properties are proved with `Workers = 1`, requests that do not overlap, and the
run `settings_overlap` shows what happens to saves that do. Those on the ledger are for any
finite set of commands, any files and backup ids, verifiers, slots and edits;
those on the seeder for any uploads and ports, and any number of starts; those on
discovery for finitely many providers, any requests, times and revisions, any
stray events that no provider announced, and any list of relays, which may be
empty or name one twice.

| theorem | statement |
|---|---|
| `Invariance` | `Spec => []IInv` |
| `BackupProofs!TypeCorrect` | `Spec => []TypeOK` |
| `ListedVersionsIntact` | every listed version has its bytes |
| `ListedVersionsSeedable` | every listed version has its complete seed file |
| `ManifestNeverConflicts` | the manifest put is never refused |
| `ChallengesAnswered` | challenges are answered from the listed bytes; the latest version is always answerable |
| `Implements` | `Spec => ImplementsArchive`, refinement of `VersionArchive` |
| `Acknowledged` | with the vss backend, an acknowledged upload stays listed |
| `ListingsServe` | `ListSpec => Spec`: all of the above holds while listings run beside the uploads |
| `ListInvariance` | `ListSpec => []ListInv` |
| `ListingsComplete` | a listing has every series that was there when it began, once, with at least the versions it had |
| `ListingsOrdered` | of two series, the one whose newest version is of an upload that began after the other's newest version was put is listed first |
| `PaymentsRecordedOnce` | a payment with a hash has at most one record |
| `OnlyReceivedIsRecorded` | with a wallet, only received payments are recorded, for listed backups |
| `ClaimsRecorded` | an accepted claim has exactly its own record until a restart of the in-memory store, a refused one none |
| `RangesStayInFile` | ranges of a client's challenge stay inside the file; their slices never end before they start |
| `PaidMeansStored` | a round is paid only if the provider had the bytes in it |
| `KeyFilesProofs!TypeCorrect` | `Spec => []TypeOK` |
| `SettledStay` | a secret on file that nobody is about to write is never replaced |
| `IdentityIsOne` | of starts that do not overlap, all that use a secret use the same one |
| `FailureHasCause` | such a start fails only over a file that an earlier one was cut in writing |
| `RestoreIsExact` | a restore gives back exactly what was sealed, or nothing |
| `PassphraseDecides` | the passphrase of a backup, and no other, restores it, and proves it while the file is unchanged |
| `PaymentsCoverPrice` | a payment covers the price and exceeds it by less than a MiB |
| `TorrentDescribes` | the metainfo of any bytes has its keys in order and every byte under its piece's hash |
| `StoredIsDescribed` | so has that of what the provider of a watch has stored |
| `QuiescentIsWritable` | a series at rest none of whose uploads failed takes the next one |
| `LossesHaveCauses` | a payment whose event reached the channel is on its way, recorded, or let go over an unknown backup, a store error or a restart |
| `ProviderIsPayments` | the provider of `Billing` refines `Payments` |
| `RevenueProved` | what the provider receives of a watch is for rounds it proved |
| `SaidMatches` | a round costs at most once; the provider has nothing of a withheld one, and the record of a claim said to be paid, unless the in-memory store forgot it |
| `SettingsProofs!TypeCorrect` | `Spec => []TypeOK` |
| `FileStaysWhole` | `config.toml` is whole after a crash, if saves do not overlap |
| `PersistedSurvives` | what was answered as persisted is on file, if saves do not overlap |
| `AnswersInEffect` | what was answered is in effect, if saves do not overlap |
| `ClientLedgerProofs!TypeCorrect` | `Spec => []TypeOK` |
| `EntriesDescribeUploads` | every ledger entry describes one listed upload |
| `FailuresHaveCauses` | a proof fails only over another version or an edited file |
| `RestoresMatch` | a restore gives one version as it was uploaded |
| `OnlyOverlapLoses` | an entry is lost only to a command that overlapped its own, each having loaded before the other wrote |
| `ServerIsArchive` | what commands do to the server is what `VersionArchive` allows |
| `SeederProofs!TypeCorrect` | `Spec => []TypeOK` |
| `StatusesAreExact` | a finished seed has exactly one status, and it is right |
| `PanicsAtLimit` | a seed panics only at the last port of a checked build |
| `PortsDiffer` | ports differ unless seeds overlapped or ports wrapped |
| `BillingProofs!TypeCorrect`, `DiscoveryTypeCorrect` | their type invariants |
| `NewestKept` | of what a client read, the newest signed event per key is kept |
| `AcceptedFound` | what a relay had accepted is found there, or something as new |
| `ShownAnnounced` | providers are shown only with terms they announced |

The argument. `VersionsIntact` is not inductive: a manifest put could list
bytes that are not there, or replace entries a rival added. That it does not
rests on who may write it. `IInv` says so:

- `DataOwned`: a present data key of version n holds the bytes of an upload of
  that series that wanted n and has passed its data put. The first-write put
  makes it the only one.
- `HolderOwnsNext`: an upload between its data put and its manifest put
  (a late manifest put included) still has the present manifest as its base,
  its bytes at the next version's key, and past the seeding step its seed file.
  Two holders of a series would own one key, so there is one, and only a
  holder can change the manifest.
- `BaseIsPast`: any other upload's manifest is no newer than the present one,
  and is the present one when it has the same latest version. This is what an
  upload needs to become a holder: its key is free only if nobody has moved on.
- `ManifestCounts`: cell version, latest version and length of the list agree,
  so a put on the version read is a put on the manifest read.
- `LostOnlyRemotely`: the in-memory store has no late puts, so its restart
  leaves no holder behind. Without it a restart would break `HolderOwnsNext`.
- `ReaderHoldsStored`: what a challenge has read, and that data keys never
  change with a vss-server.

`NextPreserves` has one lemma per action; those that share an effect (a data
put, on time or late; a manifest put, on time or late; a seed write, complete
or not) share the lemma about the effect. `Implements` uses `IInv` before and
after the step: a manifest put appends the upload to what clients download
(`ManifestPutAppends`), everything else leaves the downloads alone
(`SameDownloads`) and changes at most the replies; a restart refuses all
pending requests and, for the in-memory store, wipes the archive.
`Acknowledged` needs `IInv` for one step: the manifest put of another upload of
the series keeps what was listed. `QuiescentIsWritable` needs one more invariant,
`UnlistedIsHeld`: a taken key that is not listed belongs to an upload that is
still to list it, or that failed. Its proof takes each effect once more (a new
data key has its holder, a manifest put lists the only unlisted one).

For listings, `ListingsServe` comes first: each step of `ListNext` is a step of
`BackupService` or leaves it alone, so `IInv` holds there. What `ListInv` adds
follows one request:

- `KeysSound` and `MetOnce`: the series it holds keys of ascend, and all of them
  are at or before its token, so no page brings one twice. Every series that
  was there when it began is, if at or before the token, among the keys still
  to get or among the entries (`IsMet`). When no token is left, it is one or
  the other for all.
- `OutSound`: an entry is a listing that the series had between the beginning
  of the request and now, so it begins with what was listed then and is itself
  the beginning of what is listed now. Its time is that of its newest upload.
- `TimesSound`: the time in a manifest is that of the upload it lists last, which
  took it no later than it ended.

That listings only grow is needed at every upload step (`UploadsGoOn`). A restart
of the in-memory store, which empties them, also ends the requests. The order of
the answer is a permutation that ascends in time, whichever the sort picks; so
of two entries the later one in the list has the earlier or the same time, and
for their newest uploads `now[j] <= now[i] <= ended[i]`. Of older versions nothing
can be said: the time that counts is that of whoever put last. That a sorted order exists is not needed for these
properties; that requests do get an answer is `ListingEnds`, checked by TLC.

For payments, `PInv` adds to the properties what is on its way: queued events
and the consumer's payment were received (`EventsSound`), each identifier drawn
belongs to one claim or to the consumer and has no record before its owner puts
it (`IdsSound`), a claim's record is at its own identifier (`ClaimsSound`).
Without `IdsSound` a put could be refused and answered 201 all the same.
`LossHasCause` is proved beside `PInv`, which it needs where a put is refused:
a cell that is present at a payment's identifier holds that payment's record
(`RecordsSound`, `IdsSound`), so the payment the consumer then forgets is
recorded. A restart of the in-memory store keeps both, as it takes records
away and adds none.

For billing, `ProviderIsPayments` projects every step onto the provider:
commands send, settle and claim as `Payments` lets anybody do, or leave it alone.
So `PInv` holds there, taken from `PaymentsProofs` and not proved again. What is
added is of the commands: rounds are sent in order and one at a time
(`SentInOrder`, `StepsSound`), a watch sends what was proved (`SentIsProved`),
what the provider received or was asked to record was sent (`ReceivedWasSent`), and
what a command says is of a round that is over (`SaidSound`). The last two join the
two sides: `RevenueProved` takes a record to a payment or a claim by `PInv`, from
there to what was sent, and from there to what was proved.

For proofs of storage, `PaidHonestly` says that a proof whose full hash is of
the client's bytes under nonce n was computed in round n, when the provider had
them; the nonce in the reply alone says nothing, since a repeated proof may
carry a new one. `PaymentsCoverPrice` rests on `CeilDivBounds` and on
`AmountOfUnits`: a quote that does not wrap is a whole number of sats.

For key files, `SettledSecretsStay` follows from the types alone: only `Open`
and `Write` change a file, and neither is enabled on a settled secret. The other
two hold of processes that do not overlap, and their invariant is for those:
`Alone` (at most one process runs), `WriterIsFirst` (a process that is about to
write found no file, so nobody has used the secret yet), `HeldIsPersisted` and
`UsedIsPersisted` (what a process holds or has used is configured or on file),
`TornHasCause` (an unusable file was left by a process cut at that very secret)
and `FailureCause`. Without `WriterIsFirst` a write could replace a secret in
use. For envelopes, `EnvelopeInv` says that the upload was made of a file under
some seals, and the rest follows from `SealIsOutermost`: what `EncryptWith` adds
is what `Opens` looks at and `Decrypt` takes away. `MaxSeals` plays no part.

For torrents, `ChunksCover` is arithmetic: byte k is at quotient and remainder of
k - 1 by the piece length, all pieces but the last are full, and the last one has
what is left, which is not nothing. Keys are in order because each dictionary
takes consecutive keys of one ordered list (`FollowIsOrdered`). `StoredIsDescribed`
needs of the watch only that what is stored is a sequence of bytes.

For settings with one worker: at most one save runs (`Alone`), a name of the
directory never points to the inode of a save that has not opened it
(`NamesDiffer`), the file is whole, and the temporary one is what its own save
made of it (`FilesWhole`), and both memory and file hold what was answered
(`AnswersHeld`). `FilesWhole` is what two workers break: the inode that one save
is about to rename is the one the other truncates.

For the ledger, what `EntryDescribesItsUpload` says is inductive once it is said of
the copies of commands that run, and of archives that only grow (`ArchiveSound`,
`SentOnce`: a command's bytes are fixed when it sends them). `ChecksSound` carries
it to what a verifier holds, from the load to the answer. `LostOnlyToOverlap`
needs an order: who saw a command end was uploaded after it (`SeenSound`), so a
copy tells of every command seen or of a later upload (`CopyTells`), and a save of
it loses nothing but what was not seen (`LedgerTells`). The lost one had not seen
the one that saves either, which was still running: the two overlapped.

For the seeder, a seed's port comes from the children it counted (`PortOfCount`),
and of two seeds one counted all the other did (`CountsAreChain`), as the map only
grows. Two equal counts are equal sets, then, so neither contains the other's
seed: they overlapped; equal ports of other counts have wrapped. The
cardinalities need finite sets, which an inserted child at a time keeps.

For discovery, signed events were announced wherever they are, in a relay, on
the way, or read (`EventsSound`); a relay that replaces an event keeps something as new
(`RelaysKeep`), so what it had accepted when the discovery began is still in its
answer, or outdone there (`OwedSound`). The merge is a step per event: `NewestIsKept`
is preserved because the kept event is replaced by later ones only, in any order.

Only model-checked:

- Liveness (`ConflictMeansAnotherWon`, `ListingEnds`, `QueuedIsRecorded`,
  `WatchEventIsRecorded`), which this prover does not reach.
- That there is a page to read and a sorted order to answer in: the theorems are
  about whichever is taken, and `ListingEnds` would fail if there were none.
- The two violations: that overlapping saves can lose a setting, and that a
  failed upload can block its series.

The type invariants `TypeOK` of `Payments`, `Billing`, `Settings`, `ClientLedger`,
`Discovery`, `Seeder` and `ProofOfStorage` (`WatchTypeOK`) are proved and no
run lists them, nor `AcknowledgedStaysListed` and `LatestIsAnswerable`
(`Acknowledged`, `ChallengesAnswered`).

## What the checks found

Each is a run that TLC ends with a counterexample, listed under `findings`.

- **A failed upload blocks its series** (`backup_wedge`). A request that ends
  after its data put leaves the next version's key taken. Every later upload
  computes the same version and is refused, with no rival.
- **Settings that were saved can be lost** (`settings_overlap`). Saves share one
  temporary file and run outside the lock: of two that overlap, one may rename
  the file that the other has just truncated, so that a crash leaves
  `config.toml` empty, or rename its older copy last.

Other places where the models and a text of the repository disagree. The
properties state what does hold there, and name the exception:

- *Overlapping client commands lose ledger entries.* `client/lib.rs` 3-4 speaks
  of a ledger of every backup uploaded; commands rewrite `ledger.json` from the
  copy they loaded (`client/main.rs` 259). `LostOnlyToOverlap` shows that
  nothing else loses one.
- *Overlapping first commands with a wallet lose a seed.* Both find no file, both
  draw a mnemonic, and the one that writes last decides (`client/main.rs`
  223-227), although the other may have shown an address to fund
  (`client/main.rs` 526). `OneIdentity` holds of processes that do not overlap.
- *`watch` pays in every interval* (`client/main.rs` 508), whatever the billing
  period that the provider announces; `README.md` 39 has it pay by the period.
  `Billing` says nothing of how far apart two rounds are.
- *An envelope that is backed up without a passphrase* comes back opened, or is
  refused (`client/main.rs` 364), although every payload is to be an opaque blob
  (`README.md` 50-51). `RestoreUndoesBackup` excepts it.
- *After a restart nothing is seeded* until it is uploaded again
  (`server/lib.rs` 68), where `server/lib.rs` 4 says every version is seeded.
  `ListedIsSeedable` is about the file a seed needs, `OneStatusPerSeed` about
  one run of the server.

Behaviour that no document speaks against, noted for readers of the code: the
`--listen` override is part of the configuration that the next settings
request saves; an event without a payment hash that is emitted twice is
recorded twice; an error of the store during the lookup of a payer's note is
taken for an unknown backup, and the payment is dropped (`is_err()`,
`server/state.rs` 459), one of the causes `LossHasCause` names; `updated_at` goes
back when of two racing uploads the one that took its time first puts last
(`server/state.rs` 297, 352), and its series is then listed after one that was
complete when the older version began, so `ListedByNewestUpload` speaks of
newest versions only; `pay_offer` does not read the status of the payment it
gets back (`pivss-ln/lib.rs` 224-240), so a command says paid of one that is
pending and may fail, and `SaidMatchesProvider` promises of such a payment only that
it counts once; an offer paid over Liquid (magic routing hints are left on,
`pivss-ln/lib.rs` 220) is received, and its event is dropped since its details
are not Lightning (82-90), so it is never recorded, and `WatchEventIsRecorded`
begins at the channel; with the default in-memory store a restart forgets the
records of claims that were answered 201; `compute_proof` panics over ranges
that `make_challenge` does not make (`core/proof.rs` 82-84), which costs that
request only; a command killed inside `Ledger::save` leaves a file that no
later command loads, not even a `restore`; the children of a killed server keep
their ports;
a newest event that does not parse hides an older one of its provider that
does; a price is only required to be positive, and a quote can wrap.

## What is not modelled

- `list_payments`, `settings_view`, and the client's `list`, `info` and
  `balance`: they read, and print what they are answered.
- The clock of billing: how long a watch sleeps, and the billing period.
- The encodings: bencoding, protocol buffers, JSON, the serialisation, the
  signature and the npub of a nostr event, the magnet link. They are
  represented by what the modelled code compares.
- Cryptography: that a seal or a signature cannot be forged is assumed.
- HTTP routing, the web pages, what carl does once it runs, and the Breez SDK
  behind its events (balance, funding address).
- `last_announcement`, which no code reads; `NoopSeeder`; `detect`.

## Plan

What is modelled is checked, and every safety property that a run checks is
proved. What could be added: the clock of billing (how long a watch sleeps, the
billing period), and the requests that only read.
