# feditext in TLA+

Models of [feditext](../src/README.md), a federated textboard written in Go:
TLA+ modules translated from the source, TLC configurations that check them on
small instances, and TLAPS proofs for every size.  Paths and line numbers below
are those of the repository under `src/`.

    tlc -workers 2 -config board_safety.cfg MCBoard
    tlapm BoardProofs.tla

These questions lead the work: what concurrent requests can do to the tables of
one board (`Board`), what its readers see of that (`Forum`), what deliveries
do to the copies of a note on many boards (`Federation`).  Around them stand the
lists of who follows whom on two instances that must agree (`Follows`), the making
of the database, of boards and of their keys in steps that are cut short (`Setup`),
the post filter with its table and its compiled copy (`Filter`), the bans and captchas
a visitor has to pass (`Entry`), the reports and news that moderators act on from old
pages (`Desk`), what their sessions are good for (`Sessions`), and the pages that take
several reads while the board changes (`Pages`).

## 1. The system

### Parts, their state and their operations

| Part | Source | State | Operations |
|---|---|---|---|
| Board store | `database/sqlite3.go`, `sqlite3_upgrade.go`, `database.go` | per board `posts_<board>` (AUTOINCREMENT id, UNIQUE apid, thread) and `replies_<board>`; `reports`, `auditlog` | SavePost, Post, FindAPID, Thread, Threads, FileReport, Resolve, DeleteThread, DeletePost, audit |
| Posting, reporting, deleting | `routes/api.go`, `routes/board.go` | none between requests | api.Post, PostBoardReport, GetDelete, the page handlers |
| Inbox | `routes/activitypub.go`, `fedi/post.go` | none | PostBoardInbox: Follow, Create, Delete; AsPost |
| Outbox import | `fedi/net.go`, `fedi/post.go`, `routes/admin.go` | none | FetchOutbox, MergeOutbox, AsThread |
| Delivery | `fedi/net.go`, `fedi/transform.go` | goroutines only | PostOut, PostDel, SendActivity, TransformPost |
| Follow lists | `sqlite3.go`, `routes/admin.go`, `fedi/generate.go` | tables `followers`, `following` | AddFollow, AddFollowing, DeleteFollow, DeleteFollowing, GetAdminFollow, GetAdminUnfollow |
| Finger cache | `fedi/net.go` | `webfingerCache`, an unguarded map | Finger |
| Filter | `sqlite3.go`, `routes/admin.go` | table `regexps` and the map `db.regexps` of compiled patterns | AddRegexp, DeleteRegexp, the loop in SavePostTx |
| Bans | `sqlite3.go` | table `bans` | Ban, Banned |
| Captchas | `captcha/captcha.go`, `sqlite3.go` | table `captchas` | Fetch, Solve |
| Boards | `sqlite3.go`, `routes/admin.go`, `fedi/pem.go` | table `boards`, a key file per board | SaveBoard, PostBoard, CreatePem |
| Sessions, moderators | `routes/admin.go`, `sqlite3.go` | table `moderators`, signed tokens in cookies | login, createSession, hasPriv, DeleteModerator |
| Reports and news | `sqlite3.go`, `routes/admin.go` | tables `reports`, `news` | Resolve, SaveNews, DeleteNews |
| Upgrade | `sqlite3_upgrade.go` | `PRAGMA user_version`, every schema | sqliteUpgrade |
| Pages | `routes/*.go`, `views/` | none | index, catalog, thread, audit pages, GenerateOutbox |

### How they interact

* Every handler works on the one database handle `DB`.  `sqlite3.go` opens a
  single connection (`SetMaxOpenConns(1)`), so a statement or a transaction is
  atomic and anything longer is not: `api.Post` looks a thread up and saves
  into it later, `PostBoardReport` checks a post and files the report later,
  `DeleteThread` is three statements, `MergeOutbox` two per post.
* `api.Post` and `GetDelete` start goroutines (`fedi.PostOut`, `fedi.PostDel`)
  that outlive the request and read the database again when they run.
* `SendActivity` starts one goroutine per recipient with its own retries; the
  other side's `PostBoardInbox` is `CreateArrives`/`RemoteDeleteArrives` in
  `Board` and `CreateFound`/`DeleteFound` with what follows them in `Federation`.
* `GetAdminFetch` and `GetAdminFollow` start an import in the background, which
  interleaves with everything else, statement by statement.
* `SavePostTx` reads the shared map of the filter; `Finger` reads and writes the
  shared map of actors.

### What is hard about it

`PROJECT.json` lists each hazard with its line.  In short: a lookup in one
statement used by a later one (threads, imports, reports, expired bans);
deletions of several statements of which one fails, or between which another
request runs or the process dies; numbers that outlive their row (links,
backlinks, mails); deliveries that are retried, overtaken, or lost with the
process; shared maps and caches with no lock; tokens that outlive the rights
they carry.

### What makes each part correct

* Board store: every reply stands under an opening post;
  a number never comes to mean another post; backlinks stay in the thread; a
  removal takes its replies along and is on record; a report without its post came
  too late for the removal to take it.
* Readers: a thread and its replies come and go as one (`Forum.tla`).
* Deliveries and imports come to an end.
* Delivery: a post reaches the instances that follow, in the thread it was written
  for; a deleted post is gone where it was due, unless sending failed or the post came
  twice; it comes twice only if something made it; no reply is left behind by the
  deletion of its thread; deliveries end.
* Follow lists: the board that is listed as followed lists its follower, once the
  Follow was answered; and what is listed is what the administrator asked for last.
* Filter: a stored pattern filters, a deleted one does not, and each number
  stands for the same pattern in the table and in the map.
* Bans: an unexpired ban holds; a renewed ban is never dropped as expired.
* Captchas: an answer counts once.  Reports, news: a moderator's decision hits
  what was on the page.
* Boards: a listed board has tables and keys, or its making was visibly cut short; a
  public key, once others may have read it, never changes.
* Upgrade: whatever interrupts it, the database is that of its version, and the next
  start can go on.
* Sessions: rights end with the moderator.

## 2. The plan

| Order | Module | What it is | Builds on | State |
|---|---|---|---|---|
| 1 | `Forum` | abstract: what readers of a board are promised | | done |
| 2 | `Board` | tables of a board and the requests on them | implements `Forum` | done |
| 3 | `BoardProofs` | the theorems about `Board` | `Board` | done |
| 4 | `Federation` | delivery between the boards of instances: PostOut, PostDel, SendActivity, inbox, resend, import | rows as `Board` keeps them | done |
| 5 | `FederationProofs` | the theorems about `Federation` | `Federation` | done |
| 6 | `Filter` | table and map of patterns | guard of SavePost in `Board` | done |
| 7 | `Setup`, `SetupProofs` | the schema upgrade and the making of boards with their keys | precedes `Board` | done |
| 8 | `Follows`, `FollowsProofs` | Follow, Accept and unfollow between two instances | the audience in `Federation` | done |
| 9 | `Entry`, `EntryProofs` | bans with expiry and renewal; showing, solving and making captchas | guard of `Board`'s PostArrives | done |
| 10 | `Desk`, `DeskProofs` | report and news numbers that are handed out again; `DeskProofs` also has the theorems about `Filter`, the third thing that moderators change by its number | reports as in `Board` | done |
| 11 | `Sessions`, `SessionsProofs` | logins, tokens and who may change moderators | guards the handlers of `Desk`, `Filter`, `Setup` and `Follows` | done |
| 12 | `Pages`, `PagesProofs` | index, catalog, thread and outbox as sequences of reads | rows of `Board`, with their bumpdates | done |

Abstract specifications worth stating: `Forum` (done); a mailbox that delivers
each post at least once or reports it lost, for `Federation`; a set of unspent
captchas, for `Entry`.

Worth proving beyond section 5: that `Federation` implements the mailbox.

## 3. The modules

### `Forum`

A board as its readers see it: the last number, the readable threads, the
readable replies.  Removing a thread takes its replies in the same step.
`GetBoardThread` (`routes/board.go:184-211`) shows nothing once the opening
post is gone, so replies without their thread are not readable.

### `Board`

| Variable | Code |
|---|---|
| `seq` | `sqlite_sequence` of `posts_<board>`: ids are AUTOINCREMENT (`sqlite3_upgrade.go:121`) |
| `live` | the ids of the rows of `posts_<board>` |
| `post` | `thread` and `apid` of each row ever stored.  Nothing updates these columns; removed rows stay in `post` as history no action reads |
| `links` | `replies_<board>` |
| `reports`, `audit` | the board's rows of `reports`, the deletions in `auditlog` |
| `req` | each request: the next statement it will run (`pc`) and what it holds in Go locals: a post number, an apid, the replies an import has left |
| `dead` | requests that stopped between two statements |
| `late` | history: posts reported after they were gone, or after the deletion that was to remove them had dropped their reports |

One action is one statement or transaction, with the code around it up to the
next one.  `PostArrives`, `PostSaved` are `api.Post`; `CreateArrives`,
`CreateSaved`, `RemoteDeleteArrives` are `PostBoardInbox`; `ReportArrives`,
`ReportFiled` are `PostBoardReport`; `DeleteArrives` is `GetDelete`;
`Thread...Deleted`, `Post...Deleted`, `Audited` are the statements of
`DeleteThread` and `DeletePost`; the `Merge...` actions are `MergeOutbox` with
`AsThread`.  `TurnedAway` stands for every return before anything is kept (ban,
captcha, missing board or post, foreign sender), `Refused` for an error of the
write itself.

What the data is reduced to: a post is its thread and its apid.  Which posts a
text cites is any set of the posts there are; `RepliedTo` keeps those of them
`formatPost` counts (`database.go:406-476`).  An apid says by which of the sets
it is in where its note was made and whether it opened a thread there; a thread
may still arrive as a reply to nothing here, and a reply as a thread, when an
empty `inReplyTo` comes first (`fedi/post.go:71-76`).

Two details of the code worth knowing when reading the model: a thread's row has
`thread = 0`, although the comment at `database.go:70` says "ID will be equal to
Thread"; and `MergeOutbox` takes *any* error of `FindAPID` for "not here yet"
(`fedi/net.go:276,293`), which is the disjunct `\/ MayFail` of `MergeFindsOp`
and `MergeFindsReply`.

### `Federation`

| Variable | Code |
|---|---|
| `followers` | the table `followers` |
| `rows`, `copies` | the rows of `posts_<board>` of every board, by apid: the number of the thread (`Zero` for an opening post) and whether the row is local (`Post.IsLocal`); how many rows of each note there have been.  A post's number is its note with that count, for ids are AUTOINCREMENT |
| `forms` | requests of `api.Post` that have looked up their thread |
| `outs` | goroutines started by `api.Post`, `GetDelete` and `GetAdminResend` that have not run `PostOut` or `PostDel` yet, with the post they hold |
| `sends` | the goroutines of `SendActivity`: the activity, the recipient, the attempt `try` (the code's `i` plus 1), and whether a request is out (`flying`) |
| `requests` | activities on the wire or in `PostBoardInbox` |
| `handlers` | calls of `PostBoardInbox` that have looked up the thread (Create) or the post (Delete), with the row they found |
| `deletions` | calls of `GetDelete` that have looked up their post |
| `imports` | calls of `MergeOutbox`, one thread each: the number of the opening post once it is known, the replies left to look up, the note about to be saved |
| `resends`, `fetches` | how often moderators did either |
| `written`, `deleted`, `acked`, `lost`, `once`, `again` | history: the thread a note was written in and who followed then (`due`); notes deleted at home; sends that ended with a 200, or were given up; pairs of a board and a note that something may bring there, and those that a second thing may.  Read by no guard but that a note is written once |

| Action | Code |
|---|---|
| `PostArrives`, `PostSaved` | `api.Post` (`api.go:162`, `182-200`): the thread is looked up; the post is saved and the goroutine of `PostOut` started |
| `FollowArrives` | `PostBoardInbox`, Follow: one more follower (`activitypub.go:97-106`) |
| `SendActivity` | `PostOut` or `PostDel` up to the loop that starts a goroutine per recipient (`net.go:312-399`) |
| `Attempt`, `Dropped` | one round of the retry loop up to the request; `makeActivityRequest` fails, which is permanent (`net.go:178-194`) |
| `CreateFound`, `CreateRefused`, `CreateSaved`, `SaveRefused` | `PostBoardInbox`, Create, to the first board of the audience on this instance: `AsPost` knows the thread or not (`activitypub.go:158`); `SavePost` stores the post or not (`163`); and the answer |
| `DeleteFound`, `DeleteRefused`, `DeleteDone` | `PostBoardInbox`, Delete: `FindAPID` (`activitypub.go:196`), `DeleteThread` or `DeletePost` (`216-221`), and the answer |
| `DeleteArrives`, `Deletes` | `GetDelete` (`board.go:327`, `334-365`) |
| `Resend`, `Fetch` | `GetAdminResend`; `GetAdminFetch` with `GenerateOutbox` on the other side |
| `MergeFinds`, `MergeSaves`, `MergeRefused` | `MergeOutbox`: each `FindAPID` and each `SavePost` (`net.go:276-300`) |
| `FormFails`, `DeletionFails`, `SendFails`, `RequestFails`, `DeleteFails`, `TimesOut`, `Crash` | failures, below |

A lookup and the statement that uses what it found are two steps everywhere, so a
thread can go between them and a reply be saved without it (an orphan, as the code
leaves it).  The three statements of one deletion are one step here; what happens
between those is `Board`'s subject.  The receiver's last statement and the sender's
reading of the answer are one step: an answer that is lost is `TimesOut` before the
request is handled, which leaves the request on its way and the sender free to try
again, and is indistinguishable to both sides.  Every error of a handler is a status
other than 200 (`errjson`), hence a retry; one whose record in the `auditlog` fails has
deleted all the same (`DeleteDone`, `Deletes`).

A goroutine of `PostOut` holds the number of the thread and looks it up when it
runs; a thread deleted and imported since has another number, and nothing is sent.
`SendFails` is an error of a statement of `PostOut` or `PostDel`: nobody is sent
anything.  `TransformPost` also puts cited posts of the thread into `inReplyTo`; they
are replies at the receiver too, which `AsPost` skips, so they are left out.

Covered: refused, lost, late and repeated requests, lost answers, a receiver that
cannot be looked up, statements that fail, crashes of either side, followers that join
between a post and its deletion, several followers of one instance, outboxes read
before and stored after a deletion.  Not covered: boards that come and go, foreign
senders, the filter.  Followers that leave are not covered because the code has no way
to (`DeleteFollow` has no caller).

### `Filter`

| Variable | Code |
|---|---|
| `regexps` | the table: rowid and pattern.  The key is not AUTOINCREMENT (`sqlite3_upgrade.go:111`), so a number returns once the newest row is gone |
| `compiled` | `db.regexps` |
| `last` | what `LastInsertId` returns: the last row inserted on the connection, into whatever table (`InsertElsewhere`) |
| `req` | each request of a moderator: the step left to do, with its number and pattern |
| `clean` | history: since the last start no change overlapped another, none added a listed pattern, none failed |

`AddRegexp` and `Added` are the insert and the store into the map, `AddIgnored`
the insert that `OR IGNORE` drops; `DeleteRegexp` and `Deleted` the `delete` from
the map and the statement; `Restart` is the code that opens the database.  Go ends
a process in which one goroutine writes a map while another uses it, which the map
allows at any time: that is a `Restart` too.  A `SavePostTx` whose loop coincides
with a write and is not caught has no defined outcome, and `Passes` says nothing
about it.  A pattern that does not compile is turned away before anything is stored.

Outside clean changes `Rejects` does fail: when an addition and a deletion of one
number overlap, when a deletion's statement fails, and when a listed pattern is
added again, which `filter_repeated` shows.

### `Setup`

| Variable | Code |
|---|---|
| `db` | what is committed: `PRAGMA user_version`, the rows of `boards`, which tables and columns there are, and whether the replies of old posts are in `replies_` |
| `proc` | each process that opens the database: down, in the transaction of `sqliteUpgrade` with the database as it sees it and the next upgrade, or up |
| `req` | each request of `PostBoard`: the next step and the board |
| `private`, `public` | the files `pem/<board>.private.pem` and `pem/<board>.pem`: none, created and empty, or with the key some request made |
| `cut`, `refused` | history: boards whose making was cut short, or refused because their tables are there |

`Start`, `NewDatabase`, `Upgrade`, `Commit` are `sqliteUpgrade` and the four entries
of `sqliteUpgrades`; `PostBoard` is the insert of `SaveBoard`, `CreateTables` and
`TableExists` its `CREATE TABLE`s, `CreatePrivate` to `WritePublic` the writes of
`CreatePem`, where `os.Create` truncates before anything is written.  The code has no
transaction around these.  Every process upgrades when it opens the file: the server,
and `feditext create` beside it (`cmd/feditext/main.go`), which may happen at once.

What SQLite does is taken as given: one process writes at a time, on a database
nobody else changed since it began to read (`MayWrite`), and a commit waits for
readers (`MayCommit`); who waits in vain gets an error.  Names of tables ignore case,
those of boards do not, so "b" and "B" are two boards with one table (`Table`).
A database found at the start is of any version, with boards whose making came to an end
or stopped after any of its steps (`Progress`), so that a listed board may have no
tables, or share them with one whose id differs in case.  They are taken to have been
made by the same steps as `SaveBoard` takes now, since the repository has no others.
An upgrade that meets such a board is rolled back, and the process ends: `CanUpgrade`
says when it goes through, `Upgradable` when nothing in the database can stop it (the
second upgrade writes to `replies_` only if a post cites another).  Boards are not removed
by any code.

### `Follows`

| Variable | Code |
|---|---|
| `following`, `followers` | the tables of these names (`sqlite3_upgrade.go:95-109`), of all instances |
| `req` | each request of `GetAdminFollow` or `GetAdminUnfollow`: what it asks, its step, the attempt of `SendActivity` it is at |
| `wire`, `accepts` | activities on the way to an inbox; inboxes that are sending an Accept |
| `want`, `missed` | history: what was asked for last, where one can tell; pairs of a Follow that ended without a 200 |

`Follow` and `Unfollow` are the handlers up to `SendActivity`; `Unfollow` removes the
row first, `Record` adds it last.  `SendActivity` waits for its goroutine
(`net.go:227`) and returns no error when every attempt failed, so `Sent` goes on to
`Record` either way.  `FollowArrives`, `FollowRefused`, `UndoArrives` are
`PostBoardInbox`: the follower is recorded and the Accept sent before the request is
answered, so the two instances wait for each other, and the asking side may give up
and ask again meanwhile.  `AcceptEnds` ends that sending, with its own attempts as one
step, since the follower does nothing with an Accept.  Unless `UnstableUnfollow` is
set, unfollowing sends another Follow (`generate.go:89`): the other side keeps the
follower, and the manual calls unfollowing "currently broken" (`doc/moderation.md:13`).
A look-up that fails is `Dropped`; the cache of `Finger` is left out.

### `Entry`

| Variable | Code |
|---|---|
| `bans` | the table: when the ban of an address expires.  A ban is replaced by the next (`sqlite3.go:731`); nothing else than its end lifts it |
| `pool` | the rows of `captchas` |
| `req` | each request: a post or report, a page that only asks about the ban, a page with a captcha, a moderator's ban; its step and its Go locals |
| `shown` | captchas that stand in the form of some page |
| `free`, `judged`, `most` | history: requests during which their address was not banned at some moment; who got a verdict on a captcha; the most makers at once |

`CheckPasses`, `CheckHolds`, `CheckExpired` and `Dropped` are `Banned` with its second
statement, which deletes by address what a moderator may have renewed since.  `Found`,
`NotFound` and `Spent` are `Solve`: a look and a deletion, whatever the answer.
`Picks`, `RunsOut` and `Makes` are `captcha.Fetch`, which serves a random row and makes
a batch when there is none; it looks again after that and may find everything spent
(`Rounds` bounds how often).  A session passes the ban and the captcha unasked
(`board.go:74-92`), so such requests do not appear.  The ids of captchas are random hex
numbers, taken to be never the same: here they are named by who made them.

### `Desk`

| Variable | Code |
|---|---|
| `reports`, `done` | the table `reports`, and its column `resolved` |
| `news`, `text` | the table `news`, and whose text each article carries |
| `tab` | what is on the screen of each tab of a moderator: reports and news by number, and an edit form in a tab of its own |
| `filed` | history: papers ever filed or posted |

A paper is one report or one article for ever; the number of its row is not, since
neither table has AUTOINCREMENT (`sqlite3_upgrade.go:52-76`): the number of the newest
row is handed out again.  `GetAdmin` and `News` are the two statements of the page;
`Resolve`, `DeleteNews`, `NewsUpdate` and `UpdateNews` the handlers, which take the
number from the page they were clicked on and find what has it by then.
`RemoveReports` is what `Board`'s deletions do to the table.  Fewer tabs than
moderators have are enough: an old page misleads by its own age only.

### `Sessions`

| Variable | Code |
|---|---|
| `mods` | the table `moderators`: level and password of each name |
| `tokens` | the signed tokens that were given out; none is taken back |
| `req` | each request: a login at its first or second statement, or what came with a token and still has to be done |
| `last`, `knew` | history: when a name had a level last; logins during which the password was the right one |

`PostAdminLogin`, `PasswordWrong`, `PasswordRight`, `PrivilegeGone` and `Privilege` are
the login: `PasswordCheck` and `Privilege` are two statements.  `Arrives` is what
`server.go:161-186` and `hasPriv` make of a cookie: the signature, the end and the
level it carries, and never the table.  `PostModerator` and `GetModeratorDel` change
the table later, in `Stored`; `Works` is any other handler.  `Console` is
`feditext create` and the account of the first start.  The type of a level is one byte
(`ModType`), which `PostModerator` does not check and `Console` limits: 258 entered by
an administrator is an administrator.  The key that signs tokens is in a file, so a
restart ends no session.

`GetModeratorDel` panics after the row is gone, since `c.Locals("user")` is never set
(`admin.go:402`; it is "username"): the deletion happens and its answer is an error.
In the model both are `Stored`.

### `Pages`

| Variable | Code |
|---|---|
| `posts`, `seq` | rows of `posts_<board>` with thread, bumpdate and whether made here; the last id |
| `opened` | ids that opened a thread, removed since or not: a reply that was asked for then may still be saved |
| `visit` | the page a visitor reads: its next statement, the threads listed and not yet read, what was read of the first of them, the entry shown last, the threads shown |
| `past` | history since the visit began: the threads at its start, those made or bumped, whether one was removed or moved back |

`GetBoardIndex` walks the pages from the first to the one that does not exist:
`PageExists` and `NoSuchPage` are the count in `Board`, `List` is `Threads`, and each
thread takes `Read` (`Thread` with its last replies) and `Stat`.  The catalog has no
`Read`, the outbox (`GenerateOutbox`) no `Stat`, a thread's page has one thread.
`ReadNothing` is `sql.ErrNoRows`, on which the whole page is an error.

A page is a set, not a list: `Place(t)` is 1 plus the number of threads above `t` in
`ORDER BY bumpdate DESC`, `Slice` takes the places that `LIMIT` and `OFFSET` take, and
the visitor keeps with each listed thread the place it had, by which `First` takes them
in turn.  That no two threads share a place, and that every place up to their number is
taken, is proved (`AbovePlace`, `PlaceTaken`).

The argument of `WalkComplete`: among equal bumpdates SQLite's sorter keeps the order
of the rows, so a thread that is not bumped never gets above one it was below, unless
one of these goes: its place only grows, and a page that was read is behind it only if
it was on that page.  Two things break it, and both are excused by name: a removal, and
a thread from elsewhere that is dated in the future (`fedi/post.go:22` takes any date),
whose first reply puts it back to the present.  Only the threads' bumpdates matter, so
replies have none here.

The definitions whose names begin with `Slip`, in any module, are slips of the
code that each property is known to notice; no specification uses them.

## 4. The runs

| Run | Shows | Bounds |
|---|---|---|
| `board_safety` | safety and action properties and the refinement of `Forum`, with failing statements and crashes | 3 requests, names: 1 local thread, 1 local reply, 1 remote reply |
| `federation_delivery` | `Propagated`, `NeverReturns`, `ToldEveryone` | a board and its follower, a thread and a reply, 2 attempts, failures and crashes |
| `federation_audience` | `Propagated`, `ToldEveryone` | a board, its follower, a board of the follower's instance that may follow at any moment, a thread, 1 attempt, 1 resend, failures and crashes |
| `federation_threads` | `SameThread`, `NoneStranded`, deliveries and imports end | a thread and a reply that its follower writes, 2 attempts, 1 import, failures and crashes |
| `filter_safety` | `Rejects`, `OnlyInDoubt` | 2 requests at once, 2 patterns, 3 numbers, failures and restarts |
| `filter_repeated` | `ListedReject` is violated by adding a listed pattern | 1 request at a time, 2 patterns, no failures |
| `setup_safety` | `SchemaOfVersion`, `UpgradeApplies`, `KeysMatch`, `ListedIsMade`, `KeysStay` | server and tool, databases of every version with boards made in full or in part, 2 requests, 3 boards of which 2 share tables, failures and kills |
| `follows_safety` | `AsAsked`, `FollowersKnow`, every request ends | 2 boards on 2 instances, one of which sends Undo, 2 requests, 2 attempts, failures and crashes |
| `entry_safety` | `KeptOut`, `BanKept`, `CountsOnce`, `PoolBounded` | 3 requests, 1 address, batches of 1, 2 rounds, 3 moments, failures and crashes |
| `desk_safety` | `NumbersHold`, `EditsApart`, `ActsAsSeen` | 2 tabs, 3 papers on 2 boards, 3 numbers |
| `sessions_safety` | `RightsEnd`, `LoginHonest`, `OnlyAdmins` | 3 requests, 2 names, 2 passwords, levels 1 and 2, tokens of 2 moments, 4 moments, failures and crashes |
| `pages_safety` | `TypeOK`, `WalkComplete`, `SeenOnce`, `HiddenTold`, `OutboxTrue` | 4 posts, 2 moments and one date beyond them, 2 threads to a page, 1 reply shown |

The type invariant of each module is a theorem (`TypeCorrect`), and no run repeats it but
that of `Pages`, where it says that the template never gets a thread without rows.  `AuditedIsGone` and
`GoneForGood` are theorems without a run, too, and hold when they are added to the
configuration of their module.

**Bounds of `board_*`.** `Requests` bounds how much ever happens: each runs one handler.
Three are enough for one to open a thread, one to act on it and one to get
between its statements.  The numbers handed out are bounded by the
number of requests (an import may store several), so no constraint is needed.
The names are fewer than the requests, so that an apid returns after its post
was removed and two requests carry the same note.  Names of one set are
interchangeable and the run uses that symmetry.

**Bounds of `federation_*`.** Two boards are enough for a Create, a reply, a Delete and
their repetitions to overtake each other; the third, in `federation_audience`, makes two
followers of one instance and an audience that changes.  A note is written once, so the
number of notes bounds the deliveries.  `MaxRetries` is the program's own bound (5 by
default): with two a failed attempt is followed by another, so that the loop runs a second
time and a Create may be repeated after it was taken; `federation_audience` has a resend
for that instead.  One import is enough to straddle a deletion and a delivery; several that
race with each other are in `board_safety`, whose requests are imports as well.  `Joins`
says who may follow later, `Moderators` who may delete at one time.

**Bounds of `filter_*`.** Two requests are enough for any overlap, since a request
has one step left at most.  With two patterns there are at most two rows, and three
numbers leave room for a number that was skipped, reused or never handed out.

**Bounds of `setup_*`.** Two processes are enough for an upgrade to meet another one,
and requests only run in the server.  Three ids are the fewest of which two share
tables and one has its own; requests are used again, so that a board may be saved any
number of times.  `Latest` is the code's number of upgrades.

**Bounds of `follows_safety`.** A request is made once, so two requests are a Follow or
unfollow that overlaps or follows another, of one pair or of both directions.  A board
may follow itself, which the code does not forbid.  With two attempts a late answer
to the first can meet the second.

**Bounds of `entry_safety`.** Three requests are two that overlap in `Banned`, `Solve` or
`Fetch` and one that made what they look at, or renews the ban between them.  The check
of an address touches no other, so one is enough; three moments are before, at and after
a ban's end.

**Bounds of `desk_safety`.** Three papers are the fewest with which a number is handed out
again while another row stays, and the same paper may become a report or news.  `MaxNumber`
is as many, since each paper is filed once.

**Bounds of `sessions_safety`.** A request is made once: two logins, or one and a change of
its row between its statements, or a session, the removal of its name and a use of it.
With `Life` 2 in four moments a token ages, ends, and one given later does not.  258 is
the number that makes an administrator of a byte.

**Bounds of `pages_safety`.** Four posts are two pages of two threads, or three threads of
which one is bumped between the pages, or a thread with one reply more than is shown and
one that is made meanwhile.  One visitor is enough, because reading changes nothing; the
visit may begin in any state of the board and again after it ended.

**Deadlock** is checked in all of them: in `Board`, `Federation`, `Follows`, `Entry` and
`Sessions` `Rest` is the one state to stop in, when every request, or everything that is
under way, has ended; `Filter`, `Setup`, `Desk` and `Pages` never stop.

**Fairness** in `Federation` is
`WF_vars(Progress)`: while a goroutine can go on or a request is with an
instance, something goes on, which the Go scheduler provides; no order among them is
assumed, nothing makes anybody post or moderate, and nothing makes a step fail.
`DeliveriesEnd` is checked with failures and two attempts, because failures are what
retries repeat.  In `Follows` it is
`WF_vars(Continue(r))`: what a request waits for is ended by its inbox, or by the
context's timeout (`net.go:187`), and no inbox waits for the request in turn.
The other modules assume none: nobody has to click, and what is asked of them is safety.

**Finding** (`PROJECT.json`, with the sentence it contradicts): adding a listed pattern
again puts another one out of force (`filter_repeated`).

What else the models show, without a run of its own.  Those that quote a comment, a page
or the manual contradict it, and are seen by changing a configuration as told:

* "It will also delete all posts and reports" (`sqlite3.go:1041`): a reply saved
  after its thread's deletion stays, as does a report filed during it.  With
  `MayFail = FALSE` and the invariant `DeletedThreadIsEmpty`, `board_safety.cfg` finds
  it.  What holds, and is proved, is that nothing else stays: `StrayReportsLate`,
  `NoneLeftBehind`, and `NoneStranded` of `Federation`.
* "This delete will be reflected on other instances that follow us"
  (`views/admin/delete.html:14`): a Create whose answer was late is repeated, and when the
  Delete comes between the two copies the second brings the post back, although the board
  acknowledged the Delete.  The invariant `DeleteReflected` in `federation_delivery.cfg`
  finds it.  An outbox fetched before a Delete does the same, which the page admits for
  posts of other instances.  `NeverReturns` says that there is no other way, and
  `ToldEveryone` leaves out the posts that came twice.
* "Tell everyone else if it's local" (`routes/board.go:358`): a reply goes to the board
  that owns its thread too, its Delete to followers only.  The invariant `EveryoneTold`
  in `federation_threads.cfg` with `MayFail = FALSE` and `Moderators <- OneEach` finds it.
* Of two boards of one instance that follow the same board only the one listed first gets
  the posts (`activitypub.go:139`), so `Propagated` speaks of the instance, as the sentence
  of `views/faq.html` does that it states; with `b = f` for `Host[b] = Host[f]` it
  fails in `federation_audience`.
* "Do *NOT* make assumptions when writing a schema upgrade function"
  (`sqlite3_upgrade.go:164`): a board whose making was cut short, or that shares its
  tables, stops the upgrade at `ALTER TABLE` (222) each time the program starts.  The
  invariant `UpgradeCanBeDone` in `setup_safety.cfg` finds it; `UpgradeApplies` says that
  nothing else does.
* "You can update boards and moderators by simply putting their ID/username into" the
  form (`doc/moderation.md:21`): saving a board again ends in an error although it was
  updated, and a board whose making was cut short cannot be completed: `SavingSucceeds`
  in `setup_safety.cfg`, also with `MayFail = FALSE` and a single board (`PlainTable`).
* An administrator who was removed can make himself an administrator again while his
  session lasts: in `Sessions` nothing but `Valid` and the level of the token guards
  `PostModerator`.  `RightsEnd` says for how long.
* On a page whose newest report or article is gone, any number may be another's:
  without the exception `ActsAsSeen` fails, and so does `EditsApart` without its second
  half, when an edit is sent after its article went.
* Two posts can spend one captcha, when both look before either deletes: `CountsOnce`
  speaks of those that look after a verdict.
* A ban that is renewed between the two statements of `Banned` is dropped with the old
  one: `BanKept` names that case and there is no other.
* A reply that is saved after its thread was deleted, but before the outbox gets to that
  thread, lets the outbox announce the thread from its list, without that first reply;
  `OutboxTrue` speaks of the threads that stand.
* A page is an error (`sql.ErrNoRows`) only if a thread that it lists was removed after
  the list was read; the invariant of that would restate `ReadNothing`.
* Following the link ">>" instead of asking for every page misses the last page if it
  came into being between the count and the list; `WalkComplete` is about the walk that
  ends with the page that does not exist.
* A deletion cut short has no record and cannot be repeated; `RemovalAccounted` says
  that this is the only way to have none.
* An imported thread whose opening post is already here as a reply hangs its replies
  below that reply: with `RepliesInOutbox = TRUE` in `board_safety.cfg`, `ThreadsFlat`
  fails.
* A board stays listed as followed when the Follow was never answered: without `missed`
  `FollowersKnow` fails.  An unfollow that overlaps a Follow still being retried is
  undone by its `Record`: without "unknown" `AsAsked` fails.

## 5. The proofs

`BoardProofs` proves, for any number of requests and any names, with failures
and crashes:

| Theorem | Says |
|---|---|
| `TypeCorrect` | `TypeOK` |
| `LinksInThreadHolds` | backlinks stay in their thread and point back |
| `NeverBackHolds` | a removed number stays removed, a number keeps its meaning |
| `AuditedIsGoneHolds`, `RemovalAccountedHolds` | the log and the table agree |
| `StrayReportsLateHolds` | a report outlives its post only if it was filed after the post was gone, or after the deletion had dropped the reports |
| `ThreadsFlatHolds`, `NoneLeftBehindHolds` | threads are one level deep; no deletion strands a reply; both when `~RepliesInOutbox` |
| `Refinement` | `Spec => ReadersSeeForum` |

The assumptions are `BoardAssumption` (the empty apid is no apid, thread and
reply names are apart) and, where stated, `~RepliesInOutbox`: remote outboxes
list threads at the top level, as feditext's own does (`fedi/generate.go:25`).
Section 4 tells how to see that the condition is needed.

The argument.  None of the properties is inductive alone, because what a step
stores depends on locals read earlier.

* `Inv1` is `TypeOK` with `LocalsOK`: past its lookup a request holds a number
  that was handed out, or a name.  It carries everything else.
* `Inv2` adds `DeletionOK`: a request inside `DeleteThread` holds an opening
  post, one inside `DeletePost` a reply, and before `audit` the post is already
  gone.  It gives `AuditedIsGone` and `RemovalAccounted`.
* `StrayReportsLate` needs the moments in between: a report that is not late belongs to a
  post that stands and is not `Doomed` (`DoomedLate`), where a post is doomed from the
  statement that drops its reports to the one that removes it.
* `Inv3` adds, under `~RepliesInOutbox`, `ThreadsFlat`, `TopRows` (a row with a
  thread's name is an opening post) and `AimsAt` (whatever a request will save
  into is 0 or was an opening post).  A stale number is harmless because rows
  never change and numbers are not handed out again: that is why `NextId`
  matters, and the mutant that reuses ids breaks it.
* `Inv4` adds that a row's thread is 0 or a number handed out, from which each
  step maps to a step of `Forum` or to none: `SaveRefines`,
  `ThreadRemovalRefines`, `PostRemovalRefines`.

`FederationProofs` proves, for any boards, followers, instances and notes, any
number of attempts, resends and imports, whatever fails and whenever an instance
dies:

| Theorem | Says |
|---|---|
| `TypeCorrect` | `TypeOK`; in particular no delivery is attempted more than `MaxRetries` times |
| `SameThreadHolds` | every copy of a note stands in the thread it was written in |
| `NoneStrandedHolds` | no deletion leaves a reply behind whose thread stood until then |
| `PropagatedHolds` | when nothing is under way, a post that is shown at home has come to the instance of every board that followed when it was saved, or was given up |
| `ToldEveryoneHolds` | when nothing is under way, a board that was due a post does not have it after its home deleted it, unless it was told in vain or the post came to it twice |
| `NeverReturnsHolds` | a board gets a note a second time only if there was a second way for it to come |

from `FederationAssumption` alone (notes of threads and of replies are apart, each has
a home board, at least one attempt).  There are no further hypotheses: failures,
retries, resends, imports, joining followers and several boards of one instance are in
all six.

`SameThread` is not inductive: a row is made from an activity that may have been under way
for long, from an outbox read long ago, or by a request that looked its thread up before
the thread was deleted.  `Inv` therefore says of everything under way that what it will
save, and the number it will save it under, are those of the thread the note was written
in (`Filed`, `Opens`): `FormsOK`, `OutsOK`, `SendsOK`, `RequestsOK`, `HandlersOK`,
`DeletionsOK`, `ImportsOK`.  `WrittenOK` says that threads are exactly the notes written
in no thread, which turns "found as an opening post here" into "written as one".
`SendsOK` also says that a goroutine between attempts has one left, from which
`try <= MaxRetries` follows.

`NoneStranded` looks at each step that changes rows: an insertion orphans none that stood,
and a removal of a thread takes with it all the rows that name its number, while
that of a reply removes no number anybody names, by `Inv`.

`NumbersOK` says that a number known anywhere was handed out (`Known`), so that a thread
that is gone does not stand again when a new row gets its number.  It is what `Shown`
needs: a post shown now was shown before (`ShownBefore`), hence its goroutine found the
thread and did send.

Who is told is `Inv2`.  From the moment a note is saved, for each board that followed, its
Create is `Afoot` (in `outs`, in `sends` to that board, or lost), or came to the
instance, or the post is not shown (`CreatesTold`); likewise for Deletes,
whose outcome is that the post went, or came a second time (`DeletesTold`).  Followers are
never removed (`DueOK`), so the audience of a Delete has everybody who was due.  When
nothing is under way `Afoot` leaves `lost` only, which is `Propagated` and `ToldEveryone`.

What comes twice is `WaysOK`: for a board and a note with no second way (`again`), at most
one thing could still bring it (`AtMostOne`: a goroutine with the request it waits for or
the handler of that, a request nobody waits for, or an import), and none once it has come (`Nothing`).  Each step is shown to keep that for
one pair at a time (`WayOK`).

`SetupProofs` proves, for any number of processes, requests and boards, whatever
fails and whoever is killed, from `SetupAssumption`:

| Theorem | Says |
|---|---|
| `TypeCorrect` | `TypeOK` |
| `SchemaOfVersionHolds` | the database is that of its version |
| `UpgradeAppliesHolds` | every upgrade finds what it expects, unless a listed board was cut short, now or before, or refused |
| `KeysMatchHolds`, `KeysStayHolds` | the two files of a board hold one key, which never changes |
| `ListedIsMadeHolds` | a listed board has tables and keys, or was cut short or refused |

`Inv1` says what a database of a version looks like (`WellMade`) and what a
transaction holds (`Prepared`): what the upgrades before the next one make of the
committed database, which cannot have been upgraded meanwhile, because a commit waits
for readers.  That is why upgrades of two processes do not add up, and why an open
transaction and a request never meet (`ServingAlone`).  `Inv2` adds `MakingOK`: a
request that got past `CREATE TABLE` is the only one for its tables and no key belongs
to them but its own.  So the truncation by `os.Create` never hits a key in use, and it
is `CREATE TABLE`, not the files, that keeps keys: the mutant with `IF NOT EXISTS`
breaks both `KeysMatch` and `KeysStay`.  `UpgradeApplies` rests on `Quiet`: while the
server does not serve no request is being worked on, so by `ListedIsMade` each board that
an upgrade meets is complete, with tables of its own, or was cut short or refused.

`FollowsProofs` proves, for any boards, instances, requests and attempts, with
failures and crashes, from `FollowsAssumption`:

| Theorem | Says |
|---|---|
| `TypeCorrect` | `TypeOK` |
| `FollowersKnowHolds` | who is listed as followed knows the follower, unless the Follow never got its 200 |
| `AsAskedHolds` | what is listed is what was asked for last, where that is certain |

`Inv2` follows the 200 back: an inbox that is sending an Accept has the follower, an
answer comes from such an inbox only, and followers are never removed.  `Inv3` says of
each pair whose `want` is certain that at most one request is at work on it, that this
request asks for `want`, and that the list is right as soon as it is done, and from the
start if it is to unfollow, since the row goes first.  Steps in between are `Moves` of
one request, which `StaysCertain` covers at once.

`EntryProofs` proves, for any requests, addresses and length of the clock, any size of
a batch and any number of rounds, with failures and crashes, from `EntryAssumption`:

| Theorem | Says |
|---|---|
| `TypeCorrect` | `TypeOK` |
| `KeptOutHolds`, `BanKeptHolds` | who is banned throughout stays out; a ban in force goes only in the race with its renewal |
| `CountsOnceHolds` (from `OneGuessHolds`, `FirstAnswerCountsHolds`) | no second guess after a verdict, and no captcha gone without one |
| `PoolBoundedHolds` | at most one batch for each visitor that made one at the same time |

`Inv1` is the type with what each step holds (`LocalsOK`: the ban to be dropped had
expired).  `Inv2` adds `Free`: a request is known to have been free to enter from the
first moment it was, which the clock and every change of a ban keep.  `Inv3` says that a
captcha that was made (`Made`, by round and count of its maker) is in the table exactly
until it is judged.  `Inv4` counts batches: those with a row left, together with those
being made, are never more than `most`, since a visitor begins to make some only when the
table is empty.  `PoolBounded` is that and the size of a product.

`DeskProofs` proves, for any papers, boards, tabs and length of the tables, from
`DeskAssumption`:

| Theorem | Says |
|---|---|
| `TypeCorrect` | `TypeOK` |
| `NumbersHoldAlways` | as long as the newest row of a page stands, each of its numbers means what the page says, or nothing |
| `EditsApartHolds` | an article carries the text of another only when that other is gone |
| `ActsAsSeenHolds` | a click hits what was on the page, with that exception |
| `GoneForGoodHolds` | what was removed does not come back |

One invariant carries them: a table holds a paper once (`Once`), pages and forms know
only papers that were filed (`Known`), a form holds the text of the article with its
number if anybody's (`FormOK`).  A new row takes the number after the newest, hence none
of a page whose newest row stands (`OneMoreRow`).

It also proves `FilterTypeCorrect`, `RejectsHolds` and `OnlyInDoubtHolds` about `Filter`,
for any number of moderators, patterns and rows, from `FilterAssumption`.  `Rejects` speaks
of the moments when nothing is under way, so the invariant `InStep` says what holds
in between: while changes are clean at most one is under way, and the map is the
table without that change's number (`Drop(regexps, id)`), whichever half is done.
A new number is not in the table, which is why the map needs no change when its row
appears, and `PutBack` closes the gap when the pattern is stored.

`SessionsProofs` proves, for any requests, names, passwords and levels, life of a token and
length of the clock, with failures and crashes, from `SessionsAssumption`:

| Theorem | Says |
|---|---|
| `TypeCorrect` | `TypeOK` |
| `RightsEndHolds` | rights end at most one life of a token after they were taken away |
| `LoginHonestHolds` | who gets a token knew the password at some moment of the login |
| `OnlyAdminsHolds` | the table of moderators changes by administrators, and by the console, only |

A token outlives the level it carries by less than `Life` (`TokenOK`, from `last`);
whoever has the right password while logging in is noted at once (`KnewOK`).

`PagesProofs` proves, for any number of posts, any clock, any dates of threads from
elsewhere, pages of any length and any number of replies shown, from `PagesAssumption`:

| Theorem | Says |
|---|---|
| `TypeCorrect` | `TypeOK`; the index never gets a thread without rows |
| `WalkCompleteHolds` | who walks the index misses no thread that stayed where it was, with the exceptions of `past` |
| `SeenOnceHolds` | a thread is shown again only if another one was put above it, or one came back from the future |
| `HiddenToldHolds` | an entry that leaves out posts counts more than it shows, unless one that it shows is gone |
| `OutboxTrueHolds` | the outbox has every local thread, with all its replies and no opening post among them |

The invariant has a bound in it: the places that the pages listed so far end at
(`Bound`).  `AheadOK` says that a thread that stays put was seen, is listed, or stands
beyond that bound; `BehindOK` that one that was listed stands before it unless another
one was moved.  Both follow for what happens meanwhile from two lemmas about places:
without a removal and without a way back from the future the set of threads above one
that stays put only grows (`StayPutMovesDown`), and when a thread is the only one that
moves, the set above it only shrinks (`AloneMovesUp`).  The walk ends in one of two
ways.  `NoSuchPage` is the arithmetic of rounding up (`Division`).  An empty list needs
that no place is left out: if a thread stood behind an empty page, the place at the
front of that page would be taken (`PlaceTaken`, from the injection of a finite set into
one of its size being a surjection).  For `HiddenTold`, what was read of a thread is of
that thread as long as it stands (`ReadOK`), so one post left out makes the count
larger.  For `OutboxTrue`, replies are younger than their thread (`BoardOK`), so the row
that `GenerateOutbox` takes off is the opening post, while it stands.  What changes the
board is one lemma for each action (`ChangeStep`) and one for all that they have in
common (`BoardStepKeeps`).

Only model-checked: liveness (`RequestsEnd` of `Follows`, `DeliveriesEnd`), which is out of the prover's reach here, and `ListedReject`, which the
code does not keep.  Every invariant and action property of the passing runs is a
theorem.

## 6. What is not modelled

Bodies, names, tripcodes and HTML, and dates other than a thread's bumpdate; the
signature check of `CheckHeaders`; JSON and its coercions (`fedi/structs.go`);
configuration, the command line apart from `feditext create`, logging, profiling,
captcha images, the proxy, templates and stylesheets.

* `Finger` and its cache.  The race of deliveries on the map (`fedi/net.go:105`) ends in
  a dead process or in nothing, which the crashes of `Federation` and `Follows` contain;
  and an entry is never dropped, which nothing in the code corrects.  In those models a
  look-up succeeds or fails.
* Pages of one statement: the public list of the `auditlog`, the latest posts with their
  `If-Modified-Since`.  They read once.  (For the outbox of a board
  without threads `activitypub.go:265` indexes an empty list, and the request ends in a
  recovered panic.)
* `SavePostTx`'s branch for a post that has an id already, `DeleteFollow` and `AddReply`
  on its own have no caller.
* `replies_<board>` keeps the links of removed posts, because the connection does not
  turn foreign keys on; readers are shown only posts that are there, so no property
  speaks of it.
* An unfollow that overlaps a Follow still being retried has no right outcome in the
  code; `AsAsked` leaves it out by name.

`PROJECT.json` has the status of each part.
