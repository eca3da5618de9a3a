# Verification of the face attendance service

TLA+ models of the parts of this repository whose correctness depends on the
order in which things happen, the TLC runs that check them on small instances,
and theorems about them that TLAPS checks for every value of the constants.

## 1. Inventory

The service is one FastAPI process on one asyncio event loop (the Dockerfile
starts a single uvicorn worker), with a thread pool for inference, a MongoDB
server, one outbound WebSocket to an ERP and any number of inbound camera
WebSockets. Between two `await`s nothing else on the loop runs; that is the
grain of every action in the models.

| Component | State it keeps | Operations | Talks to |
|---|---|---|---|
| ERP bridge, `app/services/erp_bridge.py` | queue (bounded deque), wake-up event, connected flag, dropped count, connection task and its two child tasks | `start`, `stop`, `publish`, `_run`, `_pump`, `_send_loop`, `_receive_loop` | streams publish to it; the ERP may order a `FaceIndex.refresh()` |
| Face index, `app/services/face_index.py` | snapshot, loaded flag, lock | `invalidate`, `ensure_loaded`, `refresh`, `search`, `identify` | reads `face_registry`; invalidated by enrolment and deletion; read by streams and `/search` |
| Tracker and cooldown registry, same file | per connection: current identity and streak; per process: last claim of each user | `observe`, `reset`, `claim` | called by streams |
| Identification stream, `app/routers/stream.py` | one-slot mailbox, two events, reader task, frame counter | accept, read, identify, check liveness, publish, log, reply, close | index, tracker, bridge, `verification_logs` |
| Video challenges, `app/routers/face.py`, `app/services/video_liveness.py` | `face_challenges` documents with a TTL index | create, claim, look up, expire, analyse | MongoDB, liveness model |
| Face registry, `app/routers/face.py`, `scripts/reembed_registry.py` | `face_registry` documents, GridFS images | enrol, delete, list, re-embed | invalidates the index (not from the script) |
| Admin sessions, `app/services/admin_auth.py` | `admins`, `admin_sessions` | bootstrap, login, logout, resolve a session | MongoDB |
| Video analysis, `app/services/video_liveness.py` | locals of one analysis | decode, sample, score, judge | called by the challenge endpoint |
| Verification log and its reports, `app/routers/face.py`, `app/routers/stream.py`, `app/routers/admin.py` | `verification_logs` | log a verdict, page through the history, read the totals | written by verifications and streams, read by the admin page |
| Endpoints that judge a photo, `app/routers/face.py`, `app/services/liveness.py`, `app/services/face_quality.py` | one document, read once | enrol, `verify_employee`, `verify_employee_secure` | `face_registry`, liveness model; write `verification_logs` |
| Networks, health, configuration, benchmarks, pages | none of their own | stateless computation, reads | |

What is hard here, and where:

* **Interleavings on the event loop**: a mailbox shared by two tasks through an
  `asyncio.Event` that is cleared after the wait; an event shared by the senders
  of two connections; a refresh that reads a collection while writers change it.
* **Failure in the middle**: a send that raises after the peer got the frame; a
  write that took effect and raised; a scan that is cancelled; liveness that
  cancels a commit after the cooldown was claimed; a model that cannot be loaded
  after a challenge was consumed.
* **Limits**: the full deque while its head is being sent; the prune of the
  cooldown registry; the boundary of the cooldown and of the challenge's TTL.
* **Lifecycles**: `stop()` interrupts `asyncio.wait()`, which does not cancel
  what it waits for; a disconnect that races a frame already in the mailbox; a
  restart that forgets the queue and the cooldowns; service and script that
  change the model pack at different times.
* **Decisions**: ties, margins and lone candidates in a snapshot that may be
  incomplete or hold an employee twice; the many ways liveness can be unavailable.

PROJECT.json lists each hazard at its line with the properties that watch it.

## 2. Modules

| Module | Models | Extends or instantiates |
|---|---|---|
| `Outbox` | abstract: a bounded outbox that empties in order | |
| `ErpBridge` | the bridge, its tasks, connections and restarts | instantiates `Outbox` |
| `ErpBridgeProofs` | theorems about the bridge, with the refinement | `ErpBridge` |
| `FaceIndex` | the cache, its refreshes and the writes under it | |
| `Recognition` | whom the cached registry names, and what a search returns | `FaceIndex` |
| `RecognitionProofs` | theorems about the cache, the decision and the search | `Recognition` |
| `Stream` | camera connections, tracker, cooldown registry | |
| `AttendanceLedger` | abstract: what the service promises about attendance events | |
| `Attendance` | cameras, bridge and restarts of the process composed | `Stream`, instantiates `Outbox` and `AttendanceLedger` |
| `AttendanceProofs` | theorems about the streams, then about the composition, with its refinement | `Attendance` |
| `VideoChallenge` | one-time challenges and racing submissions | |
| `VideoChallengeProofs` | theorems about challenges | `VideoChallenge` |
| `Enrollment` | one employee's document and images, registrations, the re-embedding script | |
| `Verification` | what the three endpoints say of a photo | `Enrollment` |
| `EnrollmentProofs` | theorems about the document, its images and the endpoints | `Verification` |
| `AdminSession` | the admin account, its bootstrap, sessions and requests | |
| `AdminSessionProofs` | theorems about sessions and the account | `AdminSession` |
| `VideoLiveness` | one video analysis: sampling, scores, verdict | |
| `VideoLivenessProofs` | theorems about the verdict | `VideoLiveness` |
| `AttendanceLogs` | the log of verdicts, and who pages through it | |
| `AttendanceLogsProofs` | theorems about the history and the totals | `AttendanceLogs` |
| `MC...` | constants and symmetry for TLC | the module after `MC` |

In every module a definition whose name begins with `Wrong` is a plausible bug in
the definition that follows it. No action uses it: it is there so that each
property can be shown to fail when the code is wrong in that way.

### ErpBridge

`queue`, `wakeup`, `connected` and `delay` are the attributes and the local of the
same name; `run` is where `_run` is: `connecting` in `websockets.connect`,
`pumping` in `asyncio.wait`, `sleeping` in the backoff, `closing` while a
cancelled pump leaves the `async with`, `off` without a task. Each connection `c`
has a `sock`, a `sender`, a `receiver` and the sender's local `event[c]`. Events
are numbered, which keeps the identity that `is` compares. `sent` and `acked` are history
variables: every send that began, with its connection, and the events of which a send has
returned. A send that raises may have reached the ERP all the same; it is in `sent` and its
event is sent again.

| Action | Code |
|---|---|
| `Publish` | `publish()`; the drop of the full deque is part of it |
| `SendBegin`, `SendRefused`, `SendOk`, `SendFail`, `SendIdle` | the pieces of `_send_loop` between its awaits |
| `Receive`, `RefreshEnd`, `ReceiverEnd` | `_receive_loop`; messages are classes, one of which is an object whose command cannot be hashed |
| `ConnectOk`, `ConnectFail`, `PumpEnd`, `BackoffEnd` | the iterations of `_run` |
| `Start`, `StopIdle`, `StopPumping`, `StopDone` | `start()` and `stop()`, the latter split where the cancelled task awaits |
| `SocketBreak`, `ErpSends` | the ERP and the network |

After `StopPumping` the sender and receiver of the connection are not cancelled;
the model keeps them running, next to those of a later connection.

Abstracted: the jitter of the sleep, the URL, headers and payload (with a `json.dumps`
that raises: the only caller, `publish_identification`, builds a serialisable dict), and the
difference between a connection that raises and one that returns (both lead to
the backoff). The bridge is modelled as configured: without `ERP_WS_URL` nothing
starts and `publish()` returns at once. Closing a socket is one step: the code
awaits the closing handshake, during which nothing reads the queue.

### FaceIndex

`registry` is the collection, `snapshot`, `loaded` and `lock` the attributes of
the singleton, and `got` the locals of a running `refresh()`. Embeddings are
numbered by the write that set them, so a stale entry is an older number.

A write to MongoDB is two actions: it takes effect (`EnrolApply`, `DeleteApply`),
then its coroutine resumes and invalidates (`Announce`), or never does
(`WriteRaises`: the reply is lost or the request cancelled). `Reembed` is the
script, in another process. A refresh is `ScanBegin`, one `ScanRead` per
document, and `ScanEnd` or `ScanFail`; `CursorDone` says what MongoDB promises of
a cursor under writes: documents that were there from the beginning to the end are
returned, others may be. `missed` is a history variable: the users whose change
the snapshot may lack although the index counts as loaded, and why.

Left out: entries that a refresh skips because they are malformed, and the case of
an unconfigured database.

### Recognition

Scoring awaits nothing, so its answer is a function of the snapshot and the probe.
The module adds no variable to `FaceIndex`: it defines the answers as operators, and
its properties quantify over every probe and every ranking in every reachable state
of the cache, in the middle of refreshes and after missed invalidations. A probe is
a function from embeddings to integer scores. `Top` is the set of rankings that
`argpartition` and `argsort` may return (`Ranks` says what makes one), `Status` and
`Identify` are the decision on the top two, `Matches` the list of `/search`: its n-th
member is the n-th entry that reaches the threshold. `NamesExactlyTheClear` relates the
answer, computed from the snapshot, to the registry as it is now; `Settled` says of whom
the snapshot cannot know better.

Left out: scores that are not numbers (see the findings), and the same call from
`Stream`, which sees its outcome only.

### Stream

Each connection has `pc` for the main loop and `reader` for the reader task, and
`slot`, `arrived`, `closed`, `current`, `streak` as in the code; `seen` is the
cooldown registry. `frame` is the number of the received frame in hand. What a
frame shows is an outcome the environment chooses: a user, a refusal to name one
(`unknown`, `ambiguous`), or nothing to judge (`no_face`, `low_quality`,
`empty_registry`), which are the three ways the main loop treats it.

| Action | Code |
|---|---|
| `Open`, `Refuse`, `Opened`, `OpenFails` | the checks, the accept and the first `ensure_loaded()` |
| `ReaderReceive`, `ReaderEnd` | `reader()` |
| `WakeEmpty`, `Take` | from `arrived.wait()` to the decoded frame or its error reply |
| `StartInference` | `ensure_loaded()` and the hand-over to the executor |
| `JudgeUnseen`, `JudgeDeclined`, `JudgeNotCommitted`, `JudgeCommitted` | the outcome, `tracker.observe()` and `claim()`; for an embedding also `publish_identification()`, which follows without an await |
| `Spoof`, `NotSpoof` | the liveness check returns |
| `Log`, `ReplyOk`, `MainFails`, `Close` | the log row, the reply, any exception, the `finally` |

A frame that carries neither bytes nor text does not exist in ASGI and is left
out. `ReplyOk` cannot happen once the reader has seen the disconnect: the ASGI
server raises for a send on a socket it knows to be gone. `StreamEnds` depends on
this, because taking a frame clears the event that also announced the
disconnect.

### Attendance

The composition: `Stream` as it is, and of the bridge only what `publish()` and its
sender do to the queue, i.e. `Outbox`, which `ErpBridge` is proved to implement.

| Action | Code |
|---|---|
| `StreamStep` | any step of `Stream`; when it publishes, `publish_identification()` and `publish()` are part of it |
| `Send` | a send of the bridge begins, again if the last one raised (`BeginSend`), or returns: with its event at the head, which is popped (`HandOver`), or evicted meanwhile (`LateAcceptance`) |
| `Restart` | the process ends and another starts: `lifespan`, `stop()`; queue, cooldown registry, sockets and tasks are gone, what the ERP has been sent and the machine's monotonic clock are not |

`events` is a history variable: the claim and the process each event was made of; `sends`
holds the event of every send that has begun, in their order, and `handed` the events of
which a send has returned. The abstract specification `AttendanceLedger` has four steps: a
process records an event at least `Cooldown` from that employee's other events of the same
process; a send begins, of an event of the running process that is not older than any event
sent before and of which no send has returned; a send returns; a new process starts. This is
not delivery at most once: an event whose send raised is sent again
(`erp_bridge.py:178-182`), which is a step of the ledger, so the ERP may see it several
times in a row. What the ledger rules out is that an event is sent after a newer one, after
one of its sends has returned, or by another process.
`ImplementsLedger` is the refinement; the ledger's time is that of the claim.

### VideoChallenge

`status` and `expires` are the documents of `face_challenges`; every request has a
`pc`. `Claim` is the effect of `find_one_and_update`, `CheckExpiry` what follows
its return. `Reap` is the TTL monitor, which may delete a document at any time
after it expired. `Analyse` is the whole analysis, with the outcomes it has.
`TzAware` says whether the MongoDB client returns aware datetimes and
`ModelPresent` whether the model file is there; the run that shows what holds sets
both, and another shows what happens with the client of `app/database.py`, which
does not ask for aware datetimes.

### Enrollment

`doc` and `files` are the employee's document in `face_registry` and her images in
GridFS; the document is a record of which images its embedding averages, which
model pack computed it and which one it names. `todo` and `stored` are the locals
of `_store_enrollment_images`, `pending` and `rebuilt` those of the script.

| Action | Code |
|---|---|
| `Begin` | the checks of every image; a registration that fails one changes nothing and is not a step |
| `List`, `Clear`, `ClearTwice`, `Upload`, `ImagesFail` | the GridFS calls; any exception leads to the upsert without images |
| `Upsert`, `UpsertFails`, `ReadBack`, `ReadBackFails` | the registry calls of `_store_templates` |
| `Delete` | `delete_registration` |
| `Restart` | the service dies in the middle of whatever runs, and comes back with another model |
| `ScriptPass` | the script finds her document up to date |
| `ScriptBegin`, `ScriptList`, `ScriptRead`, `ScriptDies`, `ScriptWrite` | the script rebuilds her embedding |

Two behaviours of GridFS are taken from its use here: `find` delivers the images of
one employee in one batch, and `delete` raises for a file that is gone. `solo`,
`dirty`, `calm` and `tainted` are history variables: they record the disturbances
after which images, document and embedding may disagree, so that the properties
can say that there are no others, and that one undisturbed registration ends them.
`switched` records that the script dealt with her when the service ran the new model.

### Verification

A verification reads the document once and then decides without awaiting anything but
the upload, so it is an operator over one document, one photo and the model of the
process, not an action. `Photo` holds what the networks and the image arithmetic find:
the number of faces, the quality checks it fails, whether liveness can crop the face,
and its score. `Enrol`, `Plain` and `Secure` are the three endpoints with their checks
in the code's order, `Passive` is `LivenessService` with everything that makes it
unavailable. `EndpointsAgree` compares the three in every state of `Enrollment`, so its
last part is also about which model pack a document was made with.

### AdminSession

One account, any number of processes that bootstrap it, tokens and requests.
`boot`, `login` and `pc` say where each process, login and request is; `session`
and `expires` are the documents of `admin_sessions`. A token is drawn once, so it
names its session. `Toggle` is an operator who edits `active`, which no endpoint
does. Password hashing is the outcome of a login; a login, logout or bootstrap whose
database call raises leaves what that call may have done.

### VideoLiveness

`decoded`, `motion` and `passive` are the locals `decoded`, `motion_values` and
`passive_scores`; `outcome` is the reason code, or where the loop is. Each action is
one turn of the loop: `Skip`, `Sample`, `RefuseFrame`, `TooLong`, or `Judge` when the
video ends. The scores are operators over sequences of integers: degrees, and
percentages for ratios and passive scores, so that no comparison is rounded.
`ScoreTurn` and `ScoreBlink` follow the code (the first peak, the first closed
frame); `Turned` and `Blinked` say the same declaratively, and `VerdictIsRight`
compares them. The outcomes are those of `Analyse` in `VideoChallenge`.

Left out: how a yaw or an eye aspect ratio comes from landmarks, values that are not
finite, and `liveness_score`, which for a verified video is the passive score,
because the motion score is then 1.

### AttendanceLogs

`rows` is the collection, `draft` the row each `insert_one` carries, `reader` and
`page` the administrator's request. `Log` is the end of a verdict (`verify_employee`,
or a stream's commit), which takes the timestamp; `Insert` is the effect of the write.
`Count` and `Find` are the two queries of the plain form, `Aggregate` the single one of
the form with calendar filters; `Pages` says what sort, skip and limit may return,
rows with equal timestamps in any order. `filter` holds the query parameters of the
walk: `InDates` are the dates, which are days of UTC, `InCalendar` the day and hours,
which are local, +07:00. `BeginStats` and `CountStat` are the four counts of the totals.
A filter by user, month or year selects rows the way the others do and is left out.

## 3. Runs

| Run | Instance | Shows |
|---|---|---|
| `erp` | 3 connections, 3 events, queue of 2, backoff 1 to 3 | events are not lost, and not repeated or reordered beyond what `Outbox` allows; every event is settled; a broken bridge reconnects |
| `index` | 2 users, 2 readers, 1 writer and the script, 3 writes, 1 failure; scores 0 to 2, threshold 1, margin 1 | staleness has two causes only; no refresh goes back in time; the lock is always released; who is clear is named and nobody else; a search returns the best |
| `index_invalidate` | 1 user, 1 reader, 1 writer | **violation**, finding 1 |
| `stream_one` | 1 camera, 2 users, 4 frames, streak of 2 | commits are confirmed; frames vote once; no lost wake-up; streams end; frames are served |
| `attendance` | 2 cameras, 2 users, a frame each per process, streak of 1, cooldown 1, a prune at every claim, queue of 1, 2 sends of an event, 1 restart | cooldown across cameras and prunes; one event or a cancellation per claim; the system implements `AttendanceLedger` |
| `stream_inarow` | 1 camera, 1 user | **violation**, finding 2 |
| `challenge` | 2 challenges, 3 submissions, TTL 1, clock to 2, 1 failure | single use, truthful refusals, verdicts in time |
| `challenge_naive` | `TzAware = FALSE` | **violation**, finding 3 |
| `enrollment` | 3 registrations, 1 deletion, 2 failing calls, 1 restart, 2 runs of the script; every photo with up to 2 faces and 7 checks | images, embedding and model stay together except after the recorded disturbances; after a change of the model the script leaves no old embedding behind; the endpoints agree |
| `admin` | 2 processes, 2 tokens, 2 requests, TTL 1, clock to 3 | lasting deactivation, no request by a dead session or admin |
| `video` | at most 6 sampled frames, 4 poses, 4 eye ratios, 2 passive scores | the verdict is the reference's; few spoofed frames pass |
| `logs` | 4 verdicts, pages of 1 row, clock to 2, days of 2, local time 1 ahead, 5 filters, 1 failure | no older row is passed over; the totals are bounded |

Why these bounds are enough for the cases that matter: with a queue of two and
three events the head is evicted while it is being sent; three connections allow
one to break, one to be stopped with its tasks left behind and one to recover on.
Three writes cover enrol, delete and
re-enrol during one scan. Four frames hold a streak, its interruption and a
second streak, and `attendance` needs no streaks: one camera's tracker is
`stream_one`'s question, so there a single frame commits. A prune limit of zero
entries makes the prune run at every claim, also while another user is cooling down;
the real limit of 4096 is the constant `PruneAt`. Two cameras, one frame each, before and
after one restart make up to four events, which overflow a queue of one; the
bound on events never stops one. Two sends of each event are one that raises and one
that repeats it. The view that identifies states keeps of `sends`, `handed` and `events` what
a later step or a property depends on. Three
submissions for two challenges let two race for one while a third meets a deleted
document. Three registrations let two race over the images of a first one, or
one clean up after them; one image each is enough, because the images of two
racing registrations meet in the same bucket. Two runs of the script let one be cut
off, or meet the old service, and another follow. Six sampled frames are the three of the
baseline and three to turn, return and turn again; the threshold of 80 % and the
scores of 75 % and 90 % let one spoofed frame pass and not two. Videos of more than
ten samples, where the percentile starts at the second lowest score, are beyond the
instance. Four rows on pages of one row let rows arrive before, on and behind the
page that is being read.

Deadlock is checked for the bridge and the index, whose tasks run for ever. The
other runs say `CHECK_DEADLOCK FALSE`: streams end, and requests, analyses and the
script finish.

### Fairness

* `ErpBridge`: weak fairness of every task (the event loop runs what is runnable,
  and `open_timeout` and the closing handshake are bounded) and strong fairness of
  `ConnectOk`, i.e. an ERP that is asked infinitely often accepts infinitely
  often. Nothing is assumed of `publish`, `stop` or the network. The last
  connection of the bound never breaks, otherwise the bound itself would end the
  behaviour.
* `FaceIndex`: writes and scans end, because MongoDB answers or times out; strong
  fairness of `ScanBegin`, because `asyncio.Lock` wakes its waiters in order.
* `Stream`: weak fairness of the main loop only; nobody has to send, disconnect or
  open.

### Findings

1. `refresh()` ends with `_loaded = True` even when `invalidate()` was called while
   its cursor was open (`face_index.py:137` against the docstring at 97). The
   index serves the old registry until the next write. `StaleOnlyIfMissed` shows
   that, apart from writes this process is never told of, it is the only such way.
2. Frames with no usable face do not break a streak (`stream.py:295` against the
   comment at `face_index.py:253` and README.md:206). `CommitsConfirmed` shows what
   does hold: the streak is consecutive among the frames that were judged.
3. `face.py:689` compares a naive datetime with an aware one. `admin_auth.py:71-75`
   normalises for this reason; the challenge endpoint does not. The test suite
   does not see it because its fake database keeps aware datetimes.

More deviations have no run of their own, being one step each. A command that is a
JSON array or object raises `TypeError` in the allow-list test (`erp_bridge.py:198`,
against its docstring 9-11) and drops the connection; no event is lost by it. A missing
liveness model raises out of the video endpoint as an unhandled exception instead of
the reason code `model_unavailable` (`video_liveness.py:113`, against README.md:89).
A similarity that is not a number passes both tests of `identify()`
(`face_index.py:186-189`: `NaN < threshold` and `NaN < margin` are false), so an
embedding message with a NaN component, which `json.loads` accepts, is identified,
against the docstring at 171.

What the code does not promise, and the models show:

* Events are apart by the time of the claim. The event's own timestamp is taken
  after the liveness check (`erp_bridge.py:108`), so two events may be closer.
* An event may reach the ERP more than once: a send that raises may have been received, and
  it is repeated (`erp_bridge.py:178-182`). It may also not reach it at all, if the full queue
  evicts it or a restart loses it.
* A restart loses the queued events and the cooldowns: an employee may have an event
  of each process within one cooldown, and both may reach the ERP.
* No order of restart and script avoids a time in which embeddings of both packs are
  in use: `OnePackAfterSwitch` holds once the script has dealt with an employee.
* The history's dates, and "today" in the totals, are days of UTC (`admin.py:172-182`,
  `267-268`); the calendar filters next to them are local (`admin.py:193-196`).
* `ENROLLMENT_IMAGE_RETENTION_DAYS` is read by nothing: images stay until the employee
  is registered again, also after her registration is deleted.
* A liveness check that cancels a commit keeps its cooldown claim.

## 4. Proofs

Every safety invariant and every action property of the passing runs is a theorem for
all values of the constants. The proofs assume the named assumptions of the modules and
nothing else: `BridgeAssumption`, `StreamAssumption`, `AttendanceAssumption`,
`IndexAssumption`, `RecognitionAssumption`, `EnrollmentAssumption`,
`VerificationAssumption`, `VideoAssumption`, `ChallengeAssumption`, `SessionAssumption`
and `LogAssumption`. Most say that a bound is a natural number, or that a model value
that stands for "none" is not one of the things it is none of. Three say more. The
threshold of the motion score is positive, the turn is more than no degrees and at least
one sampled frame is asked for (`VideoAssumption`): a threshold of zero would verify any
motion, and without a frame `np.percentile` raises. A page holds at least one row and a
day lasts (`LogAssumption`). The deque has room for one event (`BridgeAssumption`,
`AttendanceAssumption`).

None of these invariants but the simplest is inductive as it stands. Each proof module
defines `IInv`, the strengthening that is, from named parts; the proof that a step keeps
it goes by its parts and then by the actions.

**ErpBridge.** `IInv` adds four facts:
`Window`, the queue holds consecutive event numbers that end with the last one
published; `Left`, the events before the head are exactly those accepted or
evicted; `Holding`, a sender in the middle of a send holds the head or an event
that is gone, and an idle one an event before the head; `Given`, what a sender
holds during a send is what it last gave to its socket. The pop-if-still-head of `_send_loop` is
what makes `Window` and `Holding` survive `SendOk`: popping blindly would advance
the window past an event that was never sent. From `IInv` follow
`TypeCorrect`, `NoEventVanishes`, `NoEventResent`, `ConnectionsOrdered`,
`WakeupsNeverLost` and `OneSocketAtATime`. `BridgeImplementsOutbox` maps `Publish`
to `Put`, a send that begins to `BeginSend`, since `Window` says what the head is, and a
returning send to `HandOver` if it pops, else to `LateAcceptance` or a stutter, by `Left`;
every other action stutters, a send that raises included.

**Stream** (in `AttendanceProofs`). Six parts, one for each thing that can go wrong:

* `Spaced`: every claim within the cooldown is in the registry (`Remembered`). A claim
  is granted by the registry alone, and the prune drops only what is older than the
  cooldown, so two claims are apart: `CommitsKeepDistance`.
* `Woken`: a frame in the mailbox, or a peer that is gone, has set the event that the
  sleeping main loop waits for, also right after it cleared it: `WakeupsNeverLost`.
* `InOrder`: nothing judged is newer than the frame in hand, and that is older than
  the one in the mailbox.
* `Confirmed`: the tracker's streak is backed by that many judged frames of its
  user, with only unseen ones between (`StreaksBacked`). With `InOrder`,
  `CommitsAreConfirmed`.
* `Fates`: a claim in hand is not published or cancelled yet: `ClaimsHaveOneFate`.
* `Typed`, which with the ranges of the locals gives `TypeCorrect`.

**Attendance.** `SystemInv` joins the invariant of the streams with `Windowed`, the
outbox's numbers, `SentInOrder`: no send is newer than the oldest event that waits, and
`Recorded`: the events of the running process are those of its
published claims, one each, and only they wait or can still be accepted. A restart
establishes the first conjunct again from nothing, since a new process is `Fresh` at any
time of the clock. From `SystemInv` follow `SystemKeepsDistance` and
`CommitsAreAccounted`. `SystemImplementsLedger` is the refinement: a step that publishes
is an entry of the ledger, apart from the others of its process by `Spaced`; a send that
begins is of an event of the running process by `Recorded`, not yet handed over by
`Windowed`, and not older than those sent by `SentInOrder`; a restart starts a life; all
else stutters.

**FaceIndex and Recognition.** `Locked`: one task scans, it holds the lock, and the
others have no locals. `Numbered`: a document carries the numbers of its writes.
`Ordered`: what is cached or read is not newer than the registry, and what the scan has
read is not older than what is cached. `Scanned`: of every user the scan has read what it
should so far (`ReadRight`), or her write is on its way, or was announced since the scan
began, or never is. `CacheIsFresh` follows because a scan ends when `CursorDone` says that
nothing is left to read; `RefreshesNeverGoBack` is the last part of `Ordered`.
`NamesAreRight` then reduces to two facts about operators: the ranking of the top two is
ahead of everything else (`TopTwo`), and a settled employee is in the snapshot as she is
in the registry. `SearchesFindTheBest` needs no more than finiteness of the snapshot:
what reaches the threshold is a prefix of the ranking (`Prefix`), its members are
distinct, and if they are fewer than the limit, either the ranking goes on with worse
entries or it holds the whole snapshot.

**Enrollment and Verification.** `Uploading`: a request uploads its images in order.
`Alone`: a request that met nobody finds in the bucket what it has left to delete, and
later what it has stored. `Labelled`: a document names the pack that computed it and
lists images of its own registration. `Rebuilding`: as long as no registration meets the
script, what it has read is of the registration it found. Together with the properties
these are inductive: `FilesAreCurrent`, `EmbeddingsAreOwn`, `ModelsAgree`.
`EndpointsAlwaysAgree` is about the operators: `FirstFlaw` says that a refused photo has
a first flaw, which is why its reason is one of the checks' own, and the rest splits on
the checks in their order. This is why they are written as IF chains: the arms of a CASE
would overlap, and TLA+ gives overlapping arms no order, while the code's `if`s have one.

**VideoChallenge.** `TypeCorrect`; `ChallengeConsumedOnce`, from the invariant that
a consumed challenge is not pending; `VerdictsInTime`; `RefusalsAreTrue`, from the
invariant that a document which is gone was never issued or has expired, and one
that is used was consumed by somebody.

**VideoLiveness.** The invariant is easy, because one action judges; the theorems are
about the scores. `RankedIs` shows that a sequence of integers has a k-th smallest
element, so that the median and the percentile mean something. `TurnDecides` and
`BlinkDecides` show that the first peak and the first closed frame decide as the
declarative `Turned` and `Blinked` do, and that a score which counts is never rounded or
capped below the threshold (`FullTurn`, `FullBlink`): `VerdictsAreRight`.
`PercentileBounds` shows that a sufficient percentile has a live frame at the higher of
the two ranks it interpolates: `FewAreSpoofed`. Videos of more than ten samples, which
the run does not reach, are covered here.

**AdminSession.** `TypeCorrect`, with the bound on what is left of a session; `DeactivationIsLasting`, because a starting process
never touches an inactive admin; and `OnlyTheAliveEnter`. For the last, `IInv` adds
what holds between the two reads of a request: a stored session belongs to a login
that is not logged out (`SessionsOfLogins`), a request began with the cookie of a
completed login and knows whether it came after the logout (`CookiesOfLogins`), and
one that got past the session read did so before the expiry (`SessionsInTime`). A
cookie's expiry is drawn once, before the cookie can be sent, so no later step
unsettles a request that is already on its way.

**AttendanceLogs.** `Walking` is the invariant of a walk: a row that was there when it
began and has not been shown lies on a later page, tied rows and the gap excepted,
because the rows ahead of it (`Ahead`) only grow in number. `PagesMissNothing` is the
walk's end. `Counting` bounds each count by the rows then and the rows now, and
`TotalsAreClose` subtracts two of them.

Where an argument is an induction over numbers or over the elements of a sequence
(`Largest`, `Prefix`), the proof takes the least counterexample instead, which the
well-founded order of the natural numbers provides (`Least`).

Left to TLC alone: the liveness properties (`EventuallySettled`, `EventuallyReconnects`,
`RefreshReturns`, `StreamEnds` and `FramesServed`), because fairness and `ENABLED` are
out of the prover's reach. They are checked on the runs' instances only.

## 5. What is not modelled

The networks and the image arithmetic (detection, embeddings, landmarks, blur,
brightness, the liveness score): their results are inputs, chosen freely. The endpoints
that only return them (`/detect`, `/embedding`, `/verify-images`,
`/verify-embeddings`), health, API keys, configuration, request schemas, the dashboard's
formatting and the browser pages keep no state and order nothing. The benchmark and
dataset scripts are offline tools. The construction of the model singletons on the
executor's threads (`liveness.py:27-31`) is not split: a second thread that sees the
half-built instance fails its check, which is an outcome `NotSpoof` has.

Some observations have no run of their own. A registration that overlaps the script
is overwritten by it with the embedding of the images it replaced, under the new
model name (`tainted`). A video that turns, returns and then turns further without
returning is refused, because only its largest turn counts. A registration whose
document is deleted before it is read back answers with an error although it was
stored and deleted in order.

## 6. Plan

The models cover the plan they were written along, and the theorems every safety property
of the runs. What is left:

1. The part of liveness that is safety: for `FramesServed` and `RefreshReturns`, the
   invariants that say which action is enabled in each state where something is owed, so
   that only the fairness argument stays with TLC.
2. That nothing but `TzAware` stands between a racing submission and its verdict: the
   counterpart of the `challenge_naive` run as a theorem.
