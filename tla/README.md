# Verification of Agyary

TLA+ models of Agyary, the application Parsi fire temples (agyaries) keep their
bookings, memorials and families in, and which sends memorial reminders over
WhatsApp. The models are translated from `src/src/agyary`; a definition's lines
are in `PROJECT.json` under `map`. What is checked by TLC is in `*.cfg`; what is
proved by TLAPS for every value of the constants is in `*Proofs.tla` and `Counting.tla`.

## 1. The system

A FastAPI application on PostgreSQL (one async session per request, committed by
the route), one background task per process (`reminder_worker.run_forever`), and
Meta's WhatsApp API: outbound posts, and a webhook for delivery receipts, STOP
replies and sign-in messages. Nothing is shared in memory but rate limits and the
dry-run log; all coordination is through database rows.

| component | state it keeps | operations | what must hold |
|---|---|---|---|
| evening worker (`reminder_worker`, `reminder_sender`) | `notifications` rows: pending, sending, sent, failed, delivered, read; per pass in memory: `now`, the pause switch, the streak, what was sent | plan, sweep stuck rows, pick, re-check consent, mark, post, settle, give up, sum up | one message per observance at most; rows say what went; a STOP wins; everything settles |
| guardrails | `app_settings.reminders_paused`, alerts, counts read from rows | caps, pause, resume, breaker, alerts | never above a cap; a pause lasts till someone lifts it; admins hear |
| books and consent (`behdin_directory`, `reminders`) | `customers` (one per mobed and number), `reminder_opt_outs` | register, change number, remove, turn on/off, STOP | a STOP is never lost; no agreement outside the book |
| memorials | `memorials`, `memorial_observances` | create, edit, pay, mark as told by hand, delete | dates follow the rules; what is told by hand is not sent again |
| receipts, STOP acknowledgement (`apply_status`, webhook) | the same rows, `acknowledged_at` | receipt, STOP reply | a row never claims more than happened; mobeds are told once, one acknowledgement per number |
| sharing a schedule, daily report, closing notices | their own `notifications`/report rows | limits, send, remember | within limits; once a day |
| sign-in (`wa_login`, `otp`, `mobed_auth`) | login requests, codes, session generations | start, claim, confirm; request, verify; rotate, revoke | only the phone's holder gets in; a stolen token is noticed, a retry is not |
| machi slots, bookings, recurrences | `machis`, `bookings`, series | book, move, cancel, generate | one machi per slot; series stay whole |
| saved names | `customer_saved_names` rows, replaced section by section | merge, replace | a merge removes nothing and adds nothing twice |
| calendar, memorial schedule | none (pure) | three Parsi calendars, month- and year-dates of a death | agrees with counting days |
| account deletion, erasure | removes all of the above | delete, sweep, erase | nothing personal stays; nothing is sent after |

How they interact: requests of mobeds, families (through the webhook) and admins
change the books, memorials and the pause switch while the worker is between two
of its own transactions. The worker learns of it only when it reads again. What
is hard: the post to WhatsApp is not part of any transaction, its answer can be
lost, the process can die around it, two workers overlap during a deploy, the
planner judges on a read that is old when it writes, and time is read once a pass.
`PROJECT.json` lists every such hazard at its line, with the properties about it.

## 2. Plan

Done, in the order of importance:

1. `MobedBook` (records, consent, STOP, memorial dates) and its proofs.
2. `ReminderQueue`, composed with `MobedBook` (it EXTENDS it: the book's actions
   interleave with the worker's), the abstract `ReminderPromise` it implements,
   and the proofs of both.
3. `Receipts` (delivery receipts against the rows) and `StopReply` (the delivery and
   acknowledgement of a STOP), with requests of the webhook that overlap and die, and
   `DailyReport`, and the proofs of the three.
4. `Sessions`, `WaLogin`, `Otp`: the three parts of signing in, and their proofs.
5. `Diary`: machis and events, once and repeating, and its proofs.
6. `ParsiDays`, `MemorialDays`, `MemorialPlan`: the calendars, the rules of a memorial's
   dates, the entry of a memorial; `MemorialCare` and `MemorialShare`: what happens to it
   once it is saved, and the proofs of these five.

Left, in this order:

7. The book's operations split into read and commit, with a STOP between the two (the
   gap of `StopHolds` that is listed under `hazards`), and an account's deletion beside
   the worker.
8. Saved names: two requests that each read the rows, delete those of a section and insert
   what they merged, against the promise of `merge_saved_names`; and the acceptance of an
   event by another mobed.

## 3. Modules and the code

### MobedBook

One action per request that changes what reminders depend on; each is one
database transaction, so one step.

| state | code |
|---|---|
| `record[r]` | a `customers` row: `kept` is `is_active` (listed, unlisted) or no row at all ("no"), `phone`, `enabled` = `reminders_enabled`, `stopped` = `reminders_stopped_at` is set |
| `optOut` | `reminder_opt_outs` |
| `prayer[o]` | an observance dated tomorrow: `live` while its memorial exists, `byHand` = `reminded_by_hand_at` is set |
| `lifted` | observer only: records whose mobed lifted the STOP of the number they hold |
| `acts` | bound on behaviours |

| action | code |
|---|---|
| `TurnOn`, `TurnOff` | `reminders.set_reminders` behind `set_behdin_reminders` |
| `ChangeNumber` | `behdin_directory.update` |
| `RemoveFromBook` | `mobed_dashboard.delete_behdin_scoped` with `remove_from_book`, one transaction, with or without the memorials |
| `Register` | `create_or_link`, `resolve_own`, `create_customer` |
| `DeleteMemorial`, `MarkReminded` | `memorials.delete_memorial`, `mark_reminded` |
| `RecordStop` | `reminders.record_stop` |

A memorial is not an object of the model: the dates of one memorial that fall on
the same tomorrow are some of its family's dates, so `DeleteMemorial` takes any
non-empty set of them. Names, temples and consent wording are left out: no
property tells them apart. `HasEvents` names the records with an event no
deletion removes (history, recorded payments), which are kept unlisted.

### ReminderQueue

One evening, sending "live". A worker's pass is a sequence of transactions; each is
one action, and anything may come between two of them.

| place (`pc`) | action | code |
|---|---|---|
| idle | `StartTick` | `tick` reads `now`; in the window `plan_tomorrow` runs its queries (lines 171-216) |
| plan | `WritePlan` / `PlanFails` | the loop over the rows, the inserts, the notices, the alert and the commit / a foreign-key error ends the tick |
| open | `OpenQueue` | `send_pending` reads the switch and closes stuck rows |
| send | `GiveUpLate`, `LeaveQueue`, `DropWithdrawn`, `MarkSending` | one turn of the loop up to the commit of the mark |
| post | `PostMessage` | `_post`, and what WhatsApp did with it |
| settle | `SettleSent` ... `SettleAccount` | the branches of lines 521-567 and their commit |
| trip | `TripBreaker` | lines 569-574, a second transaction |
| close | `ClosePass` | the summaries |

Around it: `Crash` (the process dies or an exception ends the tick), `GoStale` (five
minutes pass over a row with no sender), `CutOff`, `AdminPause`, `AdminResume`, and
`InTheBook` (any action of `MobedBook`).

Reductions, and why they lose nothing:

- Picking, judging and marking a row is one action, as the code holds the row's
  lock (`FOR UPDATE SKIP LOCKED`) from the pick to the commit and what it reads in
  between (the pause switch excepted, which was read before) is read after the pick.
- The planner's inserts and its commit are one action after its reads. The unique
  index decides between two planners; `ON CONFLICT DO NOTHING` waits for the other's
  transaction, and both go through observances in id order, so what the loser sees
  is what it would have seen by writing after the winner.
- The re-check of consent reads the record anew: sessions keep loaded objects only
  while something refers to them, and the planner's are gone when sending begins.
- `scheduled_at <= now` is always true of a row planned in an earlier transaction of
  the same evening; another day's rows are late by the second half of the `late` test,
  as they are after `CutOff`.
- The monthly, per-temple and new-account caps are counters of the same form and the
  same place in `Usage.blocker` as the daily and the per-mobed cap, which are modelled.
- `_Transient` stands for what the code is sure did not go. An HTTP 5xx after which
  Meta sent the message all the same is not modelled: the code calls it not sent.
- `users.automatic_reminders` is never changed by any route, so it is left out.
- The modes "off" and "dry_run", and missing credentials, send nothing.

`accepted` is an observer of WhatsApp's side: how many messages it took for an
observance. `row[o].why` is the error message, by kind. `stale` is `updated_at`
older than five minutes.

### ReminderPromise

What the worker promises without workers, ticks, caps or crashes: each observance
has a fate that only moves along `none -> queued -> trying -> sent / not sent /
unknown` (and back from trying to queued while no copy went), and `Honest` ties it to
the number of copies. `ReminderQueue!Promise` instantiates it with `fate` read from
the rows and `copies` from `accepted`.

### Receipts

What becomes of a message after WhatsApp accepted it. `row[m]` is its `notifications`
row (`id`: the row has its `wa_message_id`), `meta[m]` is WhatsApp's side, `mail` the
receipts not yet answered with a 200, `handling[h]` a request's receipt and the row as the
request read it; `heard` and `raced` only observe
which receipts found the row, and which messages had two in hand at one time.

| action | code |
|---|---|
| `LearnAnswer`, `LoseAnswer` | the worker's commit of the answer, lines 558-567 and 540-543 of `reminder_sender.py`; here only so that a receipt can come before it |
| `Read`, `Drop` | `apply_status` looks the row up by the message's id |
| `Apply` | the rest of `apply_status` and the commit of `receive_webhook` |
| `Fail` | the request dies; without a 200 WhatsApp delivers again |
| `MetaMoves` | WhatsApp (external): accepted, then delivered and perhaps read, or failed |

A request reads and writes in two steps because the code reads without a lock; the
write goes to the columns it changed, on the row as it is by then. A delivery that
carries several receipts is handled as one transaction in the code and receipt by
receipt here, which allows more. A message that was delivered is taken never to fail.

### StopReply

`MobedBook` takes a STOP as one step; here it is the transaction it is, of several
reads and writes with a post in the middle. `job[h]` is where a request stands and what
it remembers; nothing it writes is seen by others before `Commit`, except that
whoever writes the same opt-out waits (`Held`: `ON CONFLICT DO UPDATE` locks the row
or waits for its insert).

| action | code |
|---|---|
| `Look` | `already_stopped`, asked first |
| `RecordOptOut` | `record_stop`: the upsert, and the records not yet stopped |
| `Weigh` | `acknowledge_stop` up to its post: pause switch, a reminder sent in the last 30 days, the day's cap |
| `Post` | `wa_send.send_text`; the answer may be lost |
| `Commit` | `receive_webhook`'s commit: opt-out, records, notices, `acknowledged_at` |
| `Crash`, `Redelivered` | the request dies, nothing was written, WhatsApp delivers again |
| `SendStop`, `FlipPause` | a family, or WhatsApp repeating itself (external); `guardrails.pause` and `resume` |

All of it is one day, so `acked` is the count of the day. A mobed who lifts the STOP, and
changes of the book meanwhile, are `MobedBook`'s and not repeated here. `crowd` observes
the most requests ever at work at once, `crashes` counts those that died: what may be
answered twice is bounded by the two. `told[r]` counts the notices; the text that quotes the
family's words is left out.

### DailyReport

`run` as the tick calls it on one evening: a pass is one transaction over all mobeds,
its messages go as it comes to each. `notices` and `logged` are committed rows, `got`
observes what WhatsApp delivered, `abreast` the most passes ever at work at once, and
`fails` counts those that failed. `SendWhatsApp` is `_send_whatsapp` with an answer or none,
`PassFails` the exception after which `reminder_worker` rolls the whole pass back, `CutOff`
the evening's end. Meanwhile mobeds
ask for the report or not, take things on or cancel them, and an admin pauses or
resumes (`FlipSwitch`, `halted`): a pass reads the switch once, when it starts. Mobeds
are numbers, as a pass takes them in the order of their ids.

### Sessions, WaLogin, Otp

| module | state | actions and code |
|---|---|---|
| `Sessions` | `session[s]` a `user_sessions` row (generation, grace, ended), `refusesOld` = `tokens_valid_after`, `cookie[d]` the token in a device's hands | refresh in its two halves, rotation with its grace of 30 seconds, the adoption of a token from before sessions, a lost answer, `Logout`, `EndAll`, a cookie copied (`mobed_auth.refresh` to `end_all_sessions`, and the routes) |
| `WaLogin` | `att[a]` a `wa_login_attempts` row, `hook` and `page` the requests at work, `mail` messages on their way, `numbers` sent back | `start`, the webhook's `claim` in three steps, the browser's polls, the number typed, the name step, `consume`, expiry, a forwarded message; `calls` observes the most calls of one browser at work at once |
| `Otp` | `otp[c]` a `login_otps` row, `ask` and `guess` the requests at work, `taken`, `uses`, `tried` observers, `crowd` the most requests at work at once | `request_code` (count, post, commit), `verify_code` (lock, judge), time passing, a death between post and commit |

`Otp` has the limits that are counted in the database: the cool-down, the codes of a
number in an hour and in a day, the requests of an address in an hour and in a day, the
day's codes, and the codes of an hour to numbers without an account. Each refuses without
leaving a trace but the day's, which raises an alert; it is a step of its own. Sign-in by
codes is switched on and the access token is there. The limits kept in a process's memory
are left out. In `WaLogin` a phone may be one whose number WhatsApp withholds: it claims an
attempt like any other, and the browser's next poll is answered 403 and ends the attempt.

A refresh is sent, reads its row under the lock, decides, and is answered, each a step, so
that an answer can be lost and a sign-out come in between. A check of a code that waits for
the row's lock and meanwhile sees a newer code sent takes the newer one in the model and the
older in the code; a code's uses and guesses are counted by code, so nothing checked depends
on it. Hashes, secrets and the words are left out: a secret is its row.

### Diary

One temple's machis, or its events: `events` the rows, `rules` the `recurrence_rules`,
`calls[c]` a request between what it read and what it commits. A machi takes a slot and an
event takes none; otherwise `mobed_dashboard` treats the two alike and so does the
module (`kind`).

| action | code |
|---|---|
| `AskAdd`, `Add` | `book_machi_slot` / `create_booking_request` behind the manual routes, the rule and its first dates |
| `AskTopUp`, `TopUp` | `ensure_recurrences_generated`, `ensure_booking_recurrences_generated`, the two generators |
| `AskEdit`, `Edit` | `edit_machi`, `edit_booking`, `rebook_machi_slot` |
| `AskDelete`, `Delete`, `DeleteLater` | `delete_booking`, `delete_machi`: one, or all later ones |
| `RemoveFamily` | `delete_behdin_scoped`: a family's upcoming ceremonies and the later ones of their series |
| `Tick` | a day passes |

Of the listing of machis (`machi_board`) only its call of the top-up is modelled.

The calendar is stood for by months of `Rojs` days and years of `Mahs` months, enough for a
day to repeat monthly and yearly; `ParsiDays` has the real one.

A row has its day twice: `day` and `at`, which requests look slots up by, and `roj` and
`month`, which the unique index of machis is on (`when` is the time that deletes compare).
An edit writes only the columns that differ from what it loaded (`Field`), so two edits of
one machi that overlap can leave the two apart; `torn` observes which rows that befell.
The index is part of `Add`, `TopUp` and `Edit` (a conflict is what the code catches); the
foreign keys between rule and source are `Refused`, a recorded payment is `Blocked`, and a
top-up's lock of an event's rule is `Locked`. `RemoveFamily` takes events in any order, as
its query has none, and machis by time. `raced` observes rules that changed under a
top-up, `failed` a delete refused although nothing it read had changed. The clock ticks by
gehs, and waits for requests under way: they last seconds.

### ParsiDays, MemorialDays, MemorialPlan

`ParsiDays` translates `calendar/engine.py` with its real constants and walks through
every day from 2008 to 2101, counting Rojs and Mahs one by one beside it. `MemorialDays`
translates `build_schedule`, and beside it `Meant` says what the words of each option
mean by reading the Parsi date of every day that follows. `MemorialPlan` is
`services/memorials.py` around it: the death resolved from Roj and Mah, the days shown as
over, the review, and the plan that is saved from it, perhaps a day later. Its
specification is the walk and, beside it, a memorial as it is entered: a death, then the
choice. `MCMemorials` gives the constants their values.

### MemorialCare

A saved memorial. `dates` is its rows, `req[r]` a request with what it loaded; saving
writes the columns that differ from what was loaded and the prayers added or removed
(`Written`: SQLAlchemy's unit of work, and `Fails` where a row is gone or there
already). A memorial's id is given once (`used`): one that was deleted does not come back
under a request that still holds its rows. `notices` counts closing notices, `word`
observes the last word on each part of a date and `clash` the parts that two overlapping
requests were about, `lapped` the most passes that had found a memorial at once.
`LookForClosing` and `NotifyClosing` are `notify_closing_tomorrow` of two workers, `Feed`
and `Closings` are `calendar_feed`.

### MemorialShare

A tap on "send": first check, the PDF (seconds), one advisory lock for all, second check,
a committed row "sending" that frees the lock, the post, the outcome. `arrived` observes
what WhatsApp took, `unheard` the numbers with an answer that never came.

## 4. Runs

All bounds are constants of the configurations. A module that stands beside others in one
run (`MCMessages`, `MCSignIn`, `MCDiary`, `MCMemorials`) is checked as a sum: the parts
share no row, each behaviour is of one part (`part`), and the others stay as they began,
so the run says of each part what a run of its own would. What one part hands another is
never touched by it again (a right code opens an attempt that is claimed from the start,
an attempt ends in a new session), or is the one step the other takes apart
(`MobedBook`'s STOP and `StopReply`).

In the queue, acts of mobeds, families and admins are bounded by `MaxActs`, crashes by
`MaxCrashes`; workers are never bounded, so no run of the queue can deadlock and deadlock
is checked. In the sums people need not act once the acts are used up, so there it is not.

| run | instance | distinct states | shows |
|---|---|---|---|
| `queue_workers` | 2 workers, 2 dates, 1 crash | 731,946 | `AtMostOnce`, `SentIsTrue`, `NotSentIsTrue`, `MobedToldOnce`, `PromiseKept` (refinement of `ReminderPromise`) |
| `queue_caps` | 1 worker, 3 dates, two of one mobed, caps 2 and 1, 1 act | 1,281,015 | `WithinCaps` (the day's and each mobed's cap, and one reminder per number), `StopWins` |
| `queue_live` | 1 worker, 2 dates, breaker at 1, 1 act, 1 crash, with fairness | 572,844 | `TypeOK`, `BreakerHolds`, `EveryReminderSettles` |
| `messages` | books: 3 records, 2 mobeds, 2 numbers, 3 dates, 6 acts; STOPs: 3 numbers, 2 requests, cap 1, 4 STOPs, 1 crash; receipts: 1 message, 2 requests; report: 2 mobeds, 2 passes, 1 failure, 1 change | 272,685 | `StopHolds`, `AgreementIsInTheBook`; `MobedsToldOnce`, `AckedOnce`, `EveryStopIsHonoured`; `FollowsReceipts`, `ShowsWhatHappened`; `ReportedOnce`, `ReportComes` |
| `signin` | sessions: 2 devices, 2 sessions, 2 refreshes, generations to 2; attempts: 1, with 3 phones of which 1 withheld, 2 deliveries, 2 calls, 1 number to guess twice; codes: 3, of 2 phones and 1 address, 2 requests and 2 checks, caps 1 to 3, 2 guesses | 1,538,912 | `EndedForAReason`, `SignOutReaches`; `SignedInByTheirPhone`, `OneSessionEach`; `OneUseWithinTries`, `OneAtATime` |
| `diary` | 2 requests, 3 acts, 5 events, counts open or 3; 2 memorials of 2 and 1 dates, 2 prayers, 2 requests, 2 workers, 2 days; 3 families of 2 mobeds with 2 numbers, caps 1 and 2, 2 taps, 1 death, 1 turn | 981,244 | `SlotsExclusive`, `OccurrenceOnce`, `DeletesGoThrough`, `RunsItsCount`, `NoneMissing`, `HistoryKept`; `EveryWordStands`, `ClosingsAgree`; `WithinShareCaps`, `OneADayUnlessLost` |
| `memorials` | every day of 2008 to 2101 in 3 calendars; 7 deaths, 6 wishes, 4 starting days, 3 calendars | 37,645 | `CalendarAgrees`; `DeathIsTheLatest`, `ScheduleIsWhatWasAsked`, `NamesAreKept`, `PassedDaysAreLeftOut` |

Why the bounds are enough: two requests on one row, number or slot show every race, and a
third only repeats one; two dates let one row be settled while another waits, and the
third in `queue_caps` makes a cap refuse one and leave one; two tries reach both retry and
exhaustion; six acts of the book are enough to stop, move, remove, register again, lift
and stop once more; three acts of the diary to make a series, change it and delete
from it, while a request that read before is still at work. The deaths of `memorials` are at
the ends of months and years, on a fifth and a sixth Gatha, in and before a leap year.
Where the code counts or reads before it writes, requests that overlap can do more than one
alone, and some properties say how much: no more replies, reports, sessions, codes or notices
than there were ever requests or passes at once (`crowd`, `abreast`, `calls`, `lapped`
observe it), which is one where they come one by one. Others are stated for one worker, or
for what did not overlap (`crossed`, `raced`, `torn`, `clash`): what overlapping then does
is below.

Symmetry is used where the permuted values are interchangeable requests, and never in a run
with a liveness property.

### Fairness

In the queue (`FairSpec`): each worker goes on (`run_forever` passes again every 60 s
after any error, and the platform restarts a process that dies; each wait for
WhatsApp ends after 20 s), a lost sender's row grows old, and the evening ends.
Nothing is assumed of WhatsApp's answers, of admins (a pause may never be lifted), of
mobeds or families.

In `messages`: a request that began goes on, or dies within the bound on crashes, and
WhatsApp delivers a STOP until it gets its 200 (what the docstring of `receive_webhook`
relies on); a worker starts a pass of the report and goes on with it. Passes fail at most
`MaxFails` times: one that fails every minute till the cutoff sends no report, and the
code promises none. Nothing is assumed of the posts' answers or the switch.

`GoStale` assumes that a row in a living worker's hands never turns five minutes old:
`httpx` limits each step of a post to 20 s. `AtMostOnce` does not rest on
it (no stuck row is ever posted again), but `PromiseKept` does: `unknown`
would be revised.

### Violation runs

Each checks one sentence of the repository's own text against the code, and TLC finds
the behaviour that breaks it.

| run | the sentence | what happens |
|---|---|---|
| `doc_by_hand` | api/routes/memorials.py:430 "Nothing is then sent automatically for it" | planned; marked as told by hand; sent |
| `doc_report_twice` | services/daily_report.py:13-14 "so a mobed is never sent the same list twice" | the messages go, the pass fails, the notices that remember them are rolled back; the next pass sends the list again |
| `doc_code_cap` | tests/test_otp.py:255 "test_the_daily_cap_stops_all_codes_and_alerts_the_admins" | the alert is written in the transaction of the refused request, which is never committed |
| `doc_slot_twice` | models/machi.py:113 "THE critical constraint: one active machi per geh per day per agyary per mobed" | two edits of one machi overlap, each writes a part of its columns, and its day no longer agrees with its key in the unique index; a third request, which looked before, takes the same day and geh |
| `doc_no_prayers` | services/memorials.py:562 "Services must stay non-empty" | two edits of one date, each keeping one of its two prayers, each delete the other's |

Met while modelling, without a run of their own:

- reminders.py:4 (nothing to someone it was not turned on for): the number of a record
  changes and it agrees anew while a row for the old number is pending; the re-check does
  not compare numbers.
- guardrails.py:12 (pauses after several failures in a row): the streak is of one pass, so
  an outage that ends each pass at once never adds up.
- reminder_sender.py:597 (a status only moves forward): two receipts handled at once both
  read "sent", and "delivered" can be written over "read".
- reminders.py:333 (a second STOP gets nothing): two deliveries at once are both answered.
- memorial_share.py:295-298 says a lost answer leaves the row "sending", so that it counts;
  lines 328-331 make it "failed", which does not, and the schedule can go again that day.
- routes/memorials.py:408-410 and memorials.py:681-683: the reminder list says `auto` for a
  date tomorrow even after the evening's window, when nothing will be planned.
- memorials.py:60-61: 361 days do not put every named day behind; Varsi is 365 days after.
- mobed_auth.py:217: a token from before sessions is moved into one, "once"; the first
  device's makes those of the mobed's other devices refused.
- mobed_dashboard.py:1150: an edit of a machi gives it to another family before its slot is
  tried; the slot refused (and left as it was, booking_service.py:570), the route commits
  the family.
- A pass that began before the cutoff goes on sending after it; a reminder without an answer
  leaves the day's count though it may have gone; two passes at once leave two closing
  notices; requests for codes that overlap exceed the cool-down; a pre-sunrise ceremony's
  slip shows the civil day's Roj while its row is kept under the previous one.

Every property of a passing run has a mutant: a definition of the model changed as a
plausible bug would, kept in the module beside the definition it replaces ("Mutant:"),
under which TLC finds that property violated.

## 5. Proofs

Every safety invariant and action property that a run checks is a theorem: for any number
of workers, requests, rows, days, acts and crashes, any death and any choice, from the
assumption its module declares (`BookAssumption`, `DaysAssumption`, ...), which says what
the constants are and nothing of how many. Few are inductive; what was added is the
argument, and is named below.

`Counting` stands in for induction. The library's induction theorems take an operator as
parameter and cannot be used, but that `Nat` is well-founded can be stated and applied to
a set (`Below`, `LeastNat`): the least number of which something fails is as good as
induction (`CountingUp`, `GreatestNat`). So what a recursive function of a module builds
(the planner's choice, a family's removal one ceremony after another) is proved about too.
`OneMoved`, `FewerOf` and `OneOfEach` say how many of a finite set are left when one of them
moves; the bounds by the number of requests at work at once are proved with them.

### ReminderQueueProofs

From `BookAssumption` and `QueueAssumption`, every cap and every number of tries. First the
book, then the queue, then what holds of one worker.

- `BookTypes`, `StopAlwaysHolds`, `AgreementsStayInTheBook`. `StopHolds` is inductive with
  the types; the step that matters is that every path which gives a record a number
  (`Moved`, `NewRecord`, `Relisted`) either looks up the opt-outs or keeps the record's own
  stop, and every path that clears it is recorded as a lift.
- `QueueTypes`.
- `LedgerHolds`. `AtMostOnce`, `NotSentIsTrue` and `SentIsTrue` are not inductive: a
  post could add a second copy if its row were already decided, and an answer could
  make a row say what did not happen. `Ledger` adds `Custody` (a row in hand is marked,
  not stale, and in one hand) and `InTransit` (what the post, the answer and the pass's
  memory imply about `accepted` and the rows). The proof reduces a step to two lemmas,
  one for steps that leave hands alone (`LeavesHands`) and one for a row being settled
  (`SettlesRow`), so that each action only shows which rows it changes and how.
- `AtMostOnceAlways`, `CustodyAlways`, `NotSentAlwaysTrue`, `SentAlwaysTrue`: the parts.
- `BookHoldsBesideTheWorker`: the book's invariants in the composed system.
- `TheWorkerKeepsThePromise`: `Spec => PromiseKept`. `Moves(o)` says what one step may
  do to a row and its copies; `Ledger` turns each case into `Settle`, `Accept` or `Keep`.
- `MobedToldOnceAlways`: `told` changes only in the step that closes a row for a reason its
  mobed must hear, and `Custody` keeps a closed row closed.
- `StopWinsAlways`: a handover is the step that marks a row, under a re-check of the record
  as it is; `StopHolds` of the composed system says what that re-check can find.
- `BreakerAlwaysHolds` and `CapsAlwaysHold`, for one worker (`OneWorker`: no two are
  different), whatever else goes on; the runs that check them have one worker too. Two
  workers would each plan, and each read the switch, from what they read before.
  `PassKnowsPause` says that while a pass that found no pause is at its rows, the loop has
  made none: only the pass itself could, and then it goes no further. The caps are counted
  in a recursive function over the observances: `Queued` is that function,
  `QueueWithinCaps` what each of its values keeps (by `CountingUp`); and `ReadStillCovers`
  says that what the planner counted when it read still contains all that counts when it
  writes: others only take rows away from the count.

### MessagesProofs

- `MobedsAreToldOnce`: `TakingTurns`, of one number only one transaction is past the
  upsert, and the records it found are still exactly the unstopped ones of that number when
  it commits.
- `AckedOnceAlways`: the replies to a number, and the deliveries that take its STOP for the
  first (`Asking`), are together no more than deliveries were ever at work at once and those
  that died. That is not inductive alone: until the first STOP is committed, only those that
  wait to commit (`Past`) and those that died can have replied, so a first one that begins
  is not one too many (`RepliesOf`). The replies known to have gone are counted with those
  under way (`Counted`, `WithinCap`).
- `RowsNeverOverclaim`: a receipt on its way, or in a request's hands, must itself be true
  (`TrueMail`), as must what the request remembers of the row; WhatsApp's side only moves
  on, so what was true when it was read still is when it is written.
- `RowsFollowReceipts`: `SeenIsTrue`, a request that no other overlaps finds the row as it
  read it; `NothingHeard`, no receipt finds a row before it has its id.
- `ReportedOnceAlways`: a mobed's notices, and the passes that have one to commit
  (`Making`), are no more than passes were ever at work at once; a message beyond the notices
  is of a pass that is through with that mobed (`Through`), or of one that failed (`Told`). A
  pass takes mobeds in their order (`InOrder`), so nobody comes up in it twice.

### SignInProofs

- `EndsHaveReasons`: `TokensClose`, a token in a cookie, on its way or on its way back is
  its session's own, or the one before while the grace lasts, or there is an excuse;
  `InTurn`, who has read a session still knows its generation, as it holds the lock.
- `SignOutAlwaysReaches`: `Reached`, after such a sign-out no old token is in hand and none
  counts any more.
- `SignedInRightly`, `OneSessionAlways`: `CameByCode` ties an attempt's state to who sent its
  code. Where deliveries did not overlap an attempt is claimed once, by one phone, before
  anything else happens to it (`ClaimedOnce`). The sessions begun and the calls at work are
  together no more than there were ever calls at once, as the first session leaves the
  attempt gone and no call begins after that (`BegunWithin`); where neither overlapped every
  wrong number is counted in the row (`TriesCounted`).
- `OneUseAlways`: a commit replaces a row and a check counts it up, so the invariant says
  whose a code is: a request's until its row is committed (`Unborn`), then of at most one
  check, which finds in the row what it read under the lock (`InOneHand`); `Accounted` ties
  rows to the observers.
- `OneAtATimeAlways`: `WithinCrowd`, the codes of a number that are cooling down, with those
  a request is at work on (`Fresh`), are no more than requests were ever at work at once: a
  code is made only for a number of which no row is cooling down, so beside codes of
  requests at work and no others, one of each (`WeighWithin`).

### MemorialProofs

- `WordsAlwaysStand`: `StillSo`, what a request loaded of a part that no other is about is
  still there when it saves.
- `ClosingsAlwaysAgree`: `Tomorrow`, what an open pass found closes tomorrow; `Noticed`,
  a memorial's notices and the passes about to leave one are no more than passes had
  found it at once, and one with a notice closes by the next day. That a memorial has a
  last date at all is `GreatestNat`.
- `SharesStayWithinCaps`, `OneADayAlways`: `UnderLock` carries what the second check counted
  to the commit (nobody else can add a row meanwhile, and rows that fail only make room);
  `OwnRow` says that no failed row is made to count by another tap; `OnARow` ties what
  arrived to a row that counts.

### DiaryProofs

- `RowsStayJoined`: `DiaryTypes`. A live rule's source is one of its ceremonies (`Sane`),
  the foreign keys hold both ways (`Linked`), and what requests remember was so when they
  read it (`Asked`). A family's removal is a recursion over its ceremonies; `LeftExists` and
  `LeftAfterIs` say that it stops at states like those that single deletes reach.
- `SlotsStayExclusive`: the index keeps keys apart (`Indexed`) and a row that was not torn
  has its key from its day (`Fitting`), so slots are apart: `KeysMakeSlots`, for any length
  of month.
- `DeletesAlwaysGoThrough`: a delete that finds its rule and its series as it read them
  points the rule at a survivor or takes it along (`CalmIsNotRefused`).
- `HistoryIsKept`: the removal deletes a row only if it is upcoming itself, or no earlier
  than an upcoming one of its series (`NoEarlier`).
- `OccurrencesAreWrittenOnce`: `Behind`, all dates written are up to the rule's marker, and
  a top-up writes beyond it; `Held`, an event's rule stays as the top-up that locked it read
  it.
- `RepeatsRunTheirCount`, `NoDateIsMissing`: `CountInv`. The dates of a rule go by whole
  steps of its pattern from its start, the marker is at most one step past the end, and past
  the end's month the end itself is not among them (`DatesRight`); an event has all of them
  while it keeps to one Roj (`Whole`). A step is a run of the generator's loop over any
  window (`RanRight`, `RanWhole`); counting the steps up to the end gives the bound
  (`CountBounds`). TLC checked `CountInv` with four acts before it was proved.

### CalendarProofs

The real calendars, with no bound on the walk (`LastYear` may be any year) or on the day a
death is entered. No induction is needed: years are counted by division, and what divides
unevenly is bounded.

- `CalendarAlwaysAgrees`. A year begins 365 or 366 days after the one before, and so many
  years on by bounds that `YearsAverage` gives (`NextYearStarts`, `YearsAtLeast`), so
  `YearOf`, which looks near the average, finds a day's one year (`YearOfIs`,
  `YearOfOnly`). From that every day has one Parsi date in each calendar, which exists and
  leads back to the day (`DayHasDate`), and every date that exists is read back
  (`DateIsRead`). The invariant `WalkInv` says that what was counted is the Gregorian date
  of the day and, in each calendar, the date the engine reads; `NextCivilIs` and
  `NextParsiIs` are its step, through both Februaries and all Gatha days.
  `NearestIs` reduces the next occurrence of a date to the first year that has it and is
  not over, if it is scanned: `OrdinaryNotPassedOver` for the days of every year,
  `SixthNotPassedOver` for the sixth Gatha, where `LeapSoon` needs a leap year within four
  and so ends at 2096.
- `ALaterDeathIsTooLate`: `LatestFound`, one of the last three years has the date on a day
  that is not too late, and the next year's is too late.

### ScheduleProofs

Of a memorial's schedule: for every calendar, death, choice and delay (`AskInv`: a memorial
that is entered is well formed, and its series begin within reach of the limit at which
`_first_valid` gives up).

- `NamesAreAlwaysKept`. A row's kind, name and day are told by its name and the death alone
  (`KeptUnder`, `RankedIsNamed`, `SameNames`), so a name that a schedule and the one of the
  next day share is one day in both; each kind of day is finite (`RankedIsFinite`), ranks
  differ, so a day is one row's (`OneKindToADay`) and names are as many as rows.
- `PassedDaysAreAlwaysLeftOut`. Counting by Roj and Mah is put as places of a cycle that
  runs on through the years (`Place`, `PlacesSpan`: later places are later days, by no more
  than the Gatha days between). `MonthDayIs` and `YearDayIsFound` find every day that can be
  picked on it, `ShownDaysDiffer` that no two of them fall together, and so the schedule of
  every named day from today (`EveryDayIsShown`, `PassedAreLeftOut`) is what the form does
  not show as over.
- `ScheduleIsAlwaysWhatWasAsked`. The code counts; the words are read off the Parsi date of
  every day that is looked at. Each kind of day is a series numbered by all integers whose
  days ascend (`Ascends`): the places of the cycle with one of some Mahs and the Roj that
  goes with it (`Fits`: Fravardin Rojs, birthdays, Parabs), the monthly days, the yearly
  days, of which a Gatha death's are on the last Gatha day there is. Looking finds the days
  of a series and no others (`FitsFinds`, `MonthlyIsFound`, `YearlyIsFoundByRoj`,
  `YearlyIsFoundByGatha`: here a day is read back to its place by what `CalendarProofs`
  shows), and the first n that are not over are those numbered from where it begins
  (`FirstOfRun`). Counting takes the same: `_first_valid` comes to an end there
  (`FirstValidIs`), and the years and turns that the code scans for the others have the
  n-th of them (`TimesAreTheRun`, `FirstParabs`). `MonthIsYear` says which monthly day is a
  yearly one, which settles who a day goes to between the two (`SeriesAreMeant`,
  `SeriesClaimed`). So what is ranked has, of each kind, the days that are meant
  (`RankedAreMeant`), and the highest of a day is the same in both. The days looked at go
  on for eight months to a Parab, more than the series needs, as the proof spans the Parabs
  by whole turns of the cycle (`TurnsSpan`).

What the attempts showed: without saying that ids are not given twice, `EveryWordStands` is
false of a memorial that is deleted and made again under a request (`used` was added);
that a slot is taken once is not true of machis whose edits overlap (the finding of
`doc_slot_twice`; `SlotsExclusive` leaves out the torn ones); `RunsItsCount` holds of machis
only while top-ups do not overlap; that each new year is found in its Gregorian year fails
far from today and in leap years that begin and end with one (2836 and 2960 are the first),
which `NavrozeIsInReach` now says.

Only model-checked is liveness, which is out of the prover's reach: `EveryReminderSettles`,
`EveryStopIsHonoured`, `ReportComes`.

`BookTypes`, `LedgerHolds`, `CustodyAlways`, `BookHoldsBesideTheWorker` and `RowsStayJoined`
are proved of formulas that no run lists: they are what the others rest on.

## 6. Not modelled

Wording and templates (formatting; that a text may be refused is the constant
`Unsendable`), phone number validation, the bot check, the rate limits kept in a
process's memory, configuration, the database schema's columns beyond those the models
name, scripts and the browser application. Saved names are left for later: rows that a
save replaces by section, so that two that overlap can leave both sets of rows or take
away what the other added, although `merge_saved_names` promises that nothing is removed
or added twice. So is the erasure of an account (one transaction of deletes). Of
modelled components: an event's acceptance by other mobeds, the search for free slots,
slips and listings, `dry_run`, the worker's heartbeat, forwarded replies. The reason for
each is in `PROJECT.json` under `components`.
