# Laser Lockdown: specification and proofs

TLA+ specifications of the makerspace lockbox of this repository, model-checked
with TLC and, where it says so, proved with TLAPS for every value of the
constants. Paths are relative to the directory that holds the repository:
`src/src/main.rs` is the firmware's main file, `src/README.md` its readme.

## 1. The system

An ESP32 with two cores drives a lockbox: a keycard reader, an actuator that
moves a bolt, a door switch, a LED and a buzzer, an SD card and a WiFi panel
for an administrator.

| Part | Where | State | Operations |
|---|---|---|---|
| `io` task (core 1) | `main.rs:77-207` | add mode and when it was enabled, the bolt, what it waits for | read a card; in add mode send it and blink; else ask, unlock and log, or refuse; flash, wait for the door, lock |
| `sd` task (core 1) | `main.rs:211-382` | one command at a time | boot: fill the caches, log the boot; then one arm per `Command` |
| User database | `sd.rs:396-489`, `net.rs:29`, `147-183` | `USER.TXT`, the cache `USERS` (32) | boot, add, remove, rename, remove all; the panel changes the cache at once and sends the command |
| Log | `sd.rs:221-393`, `net.rs:30`, `104-139` | `LOG.TXT`, the cache `LOGS` (1024 bytes) | boot, log, truncate, clear, stream |
| Panel (core 0) | `net.rs` | session token, password hash | login, logout, change password, list, update, remove, clear, add mode, logs |
| Clock task (core 0) | `ntp.rs` | unix base and moment of synchronisation | synchronise, answer requests for the time, convert to a date |
| Storage | `sd.rs:68-325`, `sd_utils.rs:14-44` | files on the card | read, append, overwrite, delete, each tried four times |
| Card reader | `rfid.rs` | bits collected | put a 35-bit frame together, 50 ms between bits |
| Boot and WiFi | `main.rs:385-532`, `wifi.rs` | - | wait 30 s for WiFi, start core 1, start clock and web server if connected |

**How they interact.** Four `Signal`s, each of which holds one value and is
overwritten by the next (`main.rs:412-422`): `COMMANDS` from the panel *and* the
`io` task to the `sd` task; `USER_CHECK` back to `io`; `TIME_REQUEST` and
`TIME_RESPONSE` between `sd` and the clock. The caches are mutexes shared by the
cores. `ADD_MODE` is shared by the tasks of core 1.

**What is hard.** Two cores interleave around every await; within a core tasks
are cooperative, so what lies between two awaits is atomic for the neighbours
but not for the other core. The command slot has several writers and no queue.
Files are rewritten in place and power may go at any moment. A panic stops the
core it happens on and only that one (`main.rs:54-71`). Nothing has a timeout
except WiFi and the bits of a card.

**What makes it correct**, part by part:

- user database: the file backs the cache, so that a restart lets in nobody the
  file does not list; nobody leaves the file but by a command that means it; a
  removal removes one user, everywhere; only hashes are stored;
- log: the file stays bounded; the cache never overflows; logging does not stop
  the device;
- storage: a file that was being overwritten is the old one or a part of the new
  one, an append keeps what was there, an operation ends;
- session: one administrator at a time, a session that is over stays over, the
  password in force is the one set last;
- clock: it tells the date on the wall; card reader: it invents no number;
- tasks: an answer belongs to its question; a response with the time belongs to
  the entry being written; a card is answered; a command is carried out;
- door: the bolt moves back only after a yes about the card presented, which is
  one the file lists, and is moved forward again.

`PROJECT.json` lists the hazards line by line with the property that covers
each, what that property excepts, or why none covers it.

## 2. The modules

| Module | Models | Lines of the code |
|---|---|---|
| `Signals` | cards, hashes, the commands, what a `Signal` is | `signals.rs`, `net.rs:242-269` |
| `UserStore` | the user database, both sides of it | `sd.rs:396-489`, `net.rs:147-183`, `538-542`, `621-625` |
| `LogStore` | the log, both sides of it | `sd.rs:329-393`, `net.rs:104-139` |
| `SdStorage` | one file: write, read, read from the end, truncate, remove, attempt by attempt | `sd.rs:68-149`, `215-285`, `sd_utils.rs:14-44` |
| `Session` | the token, the browsers' cookies, the password and its file | `net.rs:191-240`, `299-324`, `375-535`, `593-618`, `sd.rs:493-498`, `main.rs:315-322` |
| `CardReader` | the two lines, the bits and the 50 ms | `rfid.rs` |
| `Clock` | the time kept, the daily synchronisation, the date | `ntp.rs:73-171` |
| `Access` | the door's promise, abstractly | (a specification, not code) |
| `Lockdown` | all tasks together; uses `UserStore` and `LogStore` by `INSTANCE`, implements `Access` | `main.rs`, `ntp.rs:73-172` |
| `MC...` | small instances of each | |
| `...Proofs` | theorems on each, except `Access` and `Signals`; `LockdownRefinement` has those that join the parts | |

### How the code is read

*Signals.* A signal is a set of at most one value; `signal(v)` is `s' = {v}`,
`wait()` is an action enabled when the set is not empty, which empties it.

*Atomicity.* A handler of the panel that takes the mutex of `USERS`, changes the
cache and signals does not wait in between: it is one action. A command of the
`sd` task is one action per access to something the other core or the SD card
can see: `remove_user` is `RemoveUserOpen` (read, filter, open, which empties
the file), `RemoveUserWrite`, `RemoveUserRetain`. What is left to do of it is
kept in `job` (in `LogStore`, `logJob`), a set of at most one record. Between
these steps the panel may act and power may fail. `log_message` likewise:
`Measure`, `Keep`, `AppendLine`, `Refresh`.

*Data.* A line of `USER.TXT` that lists somebody is a record of an id and a name;
the id is a member of `Id`, `Hash` a function on `Id`; names are atoms. How the
file ends is in `tail`: with a newline, within the name of its last line, or
within a line that lists nobody (a number without a name, or digits that are no
u64). What is written behind a name that was cut only makes that name longer;
what is written behind a number begins with its own digits, and the number the
two make is one of `Garbled` or none (`PutPiece`). The panel's requests carry the id of a cache
entry, which is a hash; `remove_user` and `change_name` hash it again, and so
does the model. The log is modelled by its length, which is all `log_message`
looks at. Entries of the log never depend on the time, so in `Lockdown` a time
is just "time"; which time it is, is `Clock`'s.

*Faults.* With `SdFaults`, a read may give up and yield the empty text
(`sd.rs:148`), a rewrite may leave any number of its lines and a piece of the
next (`TornRewrite`) or not open the file at all, and a log that cannot be
measured or reopened is not cut (`sd.rs:350`). The append of a user is a step
for each attempt (`AddUserWrite` succeeds, `AddUserFails` does not and leaves any
piece of the line), so that one repeated behind a piece of itself, one that gives
up, and one behind what an earlier boot left torn are all met; the entry is cached
in each case, as in the code. The write of a password may leave nothing, the
whole hash, or its first digits, which are a number as well (`TornHash`). `SdStorage`
shows that this is what is left by the attempts. With `PowerLoss`
everything but the file, the bolt and the door starts afresh, between any two
steps, and the file is left as by a failed attempt at what was being written. `Lossy` says whether a signal may replace a command not yet taken;
`Lockdown` fixes it to `TRUE`, as the code has it; the violations found with
`FALSE` therefore need no lost command.

*Composition.* `Lockdown` builds its steps from the actions of `UserStore` and
`LogStore`, whose `cmd` is one variable: `SdUsers` and `SdLogs` never work at
the same time, because it is one task. In each of the two modules
`OtherTraffic` stands for the rest; that the rest behaves so is not assumed but
checked (`UsesUserStore`, `UsesLogStore`). The io task's wait is in `io`:
waiting, hashing, asking, unlocking, flashing (with the flashes left), locking,
pulsing, blinking. Core 0 is in `core0`: starting, then offline, or syncing, up,
answering; dead after a failed first synchronisation (`ntp.rs:166`); unsynced or
stuck when the datagram the clock task waits for is lost (`ntp.rs:91`, `104`),
in which case the web server goes on.

*Storage.* `SdStorage` has one operation at a time on one file, since only the
`sd` task makes any. A step is opening, writing, reading one buffer, or flushing
and closing; each may fail, a write after any part of the text; the next attempt
starts over, with an empty output if it reads (`sd.rs:102`). A
text is a sequence of bytes of three kinds, one for characters of one byte and
two for the halves of one of two, which is as much as `from_utf8` on a buffer
can tell. `truncate` reads with retries and then cuts and writes once, ignoring
what fails. File handles need no state: a handle dropped by a failed attempt
closes itself. `UserStore`, `LogStore` and `Session` use an operation in one or
two steps, with what `SdStorage` says of its outcomes.

*Session.* A browser's cookie is an empty or one-element set of tokens, and so
is `TOKEN`; all four extractors compare the two (`Authorized`). The answer that
carries a cookie may be lost, in which case `TOKEN` has changed and the browser
has not. A login has two steps, because it waits for `PSWD`, which core 1 fills
at boot; until then it keeps the only connection. `PSWD.TXT` is the sequence of
the numbers in it. The last three variables only remember what was asked for, so
that the properties can speak of it.

*Card reader.* The environment sends frames of any length, a bit at a time, and
the task sees edges: a bit sent while nobody waits, or before the last one was
looked at, leaves no bit of its own. `alone` and `whole` remember how the frame
on the lines began.

*Clock.* Time is in minutes from 1970. The device's timer is exact in the model,
so that an error would be the code's. The wall calendar (`today`) is turned a
page at a time by `Pass` and never computed from `utc`.

## 3. The runs

Passing runs:

| Run | Instance | Shows |
|---|---|---|
| `UserStore_faults` | 2 cards, 2 names, cache of 2, a card presented up to 2 lines, 2 attempts; attempts that fail and leave pieces, power losses, lost commands; 1 165 910 states, a minute | `OnlyHashesStored`; `CacheBacked`: unless a rewrite gave up or a read failed, the only ones let in whom the file does not list are those whose own line was given up or ran into a torn one, and that is one user at most if no append failed; `NobodyDropped`: nobody leaves the file but by a command that means it, however lines are torn and glued; `StoreTypeOK` |
| `LogStore_bounded` | limit 12, cache 5, lines of 2 and 3, 2 attempts; faults, power losses, lost commands; 25 252 states | `LogFileBounded`: within a line of the limit through panics and power losses, and back there with the first entry written without a failure; `LogTypeOK` |
| `Lockdown_safety` | 2 cards, cache of 1, log of 2; online, offline, a time server that fails or is silent, power losses; 679 990 states, about two minutes | `AnswerMatchesQuestion`, `TimeInStep`, `OnlyPanelLosesQuestions`, `GovernsDoor` (implements `Access`), `OnlyListedAdmitted`: a yes is about a card the file lists, or one whose line ran into a torn one; `UsesUserStore` |
| `Lockdown_live` | 1 card, online and offline, no power loss, fair; 118 337 states | `CardAnswered`, `RelockedOnceShut`, `UnlockedIsAttended`, `UsesLogStore` |
| `Session_faults` | 2 browsers, 4 tokens, 2 passwords; faults, power losses, lost answers; 109 410 states | `OneSession`, `SessionsEndForGood`, `PasswordInForce`, `LoginsAnswered` |
| `CardReader_lines` | frames of 4 bits with a number of 2, others of 2 and 5 bits, missed pulses, cards in a row; 31 652 states | `NotMisread`, `WholeIsRead`: no bit of a card is given up of which no pulse was missed, `CardRead`, `Forgotten` |
| `Clock_calendar` | three days from six evenings; 66 492 states | `TellsTheTime`, `ClockTypeOK` |
| `SdStorage_faults` | 3 attempts, buffers of 2, texts of 1 and 3 bytes, failures and power losses at every step; 88 009 states | `AppendKeeps`: what was there, and a piece of the text for each attempt; `OverwriteReplaces`, `ReadsBack`, `TruncateKeepsEnd`, `StepsAdvance`: no attempt stands still, `OperationsEnd` |

Runs that find what the code does against what its documentation says:

| Run | Against | What happens |
|---|---|---|
| `UserStore_removed_user_returns` | "Removes a user with the specified id from the database" (`signals.rs:12`) | the id is hashed twice, no line matches, the user is back after a restart |
| `LogStore_panic` | "Up to 128 lines can be logged at once" (`src/README.md:22`) | with the code's own sizes (4096, 1024, lines of 14 and 49) some twenty lines are more than the cache takes and the `unwrap` panics, at every later boot again |
| `Lockdown_offline` | "Proceeding in offline mode" (`main.rs:459`) | the first opening makes the `sd` task wait for a clock that was never started; no later card is answered |
| `Session_old_password` | "Sets a new unhashed password, overriding the old one" (`signals.rs:20`) | the file is written and the cached hash is not: the old password logs in, the new one does not, until the next restart |

Further effects, which the models reach or the same causes have, and which have
no run of their own:

- the io task's question travels in the slot the panel writes to: a request
  overwrites it and the io task waits for ever (`QuestionLost`, the exception in
  `CardAnswered`); so may an `AddUser` be after the triple blink (`main.rs:134`)
  and a `LogUser` after the door opened (`main.rs:158`);
- a card added twice has two entries; the panel removes one of them, the
  `retain` compares with the wrong hash, the card still opens (`sd.rs:413`);
- a loss of power while a user is being added may leave his line without its
  newline; the line of the first user to be added after the boot then runs into
  it, and he is cached and let in but not listed, though nothing failed
  (`sd.rs:407`; `astray` in `UserStore`, the exception in `CacheBacked` and
  `OnlyListedAdmitted`, which TLC reaches in both);
- a failed read during a removal is taken for an empty file and written back:
  everyone is off the card (`sd.rs:148`; `damaged` in `UserStore`);
- a rename never reaches the file (`sd.rs:440`), and lines of removed users fill
  it, so that after a restart the cache of 32 may drop a user (`sd.rs:477`);
- a repeated append may glue pieces of a line together (`AppendKeeps` says
  what they are and how many); three of them make a name longer than 35 characters, on
  which `list_users` panics at every boot (`sd.rs:474`); a line glued to a piece
  of another belongs to nobody, or to the wrong number;
- a log that cannot be read when it is to be truncated is lost as a whole
  (`sd.rs:223`, the last case of `TruncateKeepsEnd`);
- the panic of the log stops the io task with the bolt back, and the door stays
  unlocked (hence `panicked` in `RelockedOnceShut`); a power loss while unlocked
  leaves the bolt back after the restart (hence the assumption of
  `UnlockedIsAttended`);
- the door may be opened again while the actuator locks (`main.rs:190`);
- a clear that arrives while a line is being written leaves the panel showing
  what was deleted (`sd.rs:370`);
- a lost datagram of the time server keeps the clock, and at the next opening the
  `sd` task, for ever (`ntp.rs:91`; "unsynced" and "stuck" in `core0`);
- a password file that cannot be read makes core 1 panic at boot
  (`main.rs:321`); one that is empty, or cannot be opened, means the default
  password (`main.rs:317`); one that was torn within the digits of the hash
  parses, to a number that no password has, and nobody can log in until the file
  is written by hand;
- a frame longer than 35 bits may be misread when a pulse is missed, the parity
  bits are not looked at, and of the facility code only some bits are kept
  (`rfid.rs:55`);
- a buffer that cuts a character is dropped as a whole (`sd.rs:124`, the
  condition of `ReadsBack`); what the code writes today is all ASCII, since no
  rename reaches the file;
- the page sends ids rounded to 53 bits (`index.html:86`) and a change of the
  password under names `LoginRequest` does not have (`index.html:159`,
  `net.rs:594`), which the handler answers with 401;
- the comment at `ntp.rs:121` promises a year of two digits; four are printed,
  as the 17 characters of the string need.

### Bounds

Every bound is a constant. `MaxUsers` (32 in the code) is 1 or 2: full, not
full and overfull are all met, since `MaxFileLines` is at least as large and
retried appends go past it. `MaxFileLines` bounds the presentation of cards in
add mode, not the file itself. Two
cards are needed for one to be the other's victim (`CacheBacked`,
`AnswerMatchesQuestion`); liveness is checked with one.

In the instances card numbers are 1 and 2 and a hash adds 10. The hash of 11 is
11, so that the hash of a stored hash can be a stored hash and `change_name`
does find a line and rewrites the file; that of 12 is 22 and finds none, as is
all but certain with SHA-256. That the hash of a stored hash is *another* stored
hash is excluded (`HashesApart` in the proof): a removal that met it would take
out somebody else's line. `Garbled` is {12}: glued digits that happen to be the
hash of a card are the worst they can be, and that they are no number at all is
among the outcomes anyway. In the runs of `Lockdown` it is empty. `TornHash` is
{3}, which no password hashes to.

`MaxLogFile` (16) lets a log that escaped its truncation grow past the bound of
15 and further. `LogMaxSize` and `LogPacket` are small where the property does not depend on
them and the code's own in `LogStore_panic`. In the runs of `Lockdown` the log
is kept as short as it can be, so that a panic and a truncation both happen
within two or three lines. `Lockdown_safety` leaves out the change of a password
and the panel's requests for the log, which `Lockdown_live` has. Its cache holds
one user; renames with the faults of the card are in `UserStore_faults`. `Flashes` (20) is 0 or 1:
the flashes are alike, and a door that opens between two of them opens at the
one there is.

Two browsers are enough for one to be the other's predecessor; four tokens are
two that are in use, one that was and a new one. A frame of 4 bits, two of them
the number, has a bit before, two in and one after the number; with frames of
two and of five bits, and pulses missed anywhere, every way to be too short, too
long, or glued to the rest of another is met.
`Clock_calendar` begins half an hour before midnight UTC (18:30 local time), so
that both midnights are crossed, at the ends of the Februaries of 2000, 2025,
2028 and 2100, of the year 2026 and of an April, and goes on for three days, in which the
synchronisation becomes due twice. `SdStorage_faults` has a first, a middle and a
last attempt, texts that fit a buffer and texts that do not, a character that a
buffer may cut, and files on either side of the threshold. The proofs remove
these bounds for the properties they cover.

`Lockdown_live` sets `CHECK_DEADLOCK FALSE`: without power losses the box really
can stop, when core 1 has panicked or both tasks wait for what never comes and
the panel has nothing more to ask for.

### Fairness

`FairSpec` of `Lockdown` has weak fairness of `StartCore1` (the 30 s run out),
`SdStep` and `IoStep` (the executor of core 1 polls a task that can continue,
timers run out, SD operations return) and `ClockStep`, which may be the loss of
a datagram: nothing in `sync` (`ntp.rs:74-98`) gives up waiting.
One condition per core 1 task is enough, although `SdStep` covers several
actions, because the task has one thing to do at a time. People owe
nothing: no fairness of cards, doors or browsers, which is why
`RelockedOnceShut` assumes that the door stays shut from some time on.
`UserStore!FairSpec` has weak fairness of the `sd` task only. `Session` has it of
the `sd` task and of the login the server is working on; browsers and the power
supply act or not. `CardReader` has it of the bits of a frame that began, of the
50 ms that pass when the lines are still, and of the task that has an edge or a
timeout to see; not of cards, nor of the io task's return to `read_card`.
`SdStorage` has it of its steps: every SD operation returns, if only with an
error, and the half second between two attempts passes.

## 4. The proofs

All theorems are checked to the last leaf; they hold for all constants that
satisfy the assumption named in their module (`UserStoreAssumption`,
`ClockAssumption` and so on), and `VocabularyAssumption` of `Signals`.

**`UserStoreProofs`.** `StoreTypes` and `HashesOnly` come from one invariant,
`StoreInv`: the types, `OnlyHashesStored`, and the same for the lines a job
still has to write (`JobHashed`) - without it the rewrite of the file could put
anything there. The subtle case is `change_name`, which writes its parameter
unhashed (`sd.rs:449`): it is a hash already, because the line matched and the
panel's ids come from the cache. `CacheIsBacked` needs what each stage of a
command owes the next (`Owed`): while a user is being removed the file is empty
and it is the lines still to be written that back the cache. SD operations may
fail: what `CacheBacked` excepts for good is the time after a rewrite that gave up
or a read that failed, until the next boot (`damaged`), and the invariant has to
say that a job is under way with all its lines if nothing was damaged. An append
excepts only the user it was for (`astray`), because what is put at the end of the
file takes no line away (`PutLines`) and lists him if the file ended with a
newline. `OneAstray` is the part that bounds the exception: as long as no append
failed, a line that was written is whole and closes the file, so that the torn
line from before the boot is run into once. The theorem assumes `HashesApart`, that
the hash of a number that may be stored is not another such number. `NoUserDropped` is about steps: of
whom the file lists, or will list when the rewrite under way is done (`Listed`),
a step takes out only what its command names (`ListedKept`); the exceptions are
a rewrite that gave up or a read that failed (`damaged`) and power lost in the middle of a rewrite,
in which the lines not yet written are lost (`OverwriteReplaces`). About
sequences the proofs use lemmas on the operators of `UserStore`:
what `Kept` returns (`RankInjective`, `RankSurjective`, `KeptLines`), that what a
rewrite leaves is made of its lines (`TornLines`), what `PutPiece`, `Without`,
`SwapRemove`, `Renamed` and `Loaded` do to the set of ids.

**`LogStoreProofs`.** `LogTypes` and `LogBounded` from `LogInv`: an append can
only be under way with room for its line below the bound (`RoomForLine`),
because it follows a measurement or a truncation. This is where `>=` against `>`
(`sd.rs:357`, `235`) shows: at exactly `LOG_MAX_SIZE` nothing is truncated, and
the bound is a line more than one would think. `strained` remembers from a
failure that kept the file from being cut, or wrote a line more than once, to the
next measurement; `WrittenOnce` is the step on which the bound rests otherwise,
a part of the line being written when power goes included.

**`LockdownProofs`.** `AnswersMatch` and `PanelLosesQuestions`: with the type of
the io task's state and the slot holding one command, `AnswerMatchesQuestion`
is inductive (`QuestionInv`). The lemmas `PanelDoesNotAsk` and `OthersDontAsk`
say what everyone else does to the slot; only the panel replaces a question.
`NeverLeftUnlocked`: without a loss of power the bolt is back only on the way to
locking. `TimeStaysInStep`: of request, answer in the making and response
exactly one exists while an entry is being stamped, and none otherwise
(`TimeInv`).

**`LockdownRefinement`.** The whole implements its parts and the door's promise.
A step that is foreign to a part is its `OtherTraffic` if it leaves that part's
variables alone and uses the slot for commands of others (`Elsewhere`); the
lemmas of the form `...Moves` show it of every step, given that the slot holds a
command and the io task a card (`CommandInv`). From `PartsMoveTogether` follow
`ImplementsUserStore` and `ImplementsLogStore`. With them the theorems of
`UserStoreProofs` and `LogStoreProofs`, instantiated with lost commands (`Lossy`
true), are theorems about the lockbox: `LockdownHashesOnly`,
`LockdownCacheBacked` and `LockdownNoUserDropped` (under `HashesApart`),
`LockdownLogBounded` and, with the types of the tasks (`TasksInv`), `LockdownTypes`. `SameStore` and `SameLog` only
say that two instances of one module agree, definition by definition.
`DoorIsGoverned`: with `AnswersMatch`'s invariant the answer of `SdIsUser` is
the judgement on the card presented (`JudgeStep`), the io task obeys it
(`IoSteps`), and whatever everyone else does is at most an enrolment or a
revocation (`AdministerStep`). `AdmittedAreListed` joins the two halves: the
answer yes comes from `SdIsUser` alone and is about the card at the reader
(`YesIsJudged`); the `sd` task takes the question between two commands, and
then, by `LockdownCacheBacked`, the cache it looks into lists nobody the file
does not, but for those whose own line is `astray`. `CacheBacked` says nothing of the time within a command, which is why
the theorem needs both.

**`SessionProofs`.** `SessionTypes` and `PasswordKept` from one invariant: while
a rewrite is under way the file is empty and the hash to be written is that of
the password last chosen (`CutHash`: cut short, it leaves one number or none);
otherwise, unless storing it was spoilt, the file holds
that hash, or is empty and the password is still the default. `OneAdministrator`
needs that no two browsers hold the same token, which a login preserves because
its token is fresh. `NoSessionRevives` is an action property: only a login makes
a cookie and `TOKEN` equal that were not.

**`CardReaderProofs`.** `NeverMisread` rests on the invariant `Behind`: while a
frame that began alone is on the lines, what the reader has collected is never
longer than what was sent, and if it is as long it is the same. A whole frame
collected has then lost nothing (`FrameCollected`). `WholeCardsRead` is the
other direction: of a card none of whose pulses was missed the reader has every
bit but the one on the lines, and the 50 ms have not run out, or it has returned
the number (`NothingLost`). With `CardRead`, which TLC checks, it says that such
a card is read.

**`ClockProofs`.** A day of an era is put in its place: the century, the group of
four years, the year and the day in it (`Place`, `DayHasPlace`). At a place the
divisions of `YearOfEra` and `DayOfYear` come out (`YearOfPlace` and the lemmas
before it), the months follow, and `CivilIsCalendar` says that the day after is
the calendar's tomorrow, for every day from 1970 on. `AlwaysTellsTheTime` adds
that base and age always sum to the present (`InStep`), whatever became of the
synchronisations.

**`SdStorageProofs`.** `StorageTypes` first: it is what the lemmas on records
(`UnderWay`, `GoesOn`, `Ends`) rest on. `AttemptsRunOut`: each step of an
operation is a later attempt, a later stage or a later place in the file than the
one before. The rest comes from one invariant, `StorageInv`, which says what each
stage of an operation owes the next (`Stage`) and what one that is over may say
(`Ended`):

- `NeverMixed`: the file is empty before each write of an overwrite
  (`Overwriting`), because a new attempt empties it again;
- `AppendsKeep`: before it writes, an attempt finds a file to which any beginning
  of the text can be added and still be one piece for each attempt, and after it
  any end of what it wrote may be lost (`Appending`). `AppendKeeps` alone is not
  inductive: it does not say that the power takes no more than the last piece.
  `FirstPiece` and `OneMorePiece` put the pieces behind each other;
- `ReadsAreTrue`: what was read so far is the first buffers of the file, whole
  (`ReadSoFar`, `NextBuffer`), because every attempt starts with an empty output;
- `TruncationKeepsEnd`: what is put back was read while the file was as it had
  been (`KeptEnd`).

**Only model-checked.** Every invariant and every action property of the passing
runs is a theorem. What stays with TLC is liveness (`CardAnswered`,
`RelockedOnceShut`, `LoginsAnswered`, `CardRead`, `Forgotten`, `OperationsEnd`):
the prover does not reason about fairness and `ENABLED`. Of two of them the
safety half is proved: `StepsAdvance` of `OperationsEnd`, `WholeIsRead` of
`CardRead`. No module here declares a recursive operator.

## 5. What is not modelled, and what is left

Not modelled:

- the WiFi driver (`wifi.rs`): calls into libraries that are not in the
  repository; its outcome after 30 s is in `Lockdown`. Whether `connection`
  misses a disconnection between looking at the state and waiting for the event
  (`wifi.rs:18-19`) depends on the library;
- the HTML page, `build.rs`, `lib.rs`: the page sends requests, in any order,
  and the models allow any; the others do nothing at run time;
- set-up of the peripherals, the SPI bus and the SD card, and a panic in it
  (`main.rs:222-297`, `386-445`): it leaves no state the rest reads;
- `read_last_line` (`sd.rs:152-213`), whose result is printed, and reading a file
  by line number (`sd.rs:126-135`), which nobody does;
- in the log: the contents of lines; in `USER.TXT`: how long a name gets, and with
  it the panic on one of more than 35 characters (`sd.rs:474`);
- the drift of the device's timer, daylight saving time ("This does NOT account
  for DST", `ntp.rs:102`), and dates before 1970.

Left to do: the refinement of the file operations of `UserStore`, `LogStore` and
`Session` by `SdStorage` is argued in section 2 and not stated as a theorem,
because the three modules see lines, lengths and hashes where `SdStorage` sees
bytes.
