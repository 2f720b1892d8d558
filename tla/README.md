# TLA+ models of the EChain SDK

EChain is a C++ client library: an application calls its `EChain_*` functions
(`src/test/api_echain_func.cpp`) to register users and contracts, to put
evidence about business data on a ledger, and to look it up again. The ledger
itself is a separate node that the library talks to over HTTP
(`127.0.0.1:25000`); what the library knows besides, it keeps in MySQL tables.
This directory models the part of the library that changes state, checks it
with TLC on small instances, and proves the main results with TLAPS for every
number of threads, accounts and calls.

## 1. The system

### Components

| component | source | state | operations |
|---|---|---|---|
| stock of prepared accounts, registration | `test/api_echain_func.cpp` 1047-1392, 1512-1881, 2104-2136 | tables `preaccount_info`, `account_info`, `user_register`, `contract_account`, lock `g_dbmutex` | `EChain_AccountPrepare`, `EChain_CreateAccountX`, `EChain_CreateAccount`, `EChain_UserRegister`, `EChain_ContractAddressCreate` |
| transactions of the genesis account | same, 431-587, 936-973, 1525-1585, 1600-1762, 3406-3425 | global `g_genesisNonce` | the nonce loop of `CreateAccount`, `CreateAccountX`, `ObtainAssetCode` |
| evidence | same, 589-710, 874-1012, 1395-1442, 1899-2031, 2166-2689 | tables `business_data`, `user_certification` | `EChain_UserCertification`, `EChain_BusinessDataStorage`, `EChain_BusinessDataUpdate`, `EChain_ContractAddressDelete` |
| start-up | same, 1444-1508 | database connection, log file, `g_genesisNonce` | `EChain_InitSDK` |
| queries | same, 2690-3405 | none (reads tables and ledger) | `EChain_QueryAddressRecord`, `EChain_QueryBlockBrowserInfo`, ... |
| issue of assets | same, 3469-3553 | none | `EChain_IssueAssets` |
| SDK log | same, 82-184 | `logfile`, `g_curTime`, `g_cmpTime` | `NBDLog`, `ChangeLogFile` |
| HTTP client | `common/http_client.cpp` | none | `http_request` |
| OS wrappers | `os/` | mutex, condition, task | `OSMutex`, `OSCond`, `OSTask` |
| threads and locks | `utils/thread.cpp`, `utils/thread.h` | lock words, reader count, task queue | `ReadWriteLock`, `SpinLock`, `Semaphore`, `ThreadTaskQueue`, `ThreadPool` |
| timer | `utils/timer.cpp` | timer list | add, delete, check |
| entry cache | `utils/entry_cache.h` | actions over a parent cache | add, modify, delete, merge |
| logger | `utils/logger.cpp`, `utils/file.cpp` | log file, its backups, time of the last sweep | `Write` with rotation, `CheckExpiredLog` |
| expression parser | `utils/exprparser.cpp` | `detect_` | `Evaluate`, `Parse` |
| wide integers | `utils/base_int.cpp` | none | arithmetic of `uint128_t`, `bigDivide` |
| configuration | `config/` | `SConfigPara` | `ReadIni`, `GetIniString` |
| MySQL wrapper | `mysql/` | connection | not called by the SDK |
| keys, certificates, cryptography | `common/private_key.cpp`, `common/ca.cpp`, `common/cfca.cpp`, `utils/crypto.cpp`, `utils/sm3.cpp`, `ec/` | none | sign, verify, hash |

`3rd/` and `gtest/` are third-party code, the `*.bak`, `*_bak` and dated files
are old copies.

### How they interact

Application threads call the SDK concurrently. They share three things: the
database connection, protected by the one mutex `g_dbmutex`; the global
`g_genesisNonce`, protected by nothing; and the ledger accounts, whose nonces
the node hands out and checks. A database function takes the lock, sends its
statements one by one outside any database transaction, and unlocks by hand on
each return path. An HTTP request either gives an answer or an empty string,
which does not tell whether the node executed it. A transaction takes three
requests: read the nonce, build the blob, submit it. The node answers 0
(accepted), 3 (this nonce already waits in the pool), 99 (nonce out of
sequence) or 100/104 (no tokens left); the SDK's loops react with `goto`.

### What is hard

The full list, with lines, is `hazards` in `PROJECT.json`. In short:

* every read and write of `g_genesisNonce` races with those of all other threads;
* the nonce the node reports is the closed one, stale while transactions wait;
* an answer that is lost cannot be told from a request that is lost;
* a crash or a failing statement between delete and insert;
* select-then-insert sequences that only `g_dbmutex` makes atomic;
* unbounded `goto` loops, and a token purchase inside one of them;
* results of database functions that callers ignore or misread;
* locks and lists of the utilities: a writer that spins on a counter, timers
  that change while they are executed, a log file that is replaced or deleted
  while other threads print;
* the boundaries of computations: pages, carries, a shift loop, operators that
  change the type of a value.

## 2. Modules

| module | content |
|---|---|
| `EChainNode` | the ledger node as the SDK uses it (external code): nonces, transaction pool, ledger close, tokens |
| `GenesisTx` | one transaction of the genesis account, step by step, with the shared `g_genesisNonce`; extends `EChainNode` |
| `AccountPool` | registration and the stock of prepared accounts; extends `GenesisTx` |
| `Evidence` | the evidence functions; extends `GenesisTx` (they buy tokens with a genesis transaction) |
| `EvidenceLog` | abstract: what the evidence functions promise |
| `TaskPool` | `utils::ThreadPool` with its `Thread` objects, task queue and spin lock; stands alone |
| `RWLock` | `utils::ReadWriteLock` over a recursive mutex, with nested guards |
| `Timer` | `utils::Timer`: adding, deleting, `OnTimer` |
| `SdkLog` | `NBDLog` and `ChangeLogFile` of the SDK |
| `Session` | `EChain_InitSDK` and the configuration file it reads |
| `QueryPages` | the two paged queries while rows and blocks are added |
| `EntryCache` | `utils::EntryCache`: a root over a store, and a branch |
| `ExprParser` | `utils::ExprParser` on numbers |
| `UInt128` | `uint128_t` and `bigDivide`, for words of any width |
| `LogFiles` | `utils::Logger`: rotation and the sweep of expired files |
| `IssueAssets` | `EChain_IssueAssets`; extends `EChainNode` |
| `MCAccountPool`, `MCEvidence`, `MCTaskPool` | constants for TLC |
| `MCComponents` | the ten modules from `RWLock` to `IssueAssets` in one state space |
| `GenesisTxProofs`, `AccountPoolProofs`, `EvidenceProofs`, `TaskPoolProofs`, `RWLockProofs` | theorems about the module of the same name |
| `SdkProofs` | theorems about `SdkLog`, `IssueAssets`, `Session`, `QueryPages` |
| `UtilsProofs` | theorems about `EntryCache`, `LogFiles`, `Timer` |
| `UInt128Proofs` | theorems about `UInt128`: the laws of powers of two, the operators, the loop of `divmod` |

### State and actions

`pc[t]` is where thread `t` is in the code; a label stands for the code
between two points where another thread, the node or a fault can interfere: one
SQL statement, one HTTP request, one access to `g_genesisNonce`. Locals that
are still needed are functions of the thread (`dest`, `nn`, `resp`, `cnt`,
`nonce`, `ver`, ...). Tables are sets of rows; rows of `AccountPool` carry the
auto-increment id, so inserting an address twice gives two rows.

* `GenesisTx`: `GetKey`, `Fetch`, `Store`, `Blob`, `SubmitTx`, `Incr`,
  `IncrWrite`, `Recheck` follow the loop from `getPrivateKeyFromUserRegisterDB`
  to the error code; `g_genesisNonce++` is a read and a write. `AfterSubmit`
  holds the difference between the functions: only `EChain_CreateAccountX`
  handles 99.
* `AccountPool`: `RegLock` ... `RegInsert` are `processUserRegisterInfo` and
  `processContractAccountInfo`, statement by statement; `PrepareCount` and
  `PrepareLoop` are `EChain_AccountPrepare`; `NewKeyPair`, `AfterTx`,
  `InsLock`, `InsSelect`, `InsInsert` are the account functions around their
  genesis transaction. `user_register` and `contract_account` are one set
  `assigned`, whose keys are disjoint.
* `Evidence`: `ReadMeta`, `EvKey`, `EvNonce`, `EvBlob`, `EvSubmit`,
  `AfterGrant`, `EvInsert` are the common body of the three evidence
  functions; `EChain_ContractAddressDelete` and `DeleteNext` make such a call
  for each row. Content is abstracted to the call that sends it
  (`<<thread, number>>`), so "the same content twice" is visible.
* `TaskPool`: a worker goes through `RunLoop`, the spin lock, `GetFront`,
  `GetPop`, `GetDone`, `Dispatch` and `RunTask` or `Awake` (`ThreadPool::Run`
  and `ThreadTaskQueue::Get`), and `Tail1`, `Tail2` (the end of `threadProc`). A
  client adds tasks. The owner starts the workers (`AddWorker`), looks at the
  size of the queue (`Size`), and ends the pool with `Disable`, `Join`,
  `JoinWait`, or with `Terminate`. Each pool is started and ended once;
  `PutFront`, which no function of the pool calls, is left out.
* `RWLock`: one action for each step of the four functions between which other
  threads can act: the mutex, the atomic increment, the test of the loop. A
  guard of a reader is a pair `<<thread, k>>`, so that nested guards count.
* `Timer`: `AddTimer` and `DelTimer` (any thread, callbacks included), `OnTimer`
  up to the end of `CheckExpire`, `Excute` for one callback, `OnTimerEnd`.
  `tmFired` and `tmDeleted` record what happened.
* `SdkLog`: `NBDLog` in six steps (call, lock, print and unlock, the three
  accesses to `g_curTime` and `g_cmpTime`), `ChangeLogFile` in three (lock,
  close, open and unlock). A file's name is the minute it was opened in.
* `Session`: the configuration file is a sequence of sections and keys;
  `IniHits` is the search of `GetIniString`, `IniTemp` the buffer that all text
  settings share. `EChain_InitSDK` goes through `InitLog`, `InitCertificate`,
  `InitDatabase` and `InitGenesis`, each of which may return.
* `QueryPages`: the arithmetic of the pages, and a reader who asks for one after
  the other. Rows are in the order of their inserts, which is the one by
  `createtime` as long as the times differ and follow the inserts.
* `EntryCache`: `GetEntry` (with the change the caller makes through the
  pointer), `AddEntry`, `DeleteEntry` and `MergeFromBranch`, key by key up to
  the first conflict. `ecRef` is the map that the same calls should have given.
* `ExprParser`: a program is a sequence of lexemes; `ReadLevel`, `Loop`,
  `Primary` and `GetToken` are the functions of the parser, the levels of the
  grammar being numbers. `Compare`, `Update`, `Negate` and `Call` are the
  operators of `ExprValue` with their conversions. Overflow of integers and
  rounding of doubles do not occur at the sizes used.
* `UInt128`: the operators on pairs of words modulo `2^w`; `divmod` is a loop of
  actions (`DivStart`, `DivStep`, `DivEnd`). `Val` maps a pair to a number.
* `LogFiles`: the directory is a function from names to sets of line numbers.
  `Plain` and `Rotated` are `LogWriter::Write`, with every combination of failing
  rename, copy (from the start, or half way, when the backup of that name is
  already truncated) and open; `CheckExpiredLog`, `SweepItem`, `SweepDelete` and
  `SweepEnd` run beside it without the lock, as in the code.
* `IssueAssets`: `EChain_IssueAssets` in four steps, one per request.
* `Crash` of the two SDK models: the process dies anywhere and starts again; the ledger and
  the tables keep what they have.

`NetOutcomes` and `DbOutcomes` say which faults may happen: `fail` (no effect,
no answer), `lost` (executed, no answer), `reject` (an error code without a
branch of its own).

Left out of these functions: a failing `malloc` (returns 0), the pause of 60 s
between two prepared accounts, and the contents of JSON documents. The codes
100 and 104 are one code. A `descInfo` that is not JSON is the constant
`BadDesc`.

## 3. Properties and runs

`AccountPool` (two threads, one user, one contract, two or three addresses):

| run | faults | checks |
|---|---|---|
| `pool_db` | SQL fails or loses its answer, crashes | `TypeOK`, `OneOwner`, `OneAddressPerKey`, `AnswerIsRow`, `MutexInside` |
| `pool_net` | HTTP fails, loses answers, rejects; uninitialized nonce; crashes | `StockUsable`, `CreatedOnce` |
| `pool_stock` | the node repeats an address | `StockBound`, `CreatedIsOwn`, no deadlock |
| `pool_live` | none | `CallsReturn` |

`Evidence` (two threads, one or two accounts, two calls each, one in
`evidence_live`):

| run | faults | checks |
|---|---|---|
| `evidence_faults` | all network and database faults, bad input, crashes, tokens run out | `TypeOK`, `AtMostOnce`, `ResultIsTrue` |
| `evidence_delete` | database faults, an account without key | `VersionChain`, `DeleteCovers` |
| `evidence_live` | all network and database faults, an account without tokens | `Implements` (that is, `EvidenceLog`), `CallsReturn` |

`TaskPool` (two workers, two clients, two tasks):

| run | faults | checks |
|---|---|---|
| `task_pool` | `pthread_create` fails, workers are canceled | `TypeOK`, `TakenOnce`, `JoinedIsFinished`, `NoTaskAbandoned`, `EndReturns` |

`MCComponents`: run `components`. The ten components share nothing, so their
product would only multiply states; the variable `part`, chosen at the start,
names the one that a behaviour uses and the others stand still. Each of the
properties below is about one of them (`TypeOK` about all).

| component | properties |
|---|---|
| `RWLock` | `RwExclusive`: a writer is alone, nested guards included; `RwWriterEnters`: readers cannot keep a waiting writer out, only a thread that nests a lock call in its own read guard can |
| `Timer` | `TmOnce`, `TmInOrder`, `TmFires`: every timer fires once, in order, not early, or is deleted |
| `SdkLog` | `LgFilesIntact`, `LgDayIsFollowed`: the race on the times does no harm |
| `Session` | `SesReady`, `IniLookup`: what a successful start-up has done, which value a key gets, which files are accepted |
| `QueryPages` | `PgComplete`: nothing is left out or out of order while rows are added, and the array of a page has the right length |
| `EntryCache` | `EcContents`: the cache behaves as the map it stands for; `EcMergeFails`: a merge stops half way only at an entry that neither root nor branch has any more, and a branch's ADD is never over an entry the root has |
| `ExprParser` | `ExParses`: a program is read as it was written; `ExMeaning`: its value is the mathematical one, except in the three places `Odd` names, and it is computed unless an earlier `Parse` has thrown |
| `UInt128` | `UResult`: the operators against arithmetic on numbers |
| `LogFiles` | `LwKept`: young lines are kept through rotations, restarts and sweeps, except those of a truncated file, of a replaced backup and of the log file a sweep deletes, open or closed, and after a crash of the writer |
| `IssueAssets` | `IaResult`: 1 means one issue on the ledger, an error none unless the answer was lost |

The evidence runs and the components bound the calls, and a task pool ends, so these runs end in
states without a step: deadlock is not checked there. In the stock model a thread can always call
again, and deadlock is checked; this means something in `pool_stock` and
`pool_live` only, since in `pool_db` and `pool_net` a crash is always possible.
That no function returns with `g_dbmutex`, after a failed statement either, is
therefore an invariant of `pool_db`: `MutexInside`, the mutex is held exactly by
the thread that is at a statement of a database function.

Disagreements between comments and code, each a run that TLC refutes:

| run | comment | code |
|---|---|---|
| `session_doc` | `EChain_InitSDK`: "> 0 success", to be called once before use | with `DebugLog` other than 1 it returns 1 before the licence check, the database connection and the genesis nonce |
| `evidence_doc_latest` | `preTranxHash` is the hash of the latest record | `EChain_ContractAddressDelete` passes those of superseded records too |
| `task_join` | `JoinWithStop`: "stop and waiting for thead stopping" | returns at once when the thread has reset `handle_` but not yet `running_` |

Smaller ones, seen by reading and reproduced by the models:
`EChain_CreateAccountX` has a comment "if the address is a duplicate, create a
new one" and does so when the database fails too, so that accounts are created
and paid as long as it does; `EChain_CreateAccount` returns 1 when its row could
not be written, and the private key is lost; the table at
the head of `entry_cache.h` (lines 8-15) says "add" for add over del and for mod
over add and "false" for mod over del, and `MergeFromBranch` merges all three and
stores `MOD` (lines 85-88 and 101-105), as `AddEntry` does over a `DEL` of its own
level (line 183): the contents are right all the same (`EcContents`), the recorded
action is not the table's; it says "remove" where `DeleteEntry` keeps a `DEL`
record of its own level; the head of
`exprparser.cpp` gives `42 + sqrt (64)` as an example (line 146), and a function
of one argument reads `d_value_`, which an integer argument has never set (one
of the places `Odd` names); the errors `ReadIni` has for a
missing user, password or database name are never reported, since the value
read before stands in; a comment says the
stock keeps 100 accounts, `EChain_AccountPrepare` fills it to 200; -1 is
documented as a database error and also means an empty stock;
`EChain_UserCertification` returns 1 when its row was not written;
`EChain_IssueAssets` returns on every error code, so that its treatment of 3 and
99 is never reached. A
`pthread_create` that fails may leave a handle behind and always leaves
`running_` set, so that a later join does not end: `EndReturns` is stated for
pools whose threads all started.

### Bounds, and why they are enough

Two threads show every race over `g_genesisNonce`, `g_dbmutex` and an account's
nonce; a second address distinguishes "taken" from "free", a third one lets
both threads of `pool_stock` overfill. `Target` is 1 instead of 200. `MaxCalls`
= 2 lets a call meet an earlier one of its own thread; `InitBal` = 1 makes an
account run out of tokens in its second call, `Treasury` = 1 lets a purchase
succeed once and then fail. `evidence_delete` has tokens for every call
(`InitBal` = 4). `evidence_live` is the smallest instance, one call per thread
and no tokens at first: its refinement is proved for all instances
(`EvidenceImplementsLog`), and its liveness needs a race and a purchase.
Two workers and two tasks let one task run while another waits, and let both
workers reach for the last task.
The components: three threads with two guards each let readers, a waiting writer
and a nested call meet; three timers and four ticks let a timer be added and
deleted between check and execution; two logging threads over two days of three
minutes each reach every order of test, set and change; the configuration files
are all those that differ from a full one in up to two missing lines and an
empty value, with keys repeated in a later section; six rows in pages of one to
three give full, short and moved pages; two keys and two levels of the cache let
a merge stop between keys; expressions have up to three operators or calls over
the literals 0 and 2, for all operators; numbers of 8 bits (words of 4) have
every carry and shift that 128 bits have, the operands being boundaries and some
in between; three log lines and three time units let a rotation by size, one by
age, a restart and a sweep follow each other.
`RepeatUntil` bounds how long `createAccount` repeats addresses, which would
otherwise go on forever. `Garbage` = {6} is one value the uninitialized local of
`ParseGenesInfoFromJson` may hold that is not a usable nonce.

### Fairness

`FairSpec` assumes weak fairness of each thread's steps inside the SDK (the
operating system runs every thread) and of the closing of ledgers (the node
closes ledgers by itself). Nobody has to call. The mutex is not assumed to be
fair, so `CallsReturn` of the stock is stated for applications that eventually
stop calling. `pool_live` has no faults: with a database that fails forever
`EChain_CreateAccountX` does not return. The evidence
calls return with faults too: none of their loops repeats a request that got no
answer. In `TaskPool` every worker, every client inside `AddTask` and the owner
inside a call keep running and tasks end; the spin lock is not fair, but a pool
that is disabled takes each worker through it at most once more.
In `MCComponents`, threads inside `ReadLock` or `WriteLock` keep running and
guards go out of scope (`RwInside`, `RwLeave`); the mutex is not fair, and a
writer that has it no longer needs it. The clock runs, the main loop calls
`OnTimer` for ever and callbacks return (`TmTick`, `TmCheck`, `TmRun`).

## 4. Proofs

Every theorem holds for all values of the constants that the named assumptions
of the modules allow: any threads, accounts, keys, faults and crashes, and any
value of the bounds. The assumptions give constants their types and keep
markers (`None`, `RwNobody`, `EcAbsent`, ...) apart from real values;
`LgAssumption` adds that the clock starts after the first day and that a log
file does not fill up within a minute (`LgRate < LgFull`); `PgAssumption` leaves room for the genesis block
(`PgMax > 0`), without which the initial state would be out of bounds.
Hypotheses beyond them are part of a theorem's statement:

* `AddressHasOneOwner` and `CreatedAndPaidOnce` suppose `RepeatUntil = 0`: the
  node's `createAccount` generates fresh addresses. The runs that check the two
  properties do the same.
* `CreatedAddressIsOwn` supposes `DbOutcomes = {"ok"}`: `EChain_CreateAccount`
  ignores a failing database.
* `StockIsBounded` supposes finitely many threads and no lost database answer
  (an insert whose answer is lost is repeated with a new account).
* `IniLookupCorrect` supposes that no configuration file begins a section twice
  (`SectionsOnce`, which `MCComponents` assumes of the run's files, so that TLC
  evaluates it). It is needed: `GetIniString` never resets `iKeyFound`, so a key
  of another section that stands between two parts of a section is taken for the
  section's own.

Each proof follows the same pattern: an inductive invariant, a lemma for
the initial states, a lemma for each action or group of actions, one for the
next-state relation, and a temporal step.

* `GenesisTxProofs`: lemmas on what the node and the steps of a genesis
  transaction preserve (`SubmitType`, `CloseType`, `GtxFrame`), used by both
  SDK models.
* `AccountPoolProofs`
  * `TypeCorrect`: `Spec => []TypeOK`. `TypeInv` adds where each local is set.
  * `RegistrationSafe`, `AnswerHandsOutRow`: `OneAddressPerKey`, `StockUnique`,
    `AnswerIsRow`. `MutexInv` adds that a thread between lock and unlock owns
    `g_dbmutex`, that its key has no row while it is past the select, and that
    its address is in no row before its insert: facts a select established stay
    true because nobody else gets in.
  * `MutexIsReleased`: `MutexInside`. `MutexInv` says that who is inside owns
    the mutex; `HeldInside` is the converse, which each return path of the four
    database functions keeps by its `Unlock`.
  * `AddressHasOneOwner`: `OneOwner`. `OwnerInv` adds who holds an address
    between the stock and its owner: an address is in one place at a time.
  * `StockIsUsable`: `StockUsable`. `LedgerInv` adds what a thread knows about
    the ledger at each label: after `txOk` its transaction is accepted. It does
    not mention nonces, which is why the races over `g_genesisNonce` do no harm.
  * `CreatedAddressIsOwn`: `CreatedIsOwn`. `CreatedInv` adds to `MutexInv` that
    what a call has returned has its row; a thread whose select found no row
    has an address nobody has returned.
  * `CreatedAndPaidOnce`: `CreatedOnce`. `OnceInv` says which transactions about
    a thread's address the ledger cannot have yet: no creation while it sends
    one, no payment before and while it sends one.
  * `StockIsBounded`: `StockBound`. The invariant counts `Tickets`, the rows
    that threads which have counted the stock may still add. Rows and tickets
    together never grow except by a new count, which adds at most `Target`
    minus the rows it saw: a row costs a ticket.
* `EvidenceProofs`
  * `EvidenceTypes`: `Spec => []TypeOK`.
  * `EvidenceSafe`, `RecordedAtMostOnce`, `RowsNameRecords`: `ResultIsTrue`,
    `AtMostOnce`, `RowsRecorded`. `RecordInv` adds `Progress`: a running call
    has not returned, has no record before `evInsert`, and has its record at
    `evInsert`; and `OnlyBegun`: records and results belong to calls that have
    begun. `RowsRecorded` is proved only, no run repeats it.
  * `VersionsFollow`, `DeletesCover`: `VersionChain`, `DeleteCovers`. `ChainInv`
    adds that a call's version is the one of its predecessor, a closed record,
    plus one; and for a delete that each row it found is still to do, covered by
    a `DELETE` record, or the one in work (`Covers`).
  * `EvidenceImplementsLog`: `Spec => Implements`. Every step maps to a step of
    `EvidenceLog` or a stutter: an accepted submission records, or records
    with result unknown when the answer is lost, and a return tells the
    result.
* `TaskPoolProofs`: `TaskPoolTypes`, `TasksTakenOnce`, `WaitAndJoinWaits`,
  `EndLeavesNoTask`. `Inv` has the exclusion of the spin lock (`OneInside`), the
  places of a task (`OnePlace`, without cardinalities: `TakenOnce` is derived
  from it by showing that one of the three sets is a singleton and the others
  empty), what the owner knows of the workers it has joined (`Threads`), and
  where the tasks are that `WaitAndJoin` was called for (`AskedFor`).
* `RWLockProofs`: `RwMutualExclusion`. `RwInv`: the depth of the mutex is the
  number of write guards and calls of its owner, `_reads` is the number of read
  guards, and the read guards of a writer are its own.
* `SdkProofs`
  * `LogFilesStayIntact`: only the thread that is about to open a file sees
    `logfile` closed, because it has the lock, and the file it opens is
    of a new minute or empty (`LgInv`).
  * `LogFollowsDay`: the day of the file is that of `g_cmpTime`, or a thread is
    still on its way to change it (`LgDayInv`).
  * `IssueAnswerIsTrue`: records belong to calls that have begun and a running
    call has none (`IaInv`).
  * `SessionIsReady`: each stage has what the ones before it set up (`SesInv`).
  * `IniLookupCorrect`: `IniLookup`, for files of any length. `IniFirst` names the
    first line that the search stops at (the least number of a non-empty set),
    `IniOwn` shows that it is the first one of the section, and `ReadIniMeans`
    follows the buffer `temp` through the four texts: a text that is not found is
    the one before it, so it is empty only if one that was found is.
  * `PageTypes`: a page's interval is within the rows that exist (from `PgInv`).
  * `LgTypeCorrect`, `SesTypeCorrect`, `IssueTypes`: the type invariants.
  * `PagesAreComplete`: both functions answer with the same interval
    (`RecordPageIs`, `BlockPageIs`), and a descending sequence of an interval is
    determined by it (`DescendingInterval`, by counting). `PgInv`: everything
    above the next page's interval has been shown, and as long as nothing was
    added exactly that. The length of the array is arithmetic (`ArrayFits`).
* `UtilsProofs`
  * `CacheHasContents`, `MergeFailsOnce`: `EcInv` relates the marks of a
    branch's record to the one below it (`EcMarks`, case by case over the
    actions) and the view of each key to the reference (`EcAgrees`). Both
    together give `EcMergeFails`: an `ADD` is over nothing or over a `DEL`, so
    that only `DEL` over `DEL` is refused.
  * `LogLinesAreKept`: `LwInv` bounds the age of the lines in a backup by
    the time in its name, and says the same of the listing a sweep works on.
  * `TimerRunsOnce`, `TimerRunsInOrder`: `TmInv` is about what was executed
    followed by what is still to run: it is in order, without repetition, and
    everything pending comes after it. `CheckExpire` takes the
    sorted sequence of the expired timers from `SetToSeqs`, about which the
    prover can reason; the sort of the TLC module has no such definition.
  * `LogFileTypes`: `LwBounded` is about a crashed writer too, whose directory is
    the one its rotation left. `CacheTypes`, `TimerTypes`: the type invariants.
* `UInt128Proofs`, for every number of bits in a half word:
  * `ArithmeticCorrect`: `UResult`. `UInv` adds `UTypeOK` and, inside `divmod`,
    `DivLoop`: the dividend is quotient times divisor plus remainder; `adder` is
    one bit, `2^j`, and `copyd` the divisor times `2^j`; the remainder is below
    twice `copyd`, so that bit `j` of the quotient is 0 or 1; and the
    quotient has no bit up to `j`, so that `|=` adds. Lemmas (`PlusRep`, `MinusRep`,
    `TimesRep`, `ShiftLeftRep`, ...) turn words and carries into numbers.
  * The provers have no arithmetic of `2^n`, and no induction. The laws come from
    counting: a set of `n` elements has `2^n` subsets (`FS_SUBSET`), from which
    `PowNat`, `PowAdd` and the step from `n` to `n + 1` follow; that a number has
    a highest bit follows from the least `n` with `x < 2^n`.
  * `BigDivideOperands`: the product of two words fits in a double word.
    `DivLoopDecreases`: `copyd` is a variant of the loop, the safety half of its
    termination; that a call then returns is fairness of the caller's thread.

Only model-checked:

* the liveness properties `CallsReturn`, `EndReturns`, `RwWriterEnters`,
  `TmFires`: the prover handles neither fairness nor `ENABLED`;
* `ExParses`, `ExMeaning`: `ExprParser` is a recursive descent over programs, with
  recursive operators; what it computes for every program is induction over data;
* `MCComponents.TypeOK`: the conjunction of the components' type invariants. Those
  of all components except `ExprParser` are theorems of their own
  (`RwTypeCorrect`, `TimerTypes`, `LgTypeCorrect`, `SesTypeCorrect`, `PageTypes`,
  `CacheTypes`, `UTypeCorrect`, `LogFileTypes`, `IssueTypes`); the module that
  states the conjunction reaches the parser's recursive operators.

## 5. Not modelled

`components` in `PROJECT.json` says why for each part. Most of the repository is
not this project's code: `3rd/` (websocketpp, ed25519) and `gtest/` are
vendored, `ec/` is a copy of OpenSSL's elliptic curves, and the SDK itself is in
one file under `test/`. Of the rest:

* keys, certificates, hashes (`common/ca.cpp`, `common/cfca.cpp`,
  `common/private_key.cpp`, `utils/crypto.cpp`, `utils/sm3.cpp`): computations on
  bytes through OpenSSL, with nothing that a small instance would show;
* `common/network.h`, `common/storage.h`, `common/web_socket_server.h`,
  `common/ca_manager.h`, `utils/net.h`: headers of a network server whose implementation is
  not in the repository or kept aside (`utils/net.cpp_bak`);
* `mysql/`, `config/XMLDoc.cpp`, `config/XMLNode.cpp`, `os/OSCond.cpp`,
  `os/OSTask.cpp`: wrappers that nothing in the repository calls;
* queries that read one answer and format it (`EChain_QueryTransaction`, the
  status functions, integrity checks), text and time helpers, `daemon.cpp`.

Left out of modelled parts: symbols, assignments and strings of the expression
parser (in detect mode `Parse` still performs assignments); the text conversions
and signed overloads of `base_int.cpp`; single characters of a configuration
file (a value of blanks only is trimmed without a lower bound); log levels and destinations; a page
number beyond `totalPage`; rows with equal or reversed `createtime`
(`insertBusinessDataInfo2DB` reads the clock before it takes `g_dbmutex`), whose
order between two pages the database chooses; an answer of the node without `results`, which the SDK
takes for success; a timer callback that calls `OnTimer`.

## 6. What could follow

* `ExprParser` with assignments and the symbol table, whose effects `Parse` has in
  detect mode as well.
* A page number beyond `totalPage` (`src/test/api_echain_func.cpp:3007`): `new` with
  a negative length throws while `g_dbmutex` is held. The reader of `QueryPages`
  stops at `totalPage`, as the interface asks of it.
* The text conversions of `uint128_t`, as functions on sequences of digits.
