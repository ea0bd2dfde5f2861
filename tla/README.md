# touchid-agent in TLA+

touchid-agent is an SSH agent for macOS whose keys live in the Secure Enclave
and sign, usually, only after a Touch ID prompt. This directory models the parts
of it that are hard to test - concurrent requests, locks, other processes
changing the key directory, restarts, failed writes, timers - checks them with
TLC on small instances and proves the most important results with TLAPS for all
instances. Line numbers refer to the sources next to which this directory lives
(`agent.go`, `policy.go`, `audit.go`, `keystore_fs.go`, `main.go`, ...).

## 1. The system

| component | code | state | operations |
|---|---|---|---|
| signing path | `agent.go` `signFor`, `serveConn` | a lock per label, the biometric lock, one goroutine per connection | a request: list keys, match, lock, check, prompt, sign, audit, answer |
| rate limiter | `policy.go` `CheckRate`, `rateBucket` | per label, the time stamps of its last grants | `allow` |
| caller policy | `policy.go` rules, `CheckCaller`, `loadAllowedCallers` | the rules, read once at start | parse rules, match a peer against them |
| stall detector | `agent.go` `noteBiometricOutcome` | count and start of the current run | note the outcome of a prompt |
| audit log | `audit.go` | the file; per process, the next `seq` and `prev` | seed, `Sign`, `VerifyAuditChain` |
| life cycle, launchd mode | `main.go` `cmdRun`, `agent.go` `idleConn` | listener, idle timer, signal goroutine, WaitGroup, connection deadlines | launch, accept, idle out, signal, drain, exit |
| life cycle, `-l` mode, `-status` | `main.go` `cmdRun`, `cmdStatus` | the socket file | remove the file, listen, accept, signal, drain, exit; ask who listens |
| key directory | `keystore_fs.go`, `main.go` commands | one JSON file per label, one `.pub` file per label | `-create`, `-delete`, `-delete-all`, `-list`, `List()` |
| launchd plist | `plist_darwin.go` | the plist, its backups, what launchd has loaded | `-install-plist`, `-migrate-plist`, `-ensure-user-plist` |
| managed preferences | `managed_darwin.go` | none | override the flags |
| error classification | `main.go` `classifySignError`, `agent.go` `isBiometricNonCompletion` | none | turn an error into advice; decide whether the stall detector counts it |
| peer identity | `peer_darwin.go`, `codesign_darwin.go` | none | ask the kernel who the peer is, perhaps with a partial answer |
| Secure Enclave bridge | `secureenclave*` | none | create a key, sign, perhaps after a prompt |

How they interact: `cmdRun` builds one `Agent` with one `PeerPolicy` and one
`AuditLogger` and starts a goroutine per accepted connection. All goroutines
share the locks, the buckets, the stall detector and the logger. The key
directory is shared with other processes - the user's `touchid-agent -create` and
`-delete` - through the file system only: the agent lists it anew for every
request. The audit log is shared with later agents, and with any that runs at the
same time. launchd owns the listening socket and starts the agent on demand; with
`-l` the agent makes a socket file, at a path that other agents or launchd may use
too. Flags, managed preferences and the rules file become a policy once, at start;
a key's own rules are read from its keyfile with every request.

What is hard, and what would make each component correct:

- *signing path*: two kinds of lock held across a prompt of any length; a
  directory snapshot used after waiting; many error returns that must each leave
  one audit record. Correct means: one prompt at a time, exactly one record
  before the answer, nothing signed with a key that was deleted before the
  request, no deadlock, no-touch keys independent of prompts.
- *rate limiter*: a sliding window at its boundary; checked long before the
  signature. Correct means: at most N grants in any minute, and only requests
  that go on to sign count.
- *stall detector*: a window that does not slide, and two independent readings of
  an error's text, one to advise the user and one to count. Correct means: no alarm
  that contradicts the advice given, no flood, no lasting stall unnoticed.
- *caller policy*: rules are written, parsed, stored in keyfiles and parsed again;
  symbolic links are resolved at each check; part of a peer's identity may be
  missing; managed preferences override flags, some of them before they are used.
  Correct means: exactly those may sign whom the file that was read authorizes.
- *audit log*: torn writes, restarts, overlapping writers. Correct means: what
  the verifier reports is what happened.
- *life cycle*: three ways to stop racing with accepts. Correct means: nobody cut
  off, nobody waiting for ever.
- *socket file*: removed by whoever starts, stops or exits, whosever it is. Correct
  means: an agent alone is reachable, a clean `-status` stays true, no client sits
  in the queue of a listener nobody accepts from.
- *key directory*: no locks at all. Correct means: listings are consistent,
  commands do not destroy each other's results, success is only reported when it
  is true.

The `hazards` of `PROJECT.json` list these one by one, with their lines and the
properties that cover them.

## 2. The modules

- `RateBucket` - the limiter as operators on a set of grants.
- `Stall` - the stall detector as operators on its state.
- `SignError` - the two readings of an error message, as operators.
- `CallerPolicy` - rules, their parser, identities and their matching, as operators.
- `Agent` - the signing path; uses `RateBucket` and `Stall`, and in `MCAgent` the
  policy of `CallerPolicy`.
- `AuditedSigning` - what the signing path promises, abstractly; `Agent`
  implements it (`KeepsPromise`).
- `StallDetector` - `Stall` and `SignError` together, over sequences of errors in
  time.
- `Admission` - `CallerPolicy` applied: rules files, symbolic links, flags, managed
  preferences and keyfiles on one side, connections on the other.
- `AuditLog` - the log file, its writers and its verifier.
- `LaunchdAgent` - the life of the process under socket activation.
- `SocketFile` - agents with a socket file of their own, and `-status`.
- `KeyStore` - the key directory and the commands on it.
- `Plist` - the plist commands on the plist and on launchd.
- `AgentProofs`, `StallProofs`, `AdmissionProofs`, `SocketFileProofs`,
  `LaunchdAgentProofs`, `KeyStoreProofs`, `AuditLogProofs`, `PlistProofs` -
  theorems about these modules.
- `MCAgent`, `MCAdmission`, `MCAuditLog`, `MCLaunchdAgent`, `MCSocketFile`,
  `MCKeyStore`, `MCPlist` - constants for TLC.

How they fit together: `Agent` takes from `StallDetector` only that an outcome is a
completion, a non-completion or another error, from `CallerPolicy` whom it admits,
from `KeyStore` that creating, deleting and listing may each be one step
(`ListingIsRegular`), and from `AuditLog` that a record is appended whole. It gives
`LaunchdAgent` and `SocketFile` that a request ends (`EveryRequestEnds`).

Definitions named `X_Something` directly before a definition `X` and commented
"Mutant" are broken variants of `X`. They take part in no behaviour; each shows
that some property notices that bug when `X` is replaced by it.

### Agent

| state | code |
|---|---|
| `store`, `born` | the keys `store.List()` returns; every key ever generated (a Secure Enclave key is never generated twice) |
| `pc`, `req`, `key`, `result` | where the goroutine of a connection is in `signFor`, and its locals |
| `keyMu`, `biometricMu` | `Agent.keyMu`, `Agent.biometricMu`: their holder |
| `rates` | `PeerPolicy.rates` |
| `stall` | `Agent.stallCount`, `Agent.stallStart` |
| `audit` | the audit records written |
| `deletedAt`, `granted` | history, for the properties only |

One action per step that touches shared state: `Lookup` / `NoMatch` (the
snapshot, 158-179), `AcquireKeyMu` (181-183), `RejectCaller` (187-201),
`RejectRate` (203-207), `Admit` (203-236), `AcquireBiometricMu` (233-236),
`SignReturns` (238-249, with the stall detector's update), `Audit`, `Return` (the
deferred unlocks) and `Reply`. `CheckCaller` and the key's own rules are
evaluated with the rate check in one step: they read nothing that changes. The
bucket's own mutex is not modelled: within one label the label's lock is held
around it. `stallMu` likewise: the biometric lock is held around it. Clients may
ask for any key that was ever generated, on any idle connection. `Generate` and
`Delete` are other processes; that one step is enough for each, and for the
listing, is what `ListingIsRegular` of `KeyStore` is for. `audit.Sign` always
appends here; its failures are the subject of `AuditLog`. `PolicyAllows` and
`KeyAllows` are, in `MCAgent`, what `CallerPolicy` makes of three peers: Apple's
ssh, a vendor's tool named in the rules file, and a tool that signed itself and
claims to be ssh. Notifications, the
three-second "waiting" timer and `List`/`Signers` change nothing and are left out.

### Stall, SignError and StallDetector

`detector` is `stallCount` and `stallStart`; `past` and `alerts` are history. An
error message is abstracted to its domain, its code and the phrase in it that some
pattern of the code asks for; `Raised` is what CryptoKit can raise from a
signature. Both functions are translated with what they search for: one looks for
`Code=-n ` with the space after it, the other without, one in the domain
`LAError` and one anywhere (`CodeBegins`, `laCode`). `past` records what the user
was told, `detector` what is counted, so the properties relate the two readings.

### CallerPolicy and Admission

| state | code |
|---|---|
| `files` | the user's and the administrator's rules files |
| `links` | where symbolic links lead (`filepath.EvalSymlinks` at each check) |
| `flags`, `prefs` | the agent's flags and the managed preferences, fixed in a behaviour |
| `agent` | the running agent: its `PeerPolicy`, where its records go, the files as they were when it started (history) |
| `keyfile`, `asked` | `caller_rules` of a keyfile; the `-key-callers` it was created with (history) |

A written rule is what stands before and after the first colon. A process is what
is true of it; `CodeIdentity` and `peerCreds` say what is left of that when a step
of the look-up fails or a path is looked up by pid. `Authorizes` says, from the
documentation of the rules, what a line of the file means, the comment included
that may follow a rule there (`Commented`, `Meant`); it is written without the parser
and the matcher of the code, and the properties compare the two. They have to except
lines with such a comment, which the code reads otherwise (`Heeded`, section 3). A
managed preference is absent, of the wrong type, or a value. Not modelled: blanks
around a rule, uid and pid (only logged), files or identifiers whose name ends in
what looks like a comment (`CommentAssumption`).

### AuditLog

A line is the sequence of pieces written between two newlines, so that a torn
write followed by another record is one damaged line, as it is on disk.
`hashLine` is injective. A record is its chain fields and the number of the call
that wrote it. `Overlap` says whether two agents may run at once. Not modelled:
blank lines, lines longer than 64 KiB, a `seq` that overflows.

### LaunchdAgent

`conn` says whether a client is away, queued at launchd's socket, or served
(quiet or busy). Time is relative: `sinceReset` and `sinceRead` count up to their
timeouts, so the state space is finite without a bound on time. The 10-minute
constants are abstracted to `IdleTimeout` and `ConnTimeout`. A `Tick` may overtake
a timer: timers fire at or after their time. The accept loop ends when the listener
is closed (`LeaveLoop`) or for any other error (`AcceptFails`, 718-721). `serveConn`
returns without closing its connection: after a read past its deadline or a reply that
cannot be written the client is `forgotten`, still connected and served by nobody,
until it closes its end or the process does. What a request does is not modelled.

### SocketFile

| state | code |
|---|---|
| `path` | to whom the file at the path leads: an agent, launchd, nobody (stale), or there is no file |
| `proc`, `listening`, `handler` | where each agent is in `cmdRun`, whether its listener is open, whether its signal goroutine waits |
| `conn`, `at` | per connection: away, in an agent's accept queue, or served |
| `status` | how far `-status` is: connected, answered, or ended without a warning |
| `alone`, `refused`, `blind` | history: the agent no other ran beside; the agents the file system did not let remove or bind the path; whether, while `-status` ran, a process ended, the job was unloaded or `ps` failed |

`Remove` (672), `Listen` / `ListenFails` (678-683, for any reason), `Accept`,
`AcceptFails` (the loop is left on an error that is not a timeout, 724, with the
listener still open), `Signal` (closes the listener, which unlinks the path),
`LeaveLoop`, `Exit` (after `wg.Wait`, removes the path once more), `Kill`, `GiveUp` (a
`log.Fatal` on the way). Each of the three removals drops its error, so the path may
stay as it was (`Unlinked`). `-status` has a connection of its own (`Probe`), which is
queued, accepted and answered like any other: `Dial` (528), `Answer` or `StatusFails`
(535-540), then `Scan`, or `ScanFails` where `ps` cannot be run and there is no warning
(556-558). Agents and connections come back, so nothing bounds the behaviours.

### KeyStore

One process per command, one action per system call. A key is named after the
process that created it. `seen` and `steady` (history) collect the keys on disk at
some time of, and all through, a listing. Each system call may fail where the code
looks at its error; a process may be killed between any two. Not modelled:
keyfiles damaged or unreadable though complete (`List` skips them as it does
incomplete ones), invalid labels, directories named `*.json`.

### Plist

A plist is its command line, its socket and whether its label is the agent's. A
command line is a sequence of `Words`, of any length.
`parsed`, `copy` and `stamp` are a command's locals: what `readPlist` returned,
what `os.ReadFile` returned for the backup, the second its backup is named after.
The decisions (`Verdict`, `Mode`) and the flag table work on real command lines,
and what they keep is judged by what `flag.Parse` makes of the old and the new one
(`Setting`), with those flags that an agent can be run with. `Setting` reads every
spelling the parser does: `FlagOf` and `Inline` give of a word such as `-rate-limit=10`
or `--v` the flag it names and the value it carries, a flag with a value of its own
takes no other, and the parser stops at the first word that is neither. A migrated
plist without a path after its `-l` gets the default socket. Any step may fail where
the code looks at the error, and a command may be killed between any two. launchd may
at first have loaded another plist than is on disk, or none (`Earlier`); it may refuse
to unload, and the code does not look (`plist_darwin.go:327`, history `stuck`); `load`
does nothing when a plist is loaded, and the check after it is satisfied by the socket
of whatever is loaded. Not modelled: XML, log paths, the mode bits, `-plist`, editors
that change the plist meanwhile.

## 3. The runs

| run | instance | shows |
|---|---|---|
| `agent_safety` | 2 connections, 3 keys (2 with touch, one of them deleted meanwhile, one bound to ssh; 1 without touch), 3 requests, limit 2, instant clock, fairness | types, one prompt, one record, budget, the refinement, both liveness properties |
| `agent_rate` | 3 connections (1 refused), 2 keys of one label created and deleted meanwhile, 3 requests, 3 instants, limit 1, window 1 | both rate bounds, deleted keys |
| `stall` | 6 instants, window 2, 8 outcomes, every error CryptoKit raises | truth, sparseness and completeness of the alerts, against the advice |
| `callers` | 14 rules files (2 with a comment behind a rule), 2 states of the links, 4 sets of flags, 5 of preferences, 8 `-key-callers`, 6 processes with 3 degrees of identity | who may sign is what was written; what is pinned holds; key bindings |
| `socket` | 2 agents, launchd, 2 connections and that of `-status`, fairness | an agent alone is reachable, a clean status is stable, nobody waits for good if every connection served ends |
| `audit_log` | 2 agents in turn, 5 calls, 1 legacy line, all faults | verifier against writer, and against edits |
| `audit_overlap` | 2 agents at once, no faults | **violation**, see below |
| `launchd` | 2 clients, timeouts of 2 ticks | no cut-off, no starvation |
| `launchd_idle` | the same | **violation**, see below |
| `keystore` | 3 commands, 2 labels, symmetric | listing, creating, deleting |
| `plist` | 2 commands with any options, 149 plists or none, 2 seconds | nothing lost, changed or touched wrongly; launchd in step |
| `plist_flags` | the same | **violation**, see below |

Why the bounds are enough. *agent_safety*: two connections are what a race of
locks needs; with the third request a connection comes back after another's
decision; a touch key that goes away, a bound one and a free one give every refusal
and both kinds of wait; limit 2 gives a full and a non-full bucket. *agent_rate*:
three instants with a window of one give a grant that ages out, and a signature that
completes after it has; two keys of one label give delete-and-recreate. *stall*: five
interrupted prompts are the shortest lasting stall; eight outcomes put a run before
them that the window cuts off; six instants are two windows and a bit. *callers*:
the policy looks at one rule, one process and one preference at a time; the
rules files pair each kind with another, with a comment and with a line that does
not parse; every preference is once absent, once right, once wrong. *socket*: two
agents race for the file, and what a third would have left at it is there at first or
when one of them comes back; the file system may refuse at each attempt. *audit_log*: five
calls allow a torn write, a restart, and records after both. *keystore*: every race
in the code is between two commands; the third sets the scene or restarts it.
*plist*: the old plists have `-l` in any place among up to two other flags, so every
flag has each kind of neighbour; two seconds let two backups have the same name or
different ones. Those two flags are spelled as migration's tables have them or not;
launchd has at first loaded what is on disk, another old plist, or nothing.

Deadlock is checked in every passing run. `Finished` in `Agent`, `KeyStore` and
`Plist` stutters when everything asked for has been done, so a state without successor
means someone waits for ever.

Fairness. `Agent`: one strong fairness condition per goroutine, over the steps it
takes by itself: a goroutine that can step again and again does, and a `sync.Mutex`
hands over to the longest waiter after a millisecond, so a waiter is not passed over
for ever. The return of a prompt is not among these steps - a prompt may stay up
for ever - and `EveryRequestEnds` says explicitly that prompts must end;
`NoTouchNeverWaitsForTouch` does without. Nothing is assumed of clients, other
processes or time. `LaunchdAgent`: time passes, enabled timers fire, launchd
launches a job with pending connections, its accept queue is FIFO (strong fairness
of `Accept`), a `Read` past its deadline returns. Nothing is assumed of clients,
signals, kills or the length of requests; `QueuedClientsAreAccepted` assumes that in
the end no request is in progress. `SocketFile`: the accept loop and the end of
`cmdRun` run, and the accept queue is FIFO. Nothing is assumed of launchd, signals,
kills, of who starts, or of connections: each read renews the deadline
(`agent.go:70-73`), so a client that keeps asking, or a prompt nobody answers, holds
its connection for ever. `NobodyWaitsForGood` says explicitly that no connection is
served for ever (`ServedEnds`).

### Divergences the runs show

- `audit_overlap`: `docs/audit-shipping.md` tells the receiver that `seq` rises by
  exactly one and that a drop means the file was replaced. Two agents on the same
  (default) log write the same numbers, since each seeds its counter once
  (`audit.go:44`). `SeqRisesForOneAgent` proves that it is the overlap that does
  it: without it, and without failed writes, the numbers rise.
- `launchd_idle`: usage text and `docs/launchd.md` say the agent exits after 10
  minutes of inactivity. The timer is reset by new connections only
  (`main.go:732`), so it also stops an agent whose client keeps using an old one.
- `plist_flags`: usage text (`main.go:85`) promises that migration preserves the
  agent's flags; `preservedAgentFlags` (`plist_darwin.go:38`) lacks
  `-require-hardened-callers`, which is dropped.

Four more disagreements are in the model, and the properties except them by name
rather than deny them:

- `docs/caller-verification.md:22-27` shows rules with a `# comment` behind them;
  `parseCallerRule` takes it for part of the value (`policy.go:251-259`). Such a line
  loads, and authorizes nobody: `VerdictFollowsFile` and `KeyBindingHolds` say so.
- `docs/launchd.md:66` has migration preserve five flags. `extractRunFlags`
  (`plist_darwin.go:176-197`) knows them in one spelling only: `-rate-limit=10` and
  `--v`, which the agent accepts, are dropped, and `-require-hardened-callers` is in
  no spelling preserved. Of a command line with two `-l` the agent listens on the last
  and migration keeps the first. `MigrationKeepsListed` is about the command lines of
  `OldCommandLine`, which have neither.
- `reloadPlist` is said to verify by the equivalent of `-status`
  (`plist_darwin.go:318`, `docs/launchd.md:69`), but drops the error of `unload` and
  then only looks for the socket's file: if launchd refuses to unload, the command
  succeeds with the old plist loaded. A plist on disk that is not loaded, after a
  command that was killed or `-no-reload`, is "nothing to do" (359-363).
  `LoadedIsWritten` excepts the one by `stuck` and the other by asking that something
  was written.
- `docs/runbook.md:118-121` explains "Failed to listen" by a socket file that a
  SIGKILL left behind. The agent removes that file first (`main.go:672`), so an agent
  that runs alone fails only if it could not, or if the path cannot be bound for
  another reason; `AloneIsReachable` says exactly this.

Seen while modelling, not backed by a run: the bootstrap's comment
(`plist_darwin.go:520-523`) excludes a non-zero exit, but `cmdInstallPlist` exits
with one on every failure; `backupPath` calls names unique that have a resolution
of a second, and without the exception for it `OriginalSurvives` fails;
the rate limit bounds checks, so a minute of the log may show one signature more
than `-rate-limit` (`CompletionBound` states the exact bound); a failed self-test
leaves the key in the store; `-delete-all` answers "No keys to delete." when only
incomplete keyfiles are left, while `-create` refuses their labels; after a torn
write and a restart `seq` starts again from one; `docs/runbook.md:94` gives -4 as the code of
a missing passcode, the code beside `main.go:341` -5; `classifySignError` has advice for
biometrics that are missing, not enrolled or locked out, and for a missing password,
but looks for none of these (-5 to -8) in the domain-and-code form that its comment
says has to match; a cancellation that is only named by its symbol is explained but
not counted by the stall detector (the comment says CryptoKit does not send it so);
`-key-callers ","` makes a key that is bound to nobody in particular, like one
without the flag (`KeyBindingHolds` says so);
`-status` may take the answer of an agent that ends before `ps` is asked, or miss one
that ends while launchd's agent answers and takes the path with it, and does not warn
if `ps` fails (all three: `blind`), and it waits without limit for an agent that accepts
and does not answer; in `-l` mode
an exiting agent removes the file of one that has replaced it, which then runs on
unreachable until it is stopped. The stall detector may miss three and even four
interrupted prompts within three minutes, since its window does not slide; it never
misses five, if an alert raised in the same series up to a window before the first
of them counts (`LastingStallIsNoticed`).

## 4. The proofs

Every theorem is about the specification of its module, for every value of the
constants, from the named assumptions of that module and those it extends only (the
constants have the right types, `None` and the like are distinct from what they
stand beside). Two name a further hypothesis, said below. Each is laid out as
initial state, one step per action, and a temporal step.

`AgentProofs` - any number of connections, labels, keys and requests, any policies, limit and window:

- `TypeCorrect`: `Spec => []TypeOK`. Not inductive alone: the audit record needs
  the key and the decision of the request to be there. `ServingOK` adds that a
  connection inside `signFor` has a key and that its decision is settled exactly
  from `"audit"` on.
- `PromptsExclusive`: `Spec => []OnePrompt`. By `LockInv`: a connection between
  `"check"` and `"return"` holds its label's lock, and one that prompts holds the
  biometric lock; a lock has one holder.
- `DecisionsAudited`: `Spec => []AuditedOnce`. By `AuditInv`: no record has the
  number of a request that is still to be read, requests being served have
  different numbers, and the property itself. It needs `ServingOK` for the record
  it appends.
- `DeletedKeysStayUnused`: `Spec => []DeletedKeySignsNothingNew`. By
  `DeletionInv`: a request past its lookup has its key on disk or was read before
  the key was last deleted; `DiskChanges` shows that other processes keep this so.
- `GrantsBounded`: `Spec => []GrantBound`. By `BucketInv`: every grant that is
  still in the window is in the bucket, so a bucket with room means a window with
  room; grants lie in the past, so a tick can only empty a window.
- `RefusalsAreFree`: `Spec => []BudgetSpentOnAttempts`. By `BudgetInv`: a request
  that is not granted, or is about to be recorded as refused, has no token.
- `CompletionsBounded`: `Spec => []CompletionBound`, limit plus one. By
  `CompletionInv`: each signature has a grant of its own, and no signature of the
  label recorded before it is later than that grant - this is where the label's
  lock is used: two requests under way have different labels. So of the signatures
  in a window only the first may have been granted before it (`OneOldGrant`), and
  the others map one to one to grants in the window, which `GrantInv` bounds.
- `PromiseKept`: `Spec => KeepsPromise`, the refinement of `AuditedSigning`: every
  action maps to an abstract step or a stutter, by `LockInv` (a prompt is raised
  only when none is up) and `ServingOK` (what is recorded is what was decided).

`StallProofs` - any window, any bounds, all errors of `Raised`:
`StallTypeCorrect`, `AlertsTrue`, `AlertsSparse`, `LastingStallNoticed`. First
`classifySignError` and `isBiometricNonCompletion` are shown to agree on what
CryptoKit raises. Then `RunInv` describes the detector's run as a segment of the
history that begins after an answered prompt or where the window of an earlier run
had passed, and `AlertInv` puts an alert at the third prompt of every run.

`SocketFileProofs` - any number of agents and connections: `SocketTypeCorrect`;
`AloneReachable` by `AloneInv` (nobody else is alive, and after its `Remove` the path is
empty, its own, or one the file system refused to clear); `CleanStatusStable` by
`StatusInv` (as long as nothing of what `-status` cannot see has happened, some agent is
alive or the path is launchd's from the connect on, so none alive means launchd, and
stays so).

`LaunchdAgentProofs` - any number of clients, any timeouts: `LaunchdTypeCorrect`,
and `NobodyCutOff`, by the invariant that the WaitGroup is the number of served
clients, so that a drain that ends leaves nobody behind.

`AdmissionProofs` - any rules files, links, flags, preferences and processes, of
the types `FileAssumption`, `SettingAssumption` and `CommentAssumption` give them: `AdmissionTypeCorrect`;
`FileFollowed` and `PinnedHold` by `AgentInv` (the policy of a running agent is what
its settings and the file it read give, and every line of that file parses);
`BindingHolds` by `KeyInv` (a keyfile holds the parsed rules its key was created
with) and `CanonicalRules` (reading what was written gives the same rule). The heart
is `RuleMatches`: for each kind of rule, the code's parser and matcher, given what
could be found out of a process, say what `Authorizes` says of the line as written, if
no comment is behind it; if one is, `CommentedMatchesNobody`.

`KeyStoreProofs` - any number of overlapping commands, any labels, kills and
failures: `StoreTypeCorrect`; `ListingsRegular` by `ListingInv` (what is on disk
during a listing has been seen; a key that was there all the time is listed, or its
label is still to be visited); `CreatesSafe` by `CreateInv` (the file a create has
opened stays its own); `DeleteAllDeletes` by `DeleteAllInv` (a key of the listing
that is still on disk has its label among those left to remove) and `NoKeyReturns` (a
key whose file is gone never comes back); `PubsInStep` by `SerialInv`, which says for each system call how `.pub`
files and keyfiles differ while one command runs alone.

`AuditLogProofs` - any number of agents, calls and legacy lines, any faults:

- `LogTypeCorrect`, by `LogInv` (`FileInv`: legacy lines, then lines of records that
  have a number and a hash; `AgentsInv`: what an agent knows was once written).
- `TailVouches` and `EditsDetected`: of two files that verify and end in the same
  record, take the last line in which they differ; the line after it says by its
  hash what comes before it, so they do not differ there. Nothing is assumed of how
  the file came about but its types, so this holds with overlap and faults too. The
  run tries edits of one or two lines; `TailVouches` is about every file.
- `FirstBreakIsTheDamage`, for agents that do not overlap: not inductive alone, since
  a restart seeds from the last line that can be read. `SoloLogInv` adds to `LogInv`
  that at most one agent is up (`SoloInv`), that every intact line carries the number
  and hash the verifier expects after the lines before it (`ChainInv`), and that what
  the agent that is up remembers is what the end of the file says (`TailInv`).
- `SeqRisesForOneAgent`, for agents that do not overlap and writes that do not fail:
  by `SoloLogInv` and the fact that every line is then whole (`IntactVerifies`).

`PlistProofs` - any number of commands, any plists, any clock:

- `PlistTypeCorrect`, `ForeignUntouched`: by `PlistInv`. Commands overlap, so what one
  has parsed may be old when it writes; `FoundInv` says it is still either no plist
  because there was none at first, or the original, and `WrittenInv` that what is on
  disk is the original, what it becomes by migration, or, if there was none, an
  installed one. `UntouchedInv`: beside a foreign plist no command gets past reading.
- `WrittenIsLoaded`, by `ReloadInv`: if what is loaded is not what is on disk, nothing has
  been written, or launchd has refused to unload, or some command that has written is
  still to unload and load, or failed, was killed, or was told not to. What was loaded
  at first does not matter.
- `OriginalIsKept`, by `BackupInv`: a command that is to write has its backup under its own second; a
  backup is overwritten only by one of the same second. `CopyInv` covers the file read
  twice: what is copied is the original, or the original has already been replaced.
- `MigrationKeepsMeaning`, for plists whose command line spells its flags as migration's
  tables do, names its socket once and does not end in a flag that lacks its value
  (`OldCommandLine`, a condition of the property): for every such command line, of any
  words and length. `PlainLine` shows that on a line so spelled the parser, which knows
  every spelling, does what one does that compares words with the tables, and
  `KeptIsPlain` that what migration writes is so spelled. `KeptMeans` compares, from each position on, what
  `extractRunFlags` keeps with what is there (`Agree`); `SettingShift` says what one
  more flag in front does to the meaning of the rest. It is here that both scans have
  to take the same words for values.

Induction over a sequence is done in `AuditLogProofs` and `PlistProofs` without those of the
library's theorems that take an operator: the positions at which something is wrong are a set of
numbers, and a set of numbers that is not empty has a least and, if bounded, a greatest
member (`LeastNumber`, `GreatestNumber`, from the well-foundedness of `<`), where the
contradiction is found. That the recursive functions of the model (`extractRunFlags`,
`FlagsAt`) satisfy their equations is proved in the same way (`KeptExists`,
`FlagsExist`).

Only model-checked: all liveness, which is out of the prover's reach. The properties
of the three runs that expect a violation do not hold; of one of them a restricted
form is proved, as said.

## 5. Not modelled

- The Secure Enclave bridge (`secureenclave*`, Swift): calls without state on this
  side; `SignReturns` and `Raised` are the outcomes they can have.
- The system calls behind peer identity and how their results are decoded
  (`peer_darwin.go`, `codesign_darwin.go`) and CoreFoundation
  (`managed_darwin.go`): their results are the inputs of `Admission`.
- `Add`, `Remove`, `Lock` and the like, which the agent refuses; `List`, `Signers`
  and `Extension`, which change nothing; notifications and the text of messages.
- `validateLabel`, the printing of `-verify-audit`, `-list` and `-version`, the XML
  of plists: wording and parsing without a state of their own.
- Packaging, completions, hooks, CI.
