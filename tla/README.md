# A TLA+ model of the ZTNA system

This directory models the Zero Trust Network Access system of this repository:
an Identity Provider (IdP) that authenticates users and devices and issues
tokens, a Gateway that admits requests to protected applications, the files the
two share, and the administrator's command-line tools. TLC checks the modules on
small instances; TLAPS proves the theorems listed below for every value of the
constants. `PROJECT.json` ties each definition to the source lines it stands for.

Paths below are relative to `src/`.

## 1. The system

Every service is a `ThreadingHTTPServer` (`common/http_utils.py`): one thread per
request, no queue between them. The IdP, the Gateway and each run of a tool are
*separate processes*. They share JSON files, each replaced as a whole by an atomic
rename (`common/storage.py`). All locks are `threading.Lock`s, so they order the
threads of one process and nothing else. Most of what is hard here follows from
that.

| Component | State | Operations | Used by |
|---|---|---|---|
| Proof of possession (`common/token_binding.py`) | `_seen_nonces`, process memory | `verify_proof`, `_prune_nonces`, `_remember_nonce` | Gateway |
| Tokens (`common/jwt_utils.py`, `common/token_store.py`) | `issued_tokens.json` | `issue_token`, `record_issued`, `load_all`, `active_jtis_for_user`, `verify_token` | IdP, Gateway, tools |
| Revocation (`common/revocation.py`, `tools/revoke_token.py`) | `revoked_tokens.json` | `revoke`, `is_revoked` | tools, Gateway |
| Login lockout (`common/rate_limiter.py`) | one entry per user, process memory | `is_locked_out`, `record_failure`, `record_success` | IdP |
| IdP handlers (`idp/idp_server.py`) | none of their own | `/login`, `/enroll`, `/challenge` | agent |
| Device registry (`idp/device_registry.py`) | the file's namespace `devices`; `_CHALLENGES`, process memory | `register_device`, `approve_device`, `revoke_device`, `issue_challenge`, `verify_and_consume` | IdP, Gateway, tools |
| Device administration (`tools/manage_devices.py`) | none | `--approve`, `--revoke` (registry, then a sweep of live tokens) | administrator |
| Storage (`common/storage.py`) | JSON files | `get`, `set`, `delete`, `atomic_write_json` | all of the above |
| Gateway handlers (`gateway/gateway_server.py`) | none | `/access`: expiry, revocation, proof, policy, forward | agent |
| Policy engine (`pdp/policy_engine.py`) | loaded policies, business hours | `evaluate`, `reload_policies` | Gateway |
| Audit log (`common/audit_log.py`, `tools/verify_audit_log.py`) | `access_log.jsonl` | `log_event`, `verify_events_chain` | IdP, Gateway |
| Audit backup (`tools/backup_audit_log.py`) | archive files | backup, verify, restore | administrator |
| Service lifecycle (`common/http_utils.py`) | readiness flag, in-flight counter | drain, health probes | all services |
| JWT keys, rotation (`common/rsa_utils.py`, `tools/rotate_keys.py`) | key files, archive | `ensure_jwt_keypair`, rotate | IdP, Gateway, administrator |
| CA and certificates (`common/ca_utils.py`, `common/tls_utils.py`, `tools/provision_certs.py`) | certificate files | create on first use | all services |
| Agent (`agent/`) | device key in the TPM or a file | enrollment, signed login, proof, watch | user |
| Credentials (`idp/auth_backends.py`, `idp/users_db.py`, `common/totp.py`) | users | password and code checks | IdP |
| Preflight (`common/preflight.py`) | none | the checks before a service serves | services |
| Resources, observability, dashboard, network probe, installation check | none that is shared | constant data, formatting | |

How they interact, for one session: the device enrolls at the IdP and is
*pending*; the administrator approves it with `manage_devices`. The agent logs in
with password, code, posture and a signed challenge; the IdP reads the registry
twice (is the device attested, which key goes into `cnf.jkt`), signs a token,
records it and returns it. The Gateway verifies a request's token, looks it up in
the revocation list, asks for a proof signed by the pinned key when there is a
`cnf` claim, and evaluates policy. Revoking a device changes the registry and then
revokes each of its live tokens on record. Both services append to the audit log.

### What is hard, and what makes each component correct

* **Token binding.** The clock is read before the lock; nonces are pruned by other
  threads' readings; clients' clocks differ. Correct: one proof, one use; only the
  pinned key; a nonce is forgotten only when it has become useless.
* **Sessions.** Four processes on three files. Correct: what a command found stays
  cut off; every live token is on record; an attested token without a binding
  exists only for a cause.
* **Lockout.** Check and record are two critical sections around the credential
  checks. Correct: the guesses the gap costs are bounded; locks have a cause and
  last.
* **Device registry.** A read, a load of the whole file and a replacement, with a
  human between two reads, of a file that counts as empty when it cannot be read.
  Correct: approval belongs to a key; a revocation and an enrollment stand, unless a
  writer that was under way, or one that misread the file, replaced them.
* **Attestation.** One outstanding challenge per device, in process memory, and
  several runs of the agent that share the device, its TPM and its key file; anybody
  who can reach the IdP may name the device.
  Correct: a signature attests one login; only an approved key attests; an honest
  login is refused only for a cause.
* **JWT keys.** Every thread that uses a key makes the pair when a file is missing,
  with no lock, while a rotation moves the files. Correct: what is ensured is one
  pair; tokens are rejected, or survive a rotation, only for a cause.
* **Certificates.** Services hold trust and leaf in memory from start to stop; files
  are made one after the other. Correct: a handshake fails, and a start that nothing
  disturbs fails, only for a cause.
* **Access and policy.** Policies and business hours are read at different times; a
  decision is logged before it is acted on. Correct: what is allowed met one version
  of the policies; every decision that is answered is on record.
* **Audit log and its backups.** Two processes append; appends can be cut short; backup and
  restore take no lock. Correct: the chain breaks, and events are lost, only for a
  cause; tampering shows.
* **Service lifecycle.** A signal handler waits on the thread it interrupts; threads
  are accepted before they are counted; the accept loop waits for each client's TLS
  handshake. Correct: a drain means what it reports and gives up a request at the
  deadline only; it ends, and the process exits, but for a client or a handler that hangs.

`PROJECT.json` lists every hazard at its line with the properties that would
catch it.

## 2. The modules

Each action is one access to shared state together with the local code up to the
next one; refusals and failures are outcomes of these actions, or actions of their
own where they leave a trace. Each module has one type invariant. An operator marked
*Mutated:* is a plausible bug in the operator that follows it. The specification
never uses it; with it in the place of the original, TLC finds the property of
`PROJECT.json`'s `mutants` violated.

Several properties have the form *X happens only for one of these causes*. The causes
are the limits of the code that its authors accept or that its design implies, each
named and kept as small as TLC lets it be: without any one of them the property
fails. Where a cause cannot be read off the files it is a history variable. In
KeyMaterial and Certificates, `tangled` and `mixedUp`: two makers of the same files were at
work at once, or one ended half-way and left files that look complete. In Sessions, `raced`, the
commands that another one may have overwritten, `overtaken`, the attested logins whose device
lost its approval before they were bound, and `misread`, who went on with which
file although it could not be read. DeviceRegistry and Attestation have a `misread` of their own.

### SingleUse

The abstract specification of every nonce in this system: a growing set of uses, in
which no two use the same thing. TokenBinding implements it for the proofs that one
Gateway process accepts, Attestation for the challenges that the IdP issues.

### TokenBinding (`common/token_binding.py`, its use in `gateway/gateway_server.py`)

A handler thread is a request `r`: `Arrive` (expiry, proof headers, clock reading,
freshness), `Remember` (the critical section: prune, look up, insert),
`CheckDevice` (registry record, thumbprint, signature). `Sign` is the agent,
`Enroll` and `Decide` are other processes that change the registry, `Restart`
loses the cache. `seen` is `_seen_nonces`. A nonce is never drawn twice and a
signature can only be made with the key: cryptography is ideal. `Stall` is how
long a thread may sleep between its clock reading and the lock, `Skew` how far a
client's clock may be off. `Slack` is the code's `+ 5`.

### Sessions (`idp_server`, `jwt_utils`, `token_store`, `revocation`, `revoke_token`, `manage_devices`, `gateway_server`)

A login starts where its credentials have been accepted: `Attest` and `Bind` are
the two registry reads, `Mint` signs the token, `Record` writes the index and sends the token. A command
of the administrator is `Approve`, or `RevokeDevice` then `Sweep`, or `RevokeUser`,
or `RevokeToken`; each jti is then revoked by `LoadList` and `SaveList`, any of
which may fail. A request is `Receive`, `CheckRevoked`, `CheckProof`. Commands
may overlap in any way: the list's lock belongs to one process, so an entry that is saved while
another command is between its load and its save is lost (`Races`). Each `_load` returns nothing
when the file cannot be read (`Loads`), and its caller goes on with that: a login then
begins a new index, a command a new list, and a request finds nothing revoked. `Trusts` notes
this in `misread`, where it matters, and `MaxMisreads` bounds it. To `Attest` and
`CheckProof` an unreadable registry is a refusal, and a command that sweeps with it finds less.

Of the registry this module has `approved`, the devices that are. Whoever changes it is one
step here: `Approve`, `RevokeDevice`, `Enroll` with another key, and `Overwrite`, in which a writer for
another device puts back what it has of this one's record. The reads and writes these
consist of are DeviceRegistry's subject. `Record` writes the index and hands out the token in
one step, as `issue_token` returns only after `record_issued` has: that order is in the
model and is not checked by it.

### Lockout (`common/rate_limiter.py`, the first half of `handle_login`)

One account. `failures` is the entry's list of timestamps, as the set of the attempts
that recorded them. `Admit` and `Refuse` are `is_locked_out`, `Fail` is `record_failure`,
`Succeed` is `record_success`, `LacksPosture` a refusal in between that records
nothing. Requests are numbered in the order of their calls of `is_locked_out`,
which the limiter's lock puts in a sequence. The module assumes `Window <=
LockFor`, as configured by default (`common/config.py`): with a shorter lock a new series fits
into the same window.

### DeviceRegistry (`idp/device_registry.py`, `tools/manage_devices.py`, `common/storage.py`)

A writer is an enrollment or a command. `Enroll` and `Reread` read the record,
`Load` and `Save` are the two halves of `FileBackend.set`, `Show` and `Abort` the
administrator's dialogue, `SaveFails` an `atomic_write_json` that gave up.
Enrollments exclude one another (`Holding`, the IdP's lock); commands exclude
nobody. Each read may find the file unreadable, and then has nothing of it: `Reads` is what `get`
returns, and a `Load` that fails makes the next `Save` leave nothing but its own record
(`misread`, up to `MaxMisreads`). `trusted`, `before` and `over` are history: they let a property say
*unless a writer that was under way replaced it*.

### Attestation (`agent/client_agent.py`, `agent/device_attestation.py`, `idp_server`, `device_registry`)

One device. A run of the agent is `FindKey` (the TPM answers, or the key file is
used), `MakeKey` and `LoadKey` (the file is written and read again), `Enroll`,
`AskChallenge`, `Sign`. An enrollment may fail (`EnrollFails`): the agent goes on with any answer but
a 202. `ChallengeRefused` is the 404 of `/challenge`. A login that carries a signature is `Consume` (the pop),
`CheckExpiry`, `CheckSignature`; a signature may be sent more than once. `Approve`
and `Revoke` are the administrator, `Restart` the IdP, which forgets the challenges
and cuts off the logins in progress. A nonce has the name of whoever asked for
it. `Intrude` is a `/challenge` or a `/login` from elsewhere that names the device,
`EnrollElsewhere` an `/enroll`. `OtherLoads` and `OtherSaves` are a writer for another device,
which puts this one's record back as it read it, or drops it when it could not read the file;
`Reads` is what the IdP's own reads may find. `turn`, `trusted` and `misread` are history.
The module assumes that names of runs, requests and keys differ.

### KeyMaterial (`common/rsa_utils.py`, `tools/rotate_keys.py`, `tools/provision_certs.py`)

A thread of the IdP, of the Gateway or of the provisioner calls
`ensure_jwt_keypair` (`FindPair`, or `Generate`, then `OpenPrivate`, `WritePrivate`,
`OpenPublic`, `WritePublic`, any of which may be the last: `Fail`) and then reads
its own file once more (`SignToken`, `VerifyToken`). `MovePrivate` and `MovePublic`
are `rotate_keys --what jwt`, which ends there: `_reprovision` calls
`provision_certs.main` without the arguments it requires, and that exits. With `PerHost` the Gateway has a host of its own that
begins with the bundle `provision_certs` writes. The module assumes that no thread is both a
login and a request or a run of the provisioner.

### Access (`pdp/policy_engine.py`, `gateway/gateway_server.py`, `common/preflight.py`, `common/config.py`)

The Gateway imports the policies, preflight reads the file again (`Preflight`), then
requests are served: `Lookup` takes the policy under the lock, `Decide` runs the
checks in their order and reads the hours without it, `Record` writes the audit
line, `Refuse`, `NoAddress` and `Proxy` answer; the log, the resource and the handler may fail.
Every reading of the file may fail although the file is sound (`Readings`, `Unread`): the import
and a reload then go on with the defaults, preflight refuses. `Relayed` is whatever status the
resource answered with, 4xx and 5xx included. `StartReload` and `FinishReload` are `reload_policies`, `Edit` changes
`policies.json`. `Order` lists the checks of `evaluate` and `Refuses` says what each one
refuses; the reason of a denial is the first that does. `Permits` is the reference they
are compared with: a conjunction without an order. It shares the lookups of optional
keys with them, not the comparisons. Levels, scores and thresholds are numbers
(`AccessAssumption`): a policy whose thresholds are not raises an error in `evaluate`,
which is not modelled.

### AuditLog (`common/audit_log.py`) and AuditBackup (`tools/backup_audit_log.py`)

`Read` looks for the last hash, `Write` appends, `Tear` is an append that stops
half-way or just before the newline, `Fail` one that never starts. `Extended` says
what happens to a line that follows an unfinished one: the two become one line that
does not parse. A hash is the sequence of the events it covers, which is what
collision freedom means. `Intact` is `verify_events_chain`, `Readable` what
`read_events` returns, and `HashBefore` what `_read_last_hash` finds in front of a line.

AuditBackup EXTENDS AuditLog and adds the commands, one at a time: `ReadEvents` and
`Copy` are a backup, `CheckBackup`, `Preserve` and `Overwrite` a restore, which may
be cut short. The services go on logging at every point. `kept`, `unkept` and `stale`
are history: what can be read in some copy, what was logged between a restore's two
copies, and who read a log that has been overwritten.

### Certificates (`common/ca_utils.py`, `common/tls_utils.py`, `common/preflight.py`, `tools/provision_certs.py`, `tools/rotate_keys.py`)

What a process does is a sequence of tasks, `Plans`: a service loads the CA it trusts,
passes preflight, issues its own leaf and loads it, and the Gateway does so in another order than
the resources. `FindLeaf`, `FindCA`, `LoadCA`, `OpenFile`, `WriteFile`, `LoadTrust`,
`CheckSound`, `LoadChain` and `MoveFile` are the steps, each one file at a time; `Kill` may end any run between two of
them. A certificate is its key pair, the CA pair that signed it and the address it
names. A run that ends half-way mixes up files (`LeavesMixture`) if what it leaves can be taken for a
good certificate, now or by a run that is at work with the address of an earlier time,
and a file that is changed under a run at work which may use it mixes them up as well
(`Disturbs`). `Readdress` and `Expire` are what happens to certificates from outside.
`FailedStartHasCause` says when a start, or a run of the provisioner, fails that nothing disturbs. A service makes its leaf
and never the CA: it stops at its first look at the CA, or at preflight, if that is not there. The property allows
this only where there is no leaf either (`Unprovisioned`), that is where `provision_certs` has never run or everything
was archived. The Gateway's second leaf, the server certificate it issues after
preflight, is made like the first and left out.

### ServiceLifecycle (`common/http_utils.py`, `common/tls_utils.py`)

`Poll`, `Accept`, `Shake`, `Close` and `Exit` are the main thread in
`serve_forever` and `server_close`; TLS wraps the listening socket, so the handshake
belongs to the accept. `Signal`, `EndLoop` and `Report` are `_drain_and_stop`,
`Shutdown` the thread it starts, `Tick` the time it waits. `Enter`,
`Dispatch`, `Reply` and `Leave` are `_dispatch` in a connection's thread, `HangUp` a
client that never sends its request. The usual names have the prefix `Service`, in
Certificates `Cert`, because HostProofs uses the two together with KeyMaterial. While `Interrupted`, the main thread does nothing
but run the signal handler. `Probes` are those that the dispatcher answers itself, also while
draining (`/ready` of every service, `/health` of those that do not route it). The Gateway
and the documents application route `/health` to a handler of their own
(`gateway/gateway_server.py:75`, `resources/docs_app.py:28`), and so refuse it while draining: a
request here. A connection in `Hung` may stay for ever in its handshake, before its
request or in its handler. What a probe's answer says is not modelled.

### How they fit together

A login goes through Lockout (credentials), Attestation (challenge) and Sessions
(registry reads, token). Sessions uses the registry as the set of approved devices,
Attestation as one record, TokenBinding as "the device is approved"; DeviceRegistry
has the file steps behind all three. KeyMaterial provides the key that Sessions signs and
verifies with, Access takes over where Sessions and TokenBinding let a request
pass, and Certificates lets the services reach one another. AuditLog is
independent of the rest: log lines never influence a decision. ServiceLifecycle is
the frame in which every handler runs: its `handling` is where a thread does what
the other modules describe.

## 3. The runs

Deadlock is not checked, because each instance stops when its requests, commands and
clock are used up, and a service that has exited has stopped. Only ServiceLifecycle
states liveness. Its `Fairness` says that threads which can run do run, that time
passes, and that a connection which is not in `Hung` ends its handshake, sends its request or
leaves, and that its handler returns. The first two are the operating system's and the
interpreter's scheduling, the rest is what *not hung* means. Nothing is assumed of the
connections in `Hung`, in their TLS handshake either, which has no time limit in the code: the two liveness
properties say in their premise which of them must not stay where. There is no fairness
of `Signal` or `Connect`. All other runs check invariants and step properties and assume
no fairness.

| Run | Instance | Shows |
|---|---|---|
| `token_binding` | 3 threads, 2 nonces, 2 tokens, 2 keys, window 1, slack 2, skew 1, pause 1, clock 0..5, one restart; 2.4 million states | `ProofSingleUse`, `AcceptedKeyIsPinned`, `ForgottenOnlyWhenUseless` |
| `token_binding_fast_clock` | 2 threads, skew 2, which is past the slack of 1 | violation of `ProofSingleUse` |
| `sessions` | 2 logins, 2 commands at once, 1 request, 1 device, token life 1, clock 0..1, one unreadable file; 7.9 million states | `FoundTokensStayCutOff`, `LiveTokensAreRecorded`, `AttestedUnboundHasCause` |
| `lockout` | 7 attempts, 2 in flight, threshold 2, window and lock 2, clock 0..4, one success or restart; 1.8 million states | `GuessesAreBounded`, `LocksHaveCause`, `LocksHold` |
| `device_registry` | 2 enrollments, 2 commands, 2 devices, 2 keys, one file taken for empty; 5.6 million states | `ApprovalBelongsToKey`, `RevocationStands`, `EnrollmentStands` |
| `attestation` | 2 runs of the agent, 2 logins, a TPM and 2 software keys, and two events in any order: a writer for another device, a request from elsewhere, a restart, a second; 4.7 million states under symmetry | `ChallengeSingleUse`, `AttestedByApprovedKey`, `UnattestedHasCause` |
| `key_material` | 2 logins, a request, a provisioner on one host, 4 keys, a rotation; 840 thousand states | `EnsuredPairMatches`, `RejectionHasCause`, `RetiredKeysStayRetired` |
| `key_material_hosts` | two hosts, each with its bundle | violation of `GatewayCannotSign` |
| `access` | 1 request with any of 8 claims for any resource, 4 contents of `policies.json`, 2 edits, reloads and readings that fail; 2 million states | `AllowFollowsPolicy`, `AnswersAreRecorded`, `FallbackHasCause` |
| `audit_backup` | 3 events of one process, 1 of another, one append cut short, 2 commands; 310 thousand states | `BreaksHaveCause`, `NothingIsLost`, `TamperingShows` |
| `certificates` | the Gateway and a resource, 4 starts or commands, 2 at work at a time, one mishap; 1.6 million states | `HandshakeFailureHasCause`, `FailedStartHasCause` |
| `service_lifecycle` | a probe, two requests, a connection that may hang, 2 ticks of grace; 71 thousand states | `DrainedMeansIdle`, `OnlyDeadlineAbandons`, and the liveness properties `DrainEnds`, `OnlyTheHungDelayExit` |

Why the bounds are enough.

* *Token binding:* a replay needs two threads, and a third one that prunes between
  them; the clock runs past every retention time that an accepted proof can reach.
* *Sessions:* two logins let pruning meet a live token, two commands let one
  revocation overwrite another's, the clock reaches the end of a token's life, where it is
  pruned and yet accepted. A single file that cannot be read violates each property if its cause is left
  out. Devices and users only select tokens, so one of each is enough.
* *Lockout:* the bound `MaxAttempts + 2 * (InFlight - 1)` is reached (it fails
  with one less), so the instance holds the worst case, a lock that runs out inside
  the window of the failures that set it, with both in-flight threads late at each end.
* *Registry:* two devices show that a writer of one overwrites the other, two keys
  show rotation, four writers overlap in every way, and one of them misreads the file.
* *Attestation:* of two runs, one replaces the challenge, the enrolled key or the key file of
  the other; two logins may carry one signature; a challenge that lasts no second runs
  out at the tick. Two of what comes from outside, alike or not, may meet (`Events`, at most
  `MaxEvents`, which counts the first IdP process too). Without any one of the causes it names,
  `UnattestedHasCause` fails here; no cause needs more than one event.
* *Key material:* two makers are enough to mix the files, and a third one makes the
  pair that is used; two of the four keys are there before the rotation or made during it.
* *Access:* requests share nothing but what is reloaded, so one is enough; two edits
  let the file change and change back under it. The contents are the shipped file,
  one with a resource the defaults do not know and one that lacks its thresholds, a
  malformed one and none.
* *Audit:* three events of one process are enough to append after garbage; the fourth,
  of the other process, gives the fork. A backup and a restore fit in, or two restores.
* *Certificates:* four runs are a start of each service, a rotation, and a start after
  it. A behaviour is not followed once files are mixed up (`MaxTangled = 0`), since both
  properties then hold by their cause. Larger instances (five runs; two mishaps, 13 million
  states; three runs and three mishaps, 16 million) show the same and take longer than a run
  should. The last of them is needed to see the second case of `LeavesMixture`: a
  rotation that is killed, a change of address, and a provisioner that is killed while a service is at work.
* *Lifecycle:* connections interact only through the accept loop and the counter; one
  can be in each of queue, handshake, thread and counted part at the signal.

Symmetry is used only among interchangeable requests, nonces, tokens, logins, agents, threads,
commands, devices and keys, and no liveness is checked with it.

### What the violations mean

Both are places where a document of this repository promises more than the code
does; the quotes are in `PROJECT.json`'s `findings`.

* `token_binding_fast_clock`: a proof dated ahead stays acceptable for up to twice
  the window, its nonce is kept for the window plus 5 seconds. One replay is what it comes to, for
  every clock, as `ReplayedAtMostOnce` proves.
* `key_material_hosts`: the Gateway's own host is given the public key only; the first
  request makes a whole pair there, because one of the two files is missing. It then
  holds a private key, and no longer the IdP's public one.

### What else was found while modelling

These differences between code and documentation, or surprises, are in the models as the code has them; the
properties above name them as causes where they bear on one.

* A device that loses its approval between the two registry reads of a login leaves an attested
  token without a binding, which may be recorded after the sweep (`idp/idp_server.py:161`): a
  revocation does that, an enrollment with another key, or a second read that fails.
* An enrollment under way when a device is revoked writes its old record back, and with it the
  approval (`common/storage.py:211`).
* `--approve` approves the record it reads after the prompt, not the one whose
  thumbprint was compared (`tools/manage_devices.py:115`).
* The log's lock belongs to one process, and two processes write: their events may
  fork the chain (`common/audit_log.py:69`).
* A probe is never answered during a drain: the drain waits on the thread that
  accepts (`common/http_utils.py:350`).
* `rotate_keys` regenerates nothing: its call of the provisioner exits because a
  required argument is missing, after the old files have been moved
  (`tools/rotate_keys.py:186-206`). The `--host` option that `docs/`, preflight and
  `rotate_keys` mention does not exist.
* On an empty disk no service starts: preflight stops it for want of a CA certificate
  (`common/preflight.py:168-174`), the Gateway's import even before that
  (`common/tls_utils.py:73`). Three places say otherwise: `tools/provision_certs.py:8-10`
  ("the first service to start generates the internal CA and the JWT signing keypair"),
  `docs/HARDENING.md:66-67` (the CA's files "exist after any service has started once") and
  `docs/MULTI_HOST_LAB.md:70-71` ("Starting a service auto-generates a local CA"). The models have
  what the code does: `Unprovisioned` in Certificates.
* A client that connects and is silent in its TLS handshake holds the accept loop, and with it
  a drain that has reported its end, for as long as it likes (`common/tls_utils.py:62`): the
  handshake has no timeout, and the grace period is over by then. `DrainEnds` needs its premise.
* A second SIGTERM or SIGINT changes nothing: the handler returns. Its comment says "second
  signal: let the default behaviour take over" (`common/http_utils.py:343`), but no default
  behaviour is restored. `Signal` is disabled while draining for that reason.
* `shutdown_forced` with the detail "grace period expired with requests still in flight" can be reported
  before the deadline, for a request that is counted between the two reads of `inflight`
  (`common/http_utils.py:350-356`); that request is refused, so nothing is abandoned
  (`OnlyDeadlineAbandons`).
* A registry that cannot be read counts as empty (`common/storage.py:176-182`): an honest login is
  refused as of an unknown device, and the next change of any device drops all the others.
* Two restores within one second use the same name for the copy of the log they set aside, and
  the second overwrites the first's (`tools/backup_audit_log.py:238-241`). In AuditBackup
  copies never share a name.
* A leaf is used again without looking at the CA that signed it (`common/ca_utils.py:189`).
* Reloading a malformed `policies.json` falls back to the weaker defaults with a line on
  stdout (`pdp/policy_engine.py:49`); only a start refuses. So does a single reading that
  fails (`OSError`), and at the import not even the start refuses, if preflight can read the file again.
* A restore compares lengths, not contents; a backup of a log that grows meanwhile is
  rejected as a bad copy; two backups within one second share a name
  (`tools/backup_audit_log.py`).
* A revocation list that cannot be read counts as empty, for requests and for the next
  revocation, which then replaces it (`common/revocation.py:35`); so does the index of issued tokens
  (`common/token_store.py:30`), and a sweep after that finds only what was issued since.
* A token is accepted at the instant of its `exp`, when it is no longer listed
  (`common/token_store.py:79`).

## 4. The theorems

Each is a theorem of the module's `Spec` for all constants that satisfy the
module's named assumption, without any bound on requests, time or devices. What the runs
check is defined in the component's module. Where a theorem states something no run does, its
formula is in the proof module, as for `ReplayedAtMostOnce`, `OneAtATimeSuffices` and the three
about the drain's progress.

| Theorem | Says | Argument |
|---|---|---|
| `TokenBindingProofs!SingleUse` | `[]ProofSingleUse` | `UseInv`, below |
| `TokenBindingProofs!ReplayedAtMostOnce` | `[]AcceptedAtMostTwice`, whatever the clients' clocks | `ReplayInv`, below |
| `TokenBindingProofs!ImplementsSingleUse` | the accepted proofs implement `SingleUse` | `UseInv` |
| `TokenBindingProofs!ForgetsOnlyUseless` | `ForgottenOnlyWhenUseless` | `UseInv` and `CacheInv` |
| `TokenBindingProofs!PinnedKey` | `[]AcceptedKeyIsPinned` | `KeyInv` |
| `SessionsProofs!RevocationIsFinal` | `[]FoundTokensStayCutOff` | `CutInv`, below |
| `SessionsProofs!OneAtATimeSuffices` | `[]OneAtATime` implies the same without causes | nobody races |
| `SessionsProofs!LiveTokensStayOnRecord` | `[]LiveTokensAreRecorded` | inductive with the types; only `Record` prunes |
| `SessionsProofs!AttestationBinds` | `[]AttestedUnboundHasCause` | `UnboundHasCause`, below |
| `LockoutProofs!GuessingIsBounded` | `[]GuessesAreBounded` | `CountInv` and `LostInv`, below |
| `LockoutProofs!LocksAreCaused` | `[]LocksHaveCause` | the window that ends at the last lock |
| `LockoutProofs!LocksAreKept` | `LocksHold` | `LockInv`: a lock in force ends at most `LockFor` from now |
| `DeviceRegistryProofs!ApprovalIsForTheKey` | `[]ApprovalBelongsToKey` | `TrustInv`, below |
| `DeviceRegistryProofs!RevocationsStand` | `[]RevocationStands` | `StandInv`, below |
| `DeviceRegistryProofs!EnrollmentsStand` | `[]EnrollmentStands` | `StandInv` |
| `AttestationProofs!ImplementsSingleUse` | `ChallengeSingleUse`: the attested logins implement `SingleUse` | `UseInv`, below |
| `AttestationProofs!AttestationIsApproved` | `[]AttestedByApprovedKey` | `TrustInv`: an approved record has a trusted key, and a run that has signed stops |
| `AttestationProofs!RefusalHasCause` | `[]UnattestedHasCause` | `CauseInv`, below |
| `AccessProofs!AllowsFollowPolicy` | `[]AllowFollowsPolicy` | `FoundInv`, below |
| `AccessProofs!DecisionsAreOnRecord` | `[]AnswersAreRecorded` | `RecordedInv`: what is in the log at each point of a request |
| `AccessProofs!FallbackIsCaused` | `[]FallbackHasCause` | `FallbackInv`: until an edit, the policies are those of the file or of a reading that failed |
| `AuditLogProofs!TamperingIsDetected` | `ShowsTampering` of every intact chain | hashes grow by one event per line |
| `AuditLogProofs!TamperingWouldShow` | `[]TamperingShows` | `TamperingIsDetected` of what `read_events` returns |
| `AuditLogProofs!LossesAreBounded` | `[]NothingIsLost` | `LossInv`, below |
| `AuditLogProofs!BreaksAreCaused` | `[]BreaksHaveCause` | `ChainInv`, below |
| `AuditLogProofs!OneProcessKeepsTheChain` | one process, no restore: the chain is always intact | `ChainInv` |
| `HostProofs!EnsuredIsOnePair` | `[]EnsuredPairMatches` of KeyMaterial | `PairInv`, below |
| `HostProofs!RejectionsAreCaused` | `[]RejectionHasCause`, on one host | `IssuedInv`, below |
| `HostProofs!RotationRetires` | `[]RetiredKeysStayRetired`, on one host | `RetiredInv`, below |
| `HostProofs!DrainIsComplete` | `[]DrainedMeansIdle` | `CountInv` and `DrainInv`, below |
| `HostProofs!DeadlineAlone` | `[]OnlyDeadlineAbandons` | `DrainInv`, below |
| `HostProofs!DrainIsNeverStuck` | `[]DrainNeverStuck` | `StageInv`, below |
| `HostProofs!DrainsAdvance` | `DrainOnlyAdvances` | `StageInv` and `MainInv` |
| `HostProofs!DrainsProgress` | each step of `GoesOn` lowers `DrainRank`, at most `Grace + 6` | `StageInv` and `MainInv` |
| `HostProofs!HandshakeFailuresHaveCause` | `[]HandshakeFailureHasCause` | `LoadedInv`, below |
| `HostProofs!FailedStartsHaveCause` | `[]FailedStartHasCause` | `FilesInv`, below |
| `TypeCorrect` of TokenBinding, Sessions, Lockout, DeviceRegistry, Attestation, Access, KeyMaterial (in HostProofs); `TypesAreCorrect` of AuditBackup; `ServiceTypeCorrect` of ServiceLifecycle and `CertTypeCorrect` of Certificates (in HostProofs) | `[]TypeOK`, `[]BackupTypeOK`, `[]ServiceTypeOK`, `[]CertTypeOK` | |

*SingleUse* and *ImplementsSingleUse* of TokenBinding need the clocks: they assume
`Skew + Stall <= Slack`. "No two accepted
requests share a proof" is not inductive by itself, because whether a second request gets through depends
on what the cache still holds. `UseInv` adds that nonces identify proofs
(`ProofsInv`); that a waiting thread's proof was fresh when it read its clock, not
longer ago than `Stall` (`RequestsInv`); that a nonce which was spent in this process is still
in the cache, or its proof is too old for anyone (`SpentInv`), so that at most one
request has spent it (`SpentOnce`). `CacheInv` adds, for the pruning property, that
every cache entry lasts as long as its proof can be taken. The
fast-clock run shows that the assumption cannot be dropped.

*ReplayedAtMostOnce* says what is left without it: a proof comes back once, whatever the clocks say. It
assumes only that no thread pauses for longer than the nonce outlives the window (`Stall <=
Slack`, 5 seconds in the code), which is about the Gateway alone. `ReplayInv` adds to the types that every
thread read its clock within `MaxAge` of its proof's date (`WindowInv`), that a nonce
which was spent is in the cache or its retention is over (`HeldInv`), and that two uses of a
proof therefore read the clock more than `MaxAge` apart (`ApartInv`). An interval of twice
`MaxAge` has no room for three of them.

*RevocationIsFinal* lets any number of commands run at once. `CutInv` follows what a
command has written, that is what it found without what it has left to do. `KeptInv`: unless the
command raced, or some command misread the list, this is in the list and in every
copy of it that a command is about to save. With that a later command can only extend it, and a command that overlapped one which
saved is found in `raced`, at the instant of the save. `DoneInv`: a command that is done has
nothing left. `Screened`: a request past the list check carried a token that the
commands done before it had not found, or has its cause. *OneAtATimeSuffices* draws the
conclusion for an administrator who waits for one command before starting another: nobody races, so with
readable files no cause is left.

*AttestationBinds* spans two reads of the registry. `UnboundHasCause` says what an
attested login that is not bound must be: on its way to the second read with its
device still approved, or in `overtaken`, or one whose second read failed. Every step that takes an
approval records whom it overtakes (`ApprovalStep`), and nobody leaves that record.

*GuessingIsBounded* is a count. The failures of a window are those that are still in
the entry and those that the entry has lost. `CountInv` bounds the first: an entry that
is not locked is below the threshold, and after the lock only the threads that were
past the check add to it, so that entry and threads together stay at `MaxAttempts +
InFlight - 1`. `LostInv` bounds the second: a lock that runs out empties the
entry, and of a window that is not over it can only take failures that came after
the lock was set, since `Window <= LockFor`; these are again at most the `InFlight - 1`
threads that were past the check. `LocksHaveCause` follows those failures by name, which is why the
entry is a set of attempts.

*ApprovalIsForTheKey* needs no lock. `TrustInv` carries the trust through every
copy: whatever a writer has read, as a record or as a whole file, is approved only
with trusted keys, and trust is never withdrawn. So a stale copy may undo a
revocation, but never approves a key nobody approved.

*RevocationsStand* and *EnrollmentsStand* are one argument. What a writer `c` has
written is *reflected* by a record that agrees with it. `StandInv` says that the registry reflects
every writer that is done, unless it has an excuse (`Excused`: one that read before overwrote it, or a
later one of the other kind superseded it, or a later one for another device misread the file), and that so does every copy, of a record or of the
whole file, in the hands of a writer that read after `c` was done and could read (`Aware`). A copy of
nothing is harmless to a revocation, which only an approved record contradicts; an enrollment is
dropped with it. Excuses last, because what is done stays as it is.

*ImplementsSingleUse* of Attestation needs no clock and no assumption on restarts.
`TakenOnce` says that the challenge that is outstanding and those that logins have
taken all differ, and that an attested login took the challenge its signature covers.
A new challenge differs from all of them because a run asks once, which `TurnInv` keeps.

*RefusalHasCause* has to explain a refusal that may come long after its cause. `CauseInv`
says that a challenge which was issued is outstanding, was taken by a login, was
replaced by a later run's, taken from elsewhere or lost with the process (`IssuedInv`, which needs that
turns are given out in order, `TurnsInv`); so a login either took the challenge it
answers or missed it (`MissedInv`). A run that was given a challenge had a record, which is there or was
dropped by a writer for another device; its key always belongs to some run or was enrolled from
elsewhere (`RecordInv`), and a run uses one kind of key throughout (`KeysInv`). This leaves a registry that
cannot be read, somebody else's key or a replaced file as the only reasons for a
signature that does not verify (`ReasonInv`).

*AllowsFollowPolicy* compares the loop over `Order` with the conjunction `Permits`.
`FoundInv` says that between lookup and decision the Gateway's policies are still those of
the file the request's policy came from, unless a reload has been finished since the
lookup. So the hours that are read without the lock are that file's, or the reload is counted.

*LossesAreBounded* needs more than a count. A line without its newline swallows the
next event, so `LossInv` counts an open last line as one loss in advance, which
`tears` covers, and says that the line costs only that event: its own was not acknowledged,
or can be read elsewhere (`LastLineIsSpare`). It carries the count over the restore's two copies: what has been
copied aside and what the backup holds are both in `kept`.

*BreaksAreCaused* relates a line to everything before it. `ChainInv` says that each line of the
log, and of a backup that may replace it, continues the last one that parses or has
its excuse (`Chained`), and that what a thread has read and not yet written
is still what it must continue, or another process wrote last, or the log was
overwritten (`KnownInv`). The lock of a process enters there: it has one reader at a
time. `OneProcessKeepsTheChain` is the same invariant without the excuses.

The proofs about the log need induction over its length. The library's
induction theorems take an operator as a parameter; here a claim about the numbers
up to `n` is instead the *set* of the numbers it holds for, and the lemma `Induction`
says that a set which contains 0 and the successors of its members is all of them. That a
recursive function is what its definition says (`LoopEnds`, `ReadableDef`) is proved the same
way.

The three theorems about the key files speak of what is so until files have been mixed up (`tangled`).
*EnsuredIsOnePair* then has one maker at a time: `PairInv` says so, that files
which are both there with no maker at work are one pair, and what the private file holds while the
public one is made; a thread that is ready and saw this stage of the rotation
finds both, because files go away only when the rotation moves on. *RejectionsAreCaused* follows
a key from its signature to the request that rejects it. `IssuedInv` says of every key that has
signed a token, or is in the private file, that it is archived, that its maker has failed, or that it is current: in the
private file, and in the public file or about to be. *RotationRetires* needs that after
the rotation no file and no maker holds an archived key (`RetiredInv`). The last
two assume one host (`~PerHost`): the Gateway's own host makes keys of its own and rejects everything the
IdP signs, which is what `key_material_hosts` shows.

*DrainIsComplete* rests on `CountInv`: `inflight` is the number of threads between
`enter_request` and `exit_request`. At a report of *drained* that set is empty, and
`DrainInv` keeps it so: whoever is counted later finds the service draining. *DeadlineAlone* is
the other half of `DrainInv`: the wait ends by the count or by the deadline, and by the count nobody
is at work then, nor starts to be.

*DrainIsNeverStuck*, *DrainsAdvance* and *DrainsProgress* are the part of `DrainEnds` that needs
no fairness. `DrainCanGoOn` writes out when the next step of a drain is possible, stage by stage.
`StageInv` says what each party finds when its turn comes: the loop is asked to stop only after
the report, so that the main thread is free by then, and `ready` and `handshake` are never about a
connection that is not there. The one party outside the service is the client in whose handshake
the loop is: that it can go on does not mean that it will. `DrainRank` counts the stages down, the ticks of grace first; with
one handshake at a time (`MainInv`) no step raises it, and those of `GoesOn` lower it. What is left to TLC is that a
step which stays possible is taken.

*FailedStartsHaveCause* is about files that other runs left. `CertSane` says what is so in
any case: how far each run is in its plan (`PlanInv`), and that key pairs are numbered and each
file holds what its kind may hold (`ContentInv`). Until files are mixed up, who is between
two files has them to itself: a step of another on them would be seen by `Disturbs`
(`LeavesAlone`, `EachAlone`), so that what a run did stays done until its
next step. With that, `FilesInv` says of the CA that a certificate on disk has its key
and is empty only while its maker is at work (`CaInv`); of each leaf that one which would be used
again, now or by a run with an earlier address, belongs to the key beside it unless a
run is between writing the two (`LeafInv`); and that it is signed by the CA on disk, or by one that
rotate_keys has moved and has yet to follow up (`SignedInv`). `Kill` keeps this only because
`LeavesMixture` counts the deaths that would not; that it has to look at the addresses of the
runs at work, and not at today's alone, came out of the proof. A CA certificate that is missing
while nobody is at work has then been archived, and the leaves with it, or was never there
(`SignedInv`, `Repaired`).

*HandshakeFailuresHaveCause* goes on from there to what is in memory. `LoadedInv` says
that a service which loads or is up trusts a CA that is on disk or retired
(`TrustSide`), that its leaf was signed by the same one and names the address of its
start (`ServiceSide`, `UpSide`), and that nothing of it has expired unless it is in `aged`. Two
services that trust what is on disk trust the same CA, and so shake hands.

## 5. What is only model-checked

`DrainEnds` and `OnlyTheHungDelayExit` are liveness, each under a premise about the hung
connections: they (of the first, the step from
`DrainsProgress` to the end of the drain), and everything else about
fairness, stay with TLC, because the prover has no rule for `ENABLED`. The two runs that
expect a violation show single behaviours. Every other property in section 3 is proved
for all values of the constants, under the assumptions that section 4 names; the bounds of the instances, such as `MaxTangled = 0`, restrict the
runs and not the theorems.

### Abstractions

* SHA-256, signatures and random nonces are ideal.
* One clock per host; TokenBinding lets the clients' differ.
* A file that is replaced atomically is read back as written, by all processes at once. That
  it may be unreadable for a moment, and then counts as empty, is modelled where the file is shared: in Sessions,
  DeviceRegistry and Attestation, and for `policies.json` in Access. Key and certificate files are not
  replaced atomically: opening and writing are two steps there.
* The switches that turn a check off are on, and helpers of the tests are left out.
* Which password or code is right is a free choice. So is the device's signature over
  a challenge in Sessions; Attestation says when it is accepted.
* Lockout has one account: entries of different names never meet. Attestation has one device;
  the records of the others meet its own in `OtherLoads` and `OtherSaves` only, and a change
  of its own record is one step there.
* `Record` of Sessions writes the index and sends the token in one step.
* A copy of a file is one step in AuditBackup, where the log is small enough to be
  copied by one read and one write.

## 6. Not modelled, and what is left

Not modelled:

* `cleanup_expired` and `active_jtis_for_device`, which nothing calls, and
  `MemoryBackend`, which no two processes can share.
* Commands that only print: `cmd_verify` and `cmd_list` of the backup tool, `--list`
  and `--show` of `manage_devices`, `--check` of `rotate_keys`.
* `run_watch` of the agent, which repeats a request on a timer; posture probes and the
  PowerShell scripts of the TPM, which are an outcome.
* Password hashing and TOTP arithmetic (`idp/auth_backends.py`, `common/totp.py`): pure,
  tested functions whose outcome is a free choice in Lockout.
* The resources, which return constant data, logging format, the dashboard, the network
  probe, the scan for secrets and the installation check: no shared state.
* TLS itself and the fields of a certificate beyond key, issuer, address and expiry:
  library code.

All that changes state which two actors share is in a module, and every safety
property that a run expects to hold is a theorem.
