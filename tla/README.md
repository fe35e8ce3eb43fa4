# TLA+ models of the ykman PIV command line

These modules model `src/ykman/cli/piv.py`, the PIV part of ykman's command
line:

* its access-resolution engine (`_ensure_authenticated`, `_verify_pin`,
  `_authenticate`);
* the access, keys, certificates and objects commands built on it.

TLC model-checks the modules against a small PIV token. TLAPS proves the
central invariants, and the refinement of an abstract access resolver, for
every value of the constants.

## The system

Each CLI invocation is one process with one `PivSession` on the token:

* The `piv` group callback (lines 140-167) opens the session and caches the
  token's pivman data in `ctx.obj`. The pivman data records whether the
  management key is derived from the PIN (a salt) or is a random key stored
  in the PIN-protected object PRINTED.
* A command resolves access in one of two ways:
  * through `_ensure_authenticated`: keys generate and import, access
    set-retries and change-management-key, certificates generate, import
    and delete, objects import and generate;
  * through `_verify_pin` directly: certificates request, and the retries
    of certificates import and objects export.
* Access resolution branches on the cached pivman data:
  * On a *protected* token (derived or stored key) with no `-m`:
    `_verify_pin` verifies the PIN, authenticates with the derived or stored
    key under `PromptTimeout`, and verifies the PIN again, so that the PIN
    is the last authentication.
  * With `-m`: only `_authenticate` runs.
  * On an unprotected token: `_verify_pin` runs when the caller requires
    both factors, then `_authenticate` runs.
* Errors are handled as follows:
  * A failed PIN (`InvalidPinError`) is reported with the remaining
    attempts.
  * Any other error in `_verify_pin` becomes "PIN verification failed.".
  * A failed `_authenticate` logs the error and fails the command.
* Two commands retry after a PIN prompt:
  * certificates import `--verify`: `do_import` runs `check_key`; if the
    token wants the PIN, `do_import` verifies it and calls itself once
    more with `retry=False`;
  * objects export: `do_read_object` verifies the PIN and calls itself
    again, whatever its `retry` flag says.

The following are not code of `src/`:

* the token (yubikit's `PivSession` and the device);
* the `ykman.piv` helpers `pivman_change_pin`, `pivman_set_mgm_key` and
  `derive_management_key`.

They are modelled after the design in `spec.md` (sections 3, 4 and 5) and
marked `spec_modelled` in `PROJECT.json`.

## Modules

| Module | Models |
|---|---|
| `PivToken` | The token: PIN and PUK with retry counters (the token stops at 0), configured retries, the management key and its touch flag, the pivman record `[salt, stored]`, the key in PRINTED (`protKey`), one key slot (`slotKey`, `slotGenerated`, `slotCert`), the data objects present (`objs`), and the session status (`pinOk`, `mgmOk`, `lastAuth` = kind of the last successful authentication). `TokenInit` allows the three protection modes a token can be found in. `FactoryReset` is `PivSession.reset`. |
| `PivAccess` | The CLI. A command is a sequence of labelled steps; `pc` is the next label and `vret` is where `_verify_pin` returns. `Start` is the group callback; `FirstStep` is where each command begins. The helpers are `EnsureAuthenticated`, `VerifyPin` (with `PinFailure`, `PinAccepted`, `ProtectedKeyAuth`) and `Authenticate`. Every command is an action or a few: `GenerateKey`, `ImportKey`, `Attest`, `SetPinRetries`, `ChangePin`, `ChangePuk`, `UnblockPin`, `Reset`, `ChangeMgmKeyCheck`/`ChangeMgmKeyApply`, `GenerateCertificate`, `RequestCertificate`, `ImportCertParse`/`ImportCertCheck`/`ImportCertPut`, `ExportCertificate`, `DeleteCertificate`, `ReadObject`, `WriteObject`, `GenerateObject`. `Finish(o)` is `ctx.fail`, `click.Abort`, an uncaught exception or the normal end: the process exits, its options and locals go, and the token's session status is cleared. |
| `AccessResolution` | The abstract promise of access resolution to a command: a request either fails or resolves, in one step, to the factors the protection mode and options call for. When the PIN unlocks the key, the PIN comes last. A resolved command may gain factors and loses none until it ends. |
| `MC_PivAccess` | The TLC instance: PINs `P1`, `P2` (valid) and `PShort` (wrong length); PUKs `U1`, `U2`; one salt; one random key; one or two key pairs; retry counters up to 2; the command sets of the runs. |
| `PivAccessProofs` | TLAPS: type correctness and the safety invariants. |
| `PivAccessRefinement` | TLAPS: `PivAccess` implements `AccessResolution`. |
| `PivOutcomeProofs` | TLAPS: what a command reports and what a verified import writes. |

How the model corresponds to the code:

* Options, prompts and file contents are inputs chosen with `\E`.
  * A prompted PIN is any PIN of `Pins`.
  * A prompted key is any key of `UserKeys`; a typed key that is not hex
    is the `KeyFormat` outcome.
  * A key or certificate file is a key pair of `KeyPairs`. A certificate
    is the key pair it binds.
* The password loops of keys import (lines 557-573) and certificates
  import (641-659) are modelled turn by turn. `password` is the password
  held: `--password` or none at the start. `PasswordRetry` is one failed
  parse: with no password the user is prompted for one, with one "Wrong
  password." is printed and it is dropped. The parse may also succeed at
  any turn, and the command goes on.
* An option is chosen where the code first reads it. For example,
  `--new-management-key` and `--generate` are chosen at line 392. The
  behaviours are the same as fixing them at parse time, with far fewer
  states.
* certificates generate signs with the slot's key, then writes the
  certificate and a fresh CHUID (lines 761-766). certificates request
  signs only. Both fail on an empty slot, since the token cannot sign
  (lines 767-769 and 807-808).
* `do_import`'s recursion is the variable `depth`: 1 in the first call, 2
  in the retry. `ImportCertPut` at depth 2 returns into the first call,
  which writes again.
* Object IDs are what `click_parse_piv_object` yields: CHUID, CCC, PRINTED
  and an ID the token refuses. Object contents are abstracted to presence,
  except PRINTED, which holds a management key or nothing.
* Strings, byte encodings and PBKDF2 are model values:
  `Derive(p, s) == <<p, s>>` is injective, as the real derivation is
  assumed to be.

## Properties and runs

| Run (cfg) | Expect | Properties | What it shows |
|---|---|---|---|
| `resolver` (`MC_resolver.cfg`) | pass | `TypeOK`, `ResolvedProtectedAccess`, `AtMostOneRejectedSubmission`, `ReportedAttemptsMatchToken`, `ResolutionRefined`, `CommandCompletes` | Any sequence of the nine access commands, from every initial protection mode. |
| `key_recovery` (`MC_key_recovery.cfg`) | pass | `ProtectedKeyRecoverable` | The access commands other than unblock-pin and set-retries keep the protection mode usable. |
| `data` (`MC_data.cfg`) | pass | `VerifiedImportMatchesKey`, `AtMostOneRejectedSubmission`, `ResolutionRefined`, `CommandCompletes` | The keys, certificates and objects commands, with keys generate to fill the slot, on two key pairs. |
| `import_twice` | violation | `ImportWritesOnce` | After the PIN retry of `do_import`, the first call writes the certificate and a new CHUID again (lines 682, 686-687). |
| `export_unbound` | violation | `ExportFailureReported` | certificates export logs a read error other than FILE_NOT_FOUND and then reads the unbound `cert` (lines 713-715). |
| `pin_error_wrap` | violation | `PinFailureMeansPinRejected` | A refused touch of a stored key is reported as a PIN failure (line 1022); design 4.3 step 4 says it propagates. Run on the key-keeping commands, so the trace is the touch case. |
| `pin_change_key` | violation | `ProtectedKeyRecoverable` | unblock-pin (line 464) and set-retries (line 234) change the PIN and strand a PIN-derived key. |
| `pin_last` | violation | `PinLastBeforePinOp` | On an unprotected token (no PIN-protected key), set-retries with the PIN and no `-m` verifies the PIN and then authenticates the management key (line 992), so the key, not the PIN, is the last authentication before `set_pin_attempts`; design 1(e) wants the PIN last. |

What the properties say:

* `ResolvedProtectedAccess`: on a protected token without `-m`, a caller
  resumes after `_ensure_authenticated` only with PIN and key authenticated
  and the PIN last. This is what the re-verify (lines 1008, 1013) is for.
* `AtMostOneRejectedSubmission`: no command spends more than one PIN or PUK
  attempt. In the `data` run this covers the two PIN retries.
* `ReportedAttemptsMatchToken`: "tries left" and "blocked" agree with the
  counter at the end of the command (lines 1016-1021, 278-287, 323-330).
* `ProtectedKeyRecoverable`:
  * a derived key equals `Derive(pin, salt)`;
  * a stored key equals the management key;
  * the two modes exclude each other.

  It also covers the old stored key that change-management-key cannot
  clear without the PIN (line 400): the stale object stays harmless only
  because the stored flag is dropped with it.
* `VerifiedImportMatchesKey`: certificates import `--verify` writes only a
  certificate of the slot's key pair, the retry included.
* `ResolutionRefined` is `AR!Spec`: `PivAccess` implements
  `AccessResolution` under the refinement mapping `AR` (see below).
* `CommandCompletes`: every command that starts ends, except keys import
  and certificates import. Those two wait in their password loop until
  the user types a password the file opens. No fairness of the code ends
  that loop: a file that no password opens keeps them there for ever
  (hazard at line 555). `CommandCompletes` is the property that catches a
  retry loop in `_authenticate` or in `do_read_object`.

An explicit `-m` on a protected token authenticates the key alone, even
when the caller requires both factors. The design allows this: an explicit
key bypasses the PIN (sections 4.2 and 8). No property states otherwise.

Every property of a passing run has a mutant in `PROJECT.json`. Each mutant
is a plausible bug that TLC catches:

* a counter not floored at zero;
* `_verify_pin` without the final re-verify;
* a re-prompt after a rejected PIN;
* `>= 0` in the attempts test;
* `_authenticate` that logs a wrong key and returns;
* a re-prompt loop in `_authenticate`;
* a salt kept by `pivman_set_mgm_key`;
* the `do_import` retry writing without checking the key again;
* `do_read_object` reading again before verifying the PIN.

Bounds:

* Two valid PINs and a short one exercise wrong PINs, the length check and
  re-derivation to a different key.
* Two retries reach both "tries left" and "blocked".
* One salt and one random key are enough to tell a derived key, a stored
  key and the default key apart. A larger salt set only renames keys.
* In the `data` run, two key pairs give both a certificate of the slot's
  key and one of another key. Every object kind is covered: a standard
  object, the PIN-protected one and a refused ID.
* The `do_import` retry nests at most once (`depth` is 1 or 2), as in the
  code.

Fairness: `WF_vars(Step)` and nothing on `Start`.

* A command's steps are synchronous calls and answered prompts, so a
  started command keeps running. Weak fairness lets the password loop
  run for ever, which is why `CommandCompletes` leaves out the two
  commands that have one.
* Starting another command is up to the user.

Deadlock is checked: an idle CLI can always start a command.

## Proofs (all checked by `tlapm`)

The proofs hold for every value of the constants, under the constant
assumptions `TokenAssumptions`, `NoKeyAssumption` and `CommandsAssumption`.

`PivAccessProofs`:

* `TypeCorrect`: `Spec => []TypeOK`. It rests on:
  * `InitTypeOK`;
  * `NextTypeOK`, with one step per action;
  * lemmas about `Finish`, `Goto`, `ImportGoto`, `Decrement`, a rejected
    PIN or PUK, and an unchanged token. They keep each leaf small.
* `RejectionBound`: `Spec => []AtMostOneRejectedSubmission`.
  * `fails <= 1` is not inductive by itself.
  * The strengthening `RejectionInv` adds that no rejection is pending
    while a command runs (`pc # "idle" => fails = 0`).
  * This is inductive because every step that counts a rejection also
    finishes the command, and `Start` clears the count.
* `ProtectedAccessResolved`: `Spec => []ResolvedProtectedAccess`.
  * The strengthening `ResolveInv` adds that a command resolving through
    the PIN of a protected token (`ThroughPin`) is never at `"auth"`, and
    never has `"auth"` as the return point of `_verify_pin`.
  * Hence the only way back to the caller is `ProtectedKeyAuth`, which
    sets PIN, key and `lastAuth = "pin"` together.
* `KeyRecoverable`: `Spec => []ProtectedKeyRecoverable`, under the
  hypothesis that `Commands` contains none of `UnmanagedCmds`
  (unblock-pin, set-retries, objects import).
  * The strengthening `KeyInv` adds that no such command is under way, and
    that `_verify_pin` cannot return into one.
  * The argument has three cases:
    * `pivman_change_pin` re-derives the key because the invariant makes
      the old-PIN derivation match;
    * `pivman_set_mgm_key` drops the salt and stores the new key;
    * reset restores factory settings.
  * The `pin_change_key` run shows that the hypothesis is needed.
    objects import is left out because it writes PRINTED with whatever
    the file holds.

`PivAccessRefinement`:

* `Refinement`: `Spec => ResolutionRefined`, the refinement of
  `AccessResolution`. The mapping `AR` is defined in `PivAccess`:
  * `ResolutionPhase`: a command that calls `_ensure_authenticated` is
    "resolving" while it is at the helpers' labels and `_verify_pin`
    returns into them or to the caller's next step. It is "resolved"
    afterwards, until it ends. Every other state is "idle".
  * The granted factors are the session's `pinOk` and `mgmOk`.
* The proof has the three usual parts: `Init => AR!Init`, the inductive
  invariant `RefineInv`, and `StepRefines`: under `RefineInv` every step
  is an `AR!Next` step or leaves the abstract state unchanged.
* `RefineInv` strengthens `TypeOK` with how `pc` and `vret` are related:
  * `"ensure"` and `"verify"` are never return points;
  * while resolving on a protected token, `_verify_pin` returns only to
    the caller;
  * while resolving on an unprotected token it returns only to `"auth"`,
    and the PIN is verified at `"auth"` when both factors are required.

  Without it, a step from `"verify"` could not be placed: it may be the
  one `Resolve`, or a `Gain` of a resolved command.
* Lemmas:
  * `IdleStutter`, `ResolvingStutter` and `MoveRefines` classify the
    steps that do not change the phase;
  * `ResolveStep` shows that the return to the caller is `AR!Resolve`;
  * `FinishRefines` shows that ending a command is `AR!End` or a stutter.

`PivOutcomeProofs`:

* `AttemptsReported`: `Spec => []ReportedAttemptsMatchToken`.
  * The invariant is not inductive: a state at `"idle"` reporting
    "PinFailed" with no tries left, or a running command with a stale
    report, would not be excluded.
  * The strengthening `AttemptsInv` adds that a command under way has
    reported nothing (`pc # "idle" => outcome = "none"`). The outcome is
    then set only by the step that ends a command.
  * `StepOutcome` classifies every step. It either keeps the outcome, or
    ends with an outcome that is not about attempts, or reports the
    counter it leaves: `AttemptsOutcome(pinTries')` in `_verify_pin` and
    change-pin, `PukOutcome(pukTries')` in change-puk.
    `ReportsOfCounter` does the arithmetic at zero.
* `ImportMatchesKey`: `Spec => []VerifiedImportMatchesKey`.
  * The strengthening `ImportInv` adds that `_verify_pin` never returns
    to `"ci_put"`. So the write step is entered only from the key check
    (`ImportCertCheck`, whose guard compares the certificate with the
    slot's key) or from the write of the retry, which keeps both.
Each strengthening was checked by TLC as an invariant before it was
proved: `AttemptsInv` and `ImportInv` on the `resolver`, `data` and
`key_recovery` instances.

Only model-checked:

* `CommandCompletes`, which is liveness under fairness: TLAPS does not
  handle liveness or ENABLED.
* `ProtectedKeyRecoverable` on the `key_recovery` run. There, the
  theorem's hypothesis holds: its commands leave out unblock-pin,
  set-retries and objects import.
* The five violations: each is a counterexample, not a theorem.

## Not modelled

* `info` (lines 170-176) formats the token's state and changes nothing.
* The click parsers (lines 80-134) are pure conversions, abstracted to
  model values.
* More than one key slot: each command acts on one slot, and slots do not
  interact.
* The NEO touch check (line 396): the token is assumed to be version 4 or
  later.
* The device calls inside `pivman_set_mgm_key` and `pivman_change_pin`
  are one atomic step each, so a failure between them is not explored.
  Those helpers are outside `src/`, and the design does not say in which
  order they write.
