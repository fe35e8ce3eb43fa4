------------------------------ MODULE PivAccess ------------------------------
(***************************************************************************)
(* The access-resolution engine of ykman's PIV CLI (src/ykman/cli/piv.py) *)
(* and the commands built on it, run one after another against one token. *)
(*                                                                         *)
(* A command is one run of the CLI: the piv group callback opens a         *)
(* session and caches the pivman data (Start), then the command's steps    *)
(* run in order, each a labelled action; pc is the label about to run.    *)
(* The helpers _ensure_authenticated, _verify_pin and _authenticate are    *)
(* the labels "ensure", "verify" and "auth"; _verify_pin returns to vret.  *)
(* ctx.fail, click.Abort and an uncaught exception end the command with    *)
(* an outcome and pc = "idle".                                             *)
(***************************************************************************)
EXTENDS PivToken

CONSTANT Commands   \* the commands the users of a run may invoke

AccessCommands == {"generate_key", "set_retries", "change_pin",
                   "change_puk", "unblock_pin", "change_mgm_key",
                   "generate_cert", "request_cert", "reset"}
DataCommands == {"import_key", "attest", "import_cert", "export_cert",
                 "delete_cert", "read_object", "write_object",
                 "generate_object"}
AllCommands == AccessCommands \cup DataCommands

ASSUME CommandsAssumption == Commands \subseteq AllCommands

VARIABLES
    cmd,          \* the command being run
    pc,           \* the next step of the command
    vret,         \* where _verify_pin returns to
    cache,        \* ctx.obj["pivman_data"], read at session start
    argPin,       \* the -P/--pin option
    argKey,       \* the -m/--management-key option
    force,        \* -f/--force, passed on as no_prompt
    protect,      \* change-management-key --protect
    newKey,       \* change-management-key --new-management-key
    generate,     \* change-management-key --generate
    objectId,     \* the OBJECT argument of the objects commands
    material,     \* the key pair of the certificate or key file imported
    verifyOpt,    \* certificates import --verify
    depth,        \* nesting of do_import: 2 inside its retry
    password,     \* --password of keys and certificates import, or prompted
    pinVerified,  \* pin_verified of _ensure_authenticated
    fails,        \* PIN/PUK submissions the token rejected in this command
    outcome       \* how the last command ended

Labels == {"idle", "ensure", "verify", "auth", "gk_op", "sr_set",
           "cmk_check", "cmk_new", "gc_sign", "csr_sign", "change_pin",
           "change_puk", "unblock_pin", "reset", "ik_put", "at_op",
           "ci_parse", "ci_import", "ci_put", "ce_get", "cd_op", "ro_get",
           "wo_put", "go_put"}

Outcomes == {"none", "ok", "Aborted", "Failed", "DeviceError",
             "PinRequired", "PinFailed", "PinBlocked", "PinVerifyError",
             "MgmKeyRequired", "KeyFormat", "MgmAuthFailed", "PukFailed",
             "PukBlocked", "UnboundLocal"}

(* What click_parse_piv_object yields: CHUID, CAPABILITY (CCC), PRINTED    *)
(* (the PIN-protected object) and an ID the token refuses.                 *)
ObjectIds == DataObjects \cup {"printed", "bad"}
NoObject == "none"

(* Commands that call _ensure_authenticated, and the step each resumes at. *)
EnsureCmds == {"generate_key", "set_retries", "change_mgm_key",
               "generate_cert", "import_key", "import_cert", "delete_cert",
               "write_object", "generate_object"}
AfterEnsure(c) ==
    CASE c = "generate_key"    -> "gk_op"
      [] c = "set_retries"     -> "sr_set"
      [] c = "change_mgm_key"  -> "cmk_check"
      [] c = "import_key"      -> "ik_put"
      [] c = "import_cert"     -> "ci_parse"
      [] c = "delete_cert"     -> "cd_op"
      [] c = "write_object"    -> "wo_put"
      [] c = "generate_object" -> "go_put"
      [] OTHER                 -> "gc_sign"

(* Where a command starts after the group callback.                        *)
FirstStep(c) ==
    CASE c \in EnsureCmds    -> "ensure"
      [] c = "request_cert"  -> "verify"
      [] c = "attest"        -> "at_op"
      [] c = "export_cert"   -> "ce_get"
      [] c = "read_object"   -> "ro_get"
      [] OTHER               -> c

(* The options each command declares; one it lacks keeps its default.     *)
PinOptCmds == EnsureCmds \cup {"request_cert", "read_object"}
ObjectCmds == {"read_object", "write_object", "generate_object"}
ForceCmds == {"set_retries", "change_mgm_key"}
PasswordCmds == {"import_key", "import_cert"}

(* password: none held, or one given by --password or at the prompt.      *)
PasswordStates == {"none", "given"}

(* require_pin_and_key as the callers pass it (lines 222, 387, 752).       *)
RequirePinAndKey == cmd \in {"set_retries", "generate_cert"} \/ protect

(* _valid_pin_length: 6 <= len(pin) <= 8.                                  *)
ValidPinLength(p) == p \in ValidPins

(* The PIN _verify_pin submits: the option, else what _prompt_pin returns. *)
EnteredPins(p) == IF p = NoPin THEN Pins ELSE {p}

(* The key _authenticate submits: the option, else what                    *)
(* _prompt_management_key returns (blank: the default key).               *)
EnteredKeys(k) == IF k = NoKey THEN UserKeys ELSE {k}

(* The outcome ctx.fail reports for an InvalidPinError of a PIN; the      *)
(* variant tests the count the wrong way round at zero.                    *)
AttemptsOutcomeNonNeg(attempts) ==
    IF attempts >= 0 THEN "PinFailed" ELSE "PinBlocked"
AttemptsOutcome(attempts) == IF attempts > 0 THEN "PinFailed" ELSE "PinBlocked"

(* The options and locals of the running command, as the process holds  *)
(* them; they go when it exits.                                           *)
optVars == <<cache, argPin, argKey, force, protect, newKey, generate>>
dataVars == <<objectId, material, verifyOpt, depth, password>>
vars == <<tokenVars, statusVars, optVars, dataVars, cmd, pc, vret,
          pinVerified, fails, outcome>>

(* ctx.fail, click.Abort, an uncaught exception or the end of the command: *)
(* the process exits and its connection to the token closes.              *)
Finish(o) ==
    /\ pc' = "idle" /\ outcome' = o /\ cmd' = "none"
    /\ cache' = DefaultPivman /\ argPin' = NoPin /\ argKey' = NoKey
    /\ force' = FALSE /\ protect' = FALSE /\ newKey' = NoKey
    /\ generate' = FALSE /\ objectId' = NoObject /\ material' = NoKeyPair
    /\ verifyOpt' = FALSE /\ depth' = 0 /\ password' = "none"
    /\ vret' = "idle" /\ pinVerified' = FALSE
    /\ pinOk' = FALSE /\ mgmOk' = FALSE /\ lastAuth' = "none"

(* The command goes on at step l; vret and pinVerified are left to it.    *)
Goto(l) == pc' = l /\ UNCHANGED <<outcome, cmd, optVars, dataVars>>

(* Goto for the steps of certificates import, which set its locals.       *)
ImportGoto(l, m, d) ==
    /\ pc' = l /\ material' = m /\ depth' = d
    /\ UNCHANGED <<outcome, cmd, optVars, objectId, verifyOpt, password>>

(* The token refuses a PIN or a PUK and counts the attempt.                *)
PinRejected(p) ==
    /\ pinTries = 0 \/ p # pin
    /\ pinTries' = Decrement(pinTries)
    /\ fails' = fails + 1
PukRejected(u) ==
    /\ pukTries = 0 \/ u # puk
    /\ pukTries' = Decrement(pukTries)
    /\ fails' = fails + 1

Init ==
    /\ TokenInit
    /\ cmd = "none" /\ pc = "idle" /\ vret = "idle"
    /\ cache = DefaultPivman
    /\ argPin = NoPin /\ argKey = NoKey /\ force = FALSE
    /\ protect = FALSE /\ newKey = NoKey /\ generate = FALSE
    /\ objectId = NoObject /\ material = NoKeyPair /\ verifyOpt = FALSE
    /\ depth = 0 /\ password = "none"
    /\ pinVerified = FALSE /\ fails = 0 /\ outcome = "none"

(* The piv group callback: open a session, cache the pivman data; the     *)
(* command's options are parsed.  Options of change-management-key that   *)
(* _ensure_authenticated does not read are chosen where they are first    *)
(* read.                                                                   *)
Start(c) ==
    /\ pc = "idle"
    /\ cmd' = c
    /\ cache' = pivman
    /\ SessionOpen
    /\ pc' = FirstStep(c)
    /\ vret' = IF c = "request_cert" THEN "csr_sign" ELSE "idle"
    /\ argPin' \in IF c \in PinOptCmds THEN {NoPin} \cup Pins ELSE {NoPin}
    /\ argKey' \in IF c \in EnsureCmds THEN {NoKey} \cup UserKeys ELSE {NoKey}
    /\ force' \in IF c \in ForceCmds THEN BOOLEAN ELSE {FALSE}
    /\ protect' \in IF c = "change_mgm_key" THEN BOOLEAN ELSE {FALSE}
    /\ newKey' = NoKey /\ generate' = FALSE
    /\ objectId' \in IF c \in ObjectCmds THEN ObjectIds ELSE {NoObject}
    /\ verifyOpt' \in IF c = "import_cert" THEN BOOLEAN ELSE {FALSE}
    /\ material' = NoKeyPair /\ depth' = 0
    /\ password' \in IF c \in PasswordCmds THEN PasswordStates ELSE {"none"}
    /\ pinVerified' = FALSE /\ fails' = 0 /\ outcome' = "none"
    /\ UNCHANGED tokenVars

(* _ensure_authenticated: PIN (which brings a protected key along) unless *)
(* a key was given, or the management key, preceded by the PIN when the   *)
(* caller requires both.                                                  *)
EnsureAuthenticated ==
    /\ pc = "ensure"
    /\ IF HasProtectedKey(cache)
         THEN /\ Goto(IF argKey = NoKey THEN "verify" ELSE "auth")
              /\ vret' = AfterEnsure(cmd)
         ELSE /\ Goto(IF RequirePinAndKey THEN "verify" ELSE "auth")
              /\ vret' = "auth"
    /\ UNCHANGED <<tokenVars, statusVars, pinVerified, fails>>

(* The InvalidPinError branch of _verify_pin: the token counts the        *)
(* attempt and ctx.fail reports what is left.                             *)
PinFailureReprompt(p) ==
    /\ PinRejected(p)
    /\ Goto("verify")
    /\ UNCHANGED <<vret, pinVerified, statusVars>>
PinFailure(p) ==
    /\ PinRejected(p)
    /\ Finish(AttemptsOutcome(Decrement(pinTries)))

(* The derived or stored branch of _verify_pin after the PIN was accepted: *)
(* authenticate with the key derived from the PIN and the salt, or read   *)
(* from the protected object, under PromptTimeout, then verify the PIN    *)
(* again.  A wrong key or an unanswered touch is "PIN verification        *)
(* failed."                                                                *)
ProtectedKeyAuthNoReverify(p) ==
    \E touched \in TouchAnswers :
      LET key == IF HasDerivedKey(cache) THEN Derive(p, cache.salt)
                                         ELSE protKey
      IN  IF key = mgmKey /\ touched
            THEN /\ pinVerified' = TRUE /\ Goto(vret)
                 /\ pinOk' = TRUE /\ mgmOk' = TRUE /\ lastAuth' = "mgm"
                 /\ UNCHANGED vret
            ELSE Finish("PinVerifyError")
ProtectedKeyAuth(p) ==
    \E touched \in TouchAnswers :
      LET key == IF HasDerivedKey(cache) THEN Derive(p, cache.salt)
                                         ELSE protKey
      IN  IF key = mgmKey /\ touched
            THEN /\ pinVerified' = TRUE /\ Goto(vret)
                 /\ pinOk' = TRUE /\ mgmOk' = TRUE /\ lastAuth' = "pin"
                 /\ UNCHANGED vret
            ELSE Finish("PinVerifyError")

(* _verify_pin once the token accepted the PIN: done for an unprotected   *)
(* token, else go on to ProtectedKeyAuth.                                  *)
PinAccepted(p) ==
    /\ pinTries > 0 /\ p = pin
    /\ pinTries' = pinRetries
    /\ UNCHANGED fails
    /\ \/ /\ ~HasProtectedKey(cache)
          /\ pinVerified' = TRUE /\ Goto(vret)
          /\ pinOk' = TRUE /\ lastAuth' = "pin"
          /\ UNCHANGED <<mgmOk, vret>>
       \/ /\ HasProtectedKey(cache)
          /\ ProtectedKeyAuth(p)

(* _verify_pin: the PIN given, else prompted for (none under no_prompt);  *)
(* verify it.                                                              *)
VerifyPin ==
    /\ pc = "verify"
    /\ \/ /\ argPin = NoPin /\ force
          /\ Finish("PinRequired")
          /\ UNCHANGED <<tokenVars, fails>>
       \/ /\ ~(argPin = NoPin /\ force)
          /\ \E p \in EnteredPins(argPin) : PinFailure(p) \/ PinAccepted(p)
          /\ UNCHANGED <<credVars, pukTries>>

(* _authenticate that prompts again after a failed authentication.        *)
AuthenticateRetry ==
    /\ pc = "auth"
    /\ \/ /\ argKey = NoKey /\ force
          /\ Finish("MgmKeyRequired")
       \/ /\ argKey = NoKey /\ ~force
          /\ Finish("KeyFormat")
       \/ /\ ~(argKey = NoKey /\ force)
          /\ \E k \in EnteredKeys(argKey), touched \in TouchAnswers :
               /\ mgmOk' = (k = mgmKey /\ touched)
               /\ lastAuth' = IF k = mgmKey /\ touched THEN "mgm" ELSE lastAuth
               /\ Goto(IF k = mgmKey /\ touched THEN AfterEnsure(cmd) ELSE "auth")
          /\ UNCHANGED <<pinOk, vret, pinVerified>>
    /\ UNCHANGED <<tokenVars, fails>>

(* _authenticate that logs a failed authentication and goes on.           *)
AuthenticateLogOnly ==
    /\ pc = "auth"
    /\ \/ /\ argKey = NoKey /\ force
          /\ Finish("MgmKeyRequired")
       \/ /\ argKey = NoKey /\ ~force
          /\ Finish("KeyFormat")
       \/ /\ ~(argKey = NoKey /\ force)
          /\ \E k \in EnteredKeys(argKey), touched \in TouchAnswers :
               /\ mgmOk' = (k = mgmKey /\ touched)
               /\ lastAuth' = IF k = mgmKey /\ touched THEN "mgm" ELSE lastAuth
          /\ Goto(AfterEnsure(cmd))
          /\ UNCHANGED <<pinOk, vret, pinVerified>>
    /\ UNCHANGED <<tokenVars, fails>>

(* _authenticate: the management key given, else prompted for (none under *)
(* no_prompt; a typed key that is not hex fails), then                     *)
(* PivSession.authenticate under PromptTimeout.  A wrong key or an         *)
(* unanswered touch is logged and fails the command.                       *)
Authenticate ==
    /\ pc = "auth"
    /\ \/ /\ argKey = NoKey /\ force
          /\ Finish("MgmKeyRequired")
       \/ /\ argKey = NoKey /\ ~force
          /\ Finish("KeyFormat")
       \/ /\ ~(argKey = NoKey /\ force)
          /\ \E k \in EnteredKeys(argKey), touched \in TouchAnswers :
               \/ /\ k = mgmKey /\ touched
                  /\ mgmOk' = TRUE /\ lastAuth' = "mgm"
                  /\ Goto(AfterEnsure(cmd))
                  /\ UNCHANGED <<pinOk, vret, pinVerified>>
               \/ /\ ~(k = mgmKey /\ touched)
                  /\ Finish("MgmAuthFailed")
    /\ UNCHANGED <<tokenVars, fails>>

(* keys generate: PivSession.generate_key puts a new key pair in the slot *)
(* (it needs the management key, which _ensure_authenticated left         *)
(* authenticated); an algorithm or policy the token lacks is a            *)
(* NotSupportedError.                                                      *)
GenerateKey ==
    /\ pc = "gk_op" /\ mgmOk
    /\ \/ /\ Finish("Failed")
          /\ UNCHANGED tokenVars
       \/ /\ \E kp \in KeyPairs : slotKey' = kp
          /\ slotGenerated' = TRUE
          /\ Finish("ok")
          /\ UNCHANGED <<pin, puk, pinTries, pukTries, pinRetries, pukRetries,
                         mgmKey, touchReq, pivman, protKey, slotCert, objs>>
    /\ UNCHANGED fails

(* One more turn of the password loop of keys import and certificates     *)
(* import: the file does not parse with the password held.  Without one   *)
(* the user is prompted for one; with one, "Wrong password." and it is     *)
(* dropped.  The loop ends only when the file parses.                      *)
PasswordRetry ==
    /\ password' = IF password = "none" THEN "given" ELSE "none"
    /\ UNCHANGED <<pc, outcome, cmd, optVars, objectId, material, verifyOpt,
                   depth, vret, pinVerified, tokenVars, statusVars, fails>>

(* keys import: the key file is read and parsed, in the password loop,    *)
(* then put_key; NotSupportedError as above.                               *)
ImportKey ==
    /\ pc = "ik_put" /\ mgmOk
    /\ \/ PasswordRetry
       \/ /\ Finish("Failed")
          /\ UNCHANGED tokenVars
       \/ /\ \E kp \in KeyPairs : slotKey' = kp
          /\ slotGenerated' = FALSE
          /\ Finish("ok")
          /\ UNCHANGED <<pin, puk, pinTries, pukTries, pinRetries, pukRetries,
                         mgmKey, touchReq, pivman, protKey, slotCert, objs>>
    /\ UNCHANGED fails

(* keys attest: attest_key works only on a key generated on the token; an *)
(* ApduError is "Attestation failed.".                                     *)
Attest ==
    /\ pc = "at_op"
    /\ Finish(IF slotKey # NoKeyPair /\ slotGenerated THEN "ok" ELSE "Failed")
    /\ UNCHANGED <<tokenVars, fails>>

(* certificates import, after _ensure_authenticated: read and parse the   *)
(* file in the password loop (of a chain the leaf is taken), then          *)
(* do_import(retry=True).                                                  *)
ImportCertParse ==
    /\ pc = "ci_parse"
    /\ \/ PasswordRetry
       \/ \E kp \in KeyPairs : ImportGoto("ci_import", kp, 1)
    /\ UNCHANGED <<tokenVars, statusVars, vret, pinVerified, fails>>

(* do_import with --verify: check_key signs with the slot's key under     *)
(* PromptTimeout, which needs the PIN.  SECURITY_CONDITION_NOT_SATISFIED  *)
(* on the first call verifies the PIN and calls do_import(retry=False);   *)
(* any other ApduError (the slot is empty; the status again in the        *)
(* retry) is raised.  A certificate not of the slot's key fails.           *)
ImportCertCheckThen(again) ==
    /\ pc = "ci_import"
    /\ \/ /\ ~verifyOpt \/ (pinOk /\ material = slotKey)
          /\ Goto("ci_put") /\ UNCHANGED <<vret, pinVerified, statusVars>>
       \/ /\ verifyOpt /\ (slotKey = NoKeyPair \/ (~pinOk /\ depth = 2))
          /\ Finish("DeviceError")
       \/ /\ verifyOpt /\ slotKey # NoKeyPair /\ pinOk /\ material # slotKey
          /\ Finish("Failed")
       \/ /\ verifyOpt /\ slotKey # NoKeyPair /\ ~pinOk /\ depth = 1
          /\ ImportGoto("verify", material, 2) /\ vret' = again
          /\ UNCHANGED <<pinVerified, statusVars>>
    /\ UNCHANGED <<tokenVars, fails>>
(* The retry writing without checking the key again.                       *)
ImportCertCheckNoRecheck == ImportCertCheckThen("ci_put")
ImportCertCheck == ImportCertCheckThen("ci_import")

(* The end of do_import: put_certificate and a fresh CHUID.  The call     *)
(* do_import(retry=False) returns into the first call, which goes on to   *)
(* these two writes again.                                                 *)
ImportCertPut ==
    /\ pc = "ci_put" /\ mgmOk
    /\ slotCert' = material /\ objs' = objs \cup {"chuid"}
    /\ \/ /\ depth = 2
          /\ ImportGoto("ci_put", material, 1)
          /\ UNCHANGED <<vret, pinVerified, statusVars>>
       \/ /\ depth = 1
          /\ Finish("ok")
    /\ UNCHANGED <<pin, puk, pinTries, pukTries, pinRetries, pukRetries,
                   mgmKey, touchReq, pivman, protKey, slotKey, slotGenerated,
                   fails>>

(* certificates export: get_certificate; FILE_NOT_FOUND is "No certificate *)
(* found.", any other ApduError is logged and the command goes on to      *)
(* write cert, which was never bound.                                      *)
ExportCertificate ==
    /\ pc = "ce_get"
    /\ \/ Finish(IF slotCert = NoKeyPair THEN "Failed" ELSE "ok")
       \/ Finish("UnboundLocal")
    /\ UNCHANGED <<tokenVars, fails>>

(* certificates delete: delete_certificate and a fresh CHUID.              *)
DeleteCertificate ==
    /\ pc = "cd_op" /\ mgmOk
    /\ slotCert' = NoKeyPair /\ objs' = objs \cup {"chuid"}
    /\ Finish("ok")
    /\ UNCHANGED <<pin, puk, pinTries, pukTries, pinRetries, pukRetries,
                   mgmKey, touchReq, pivman, protKey, slotKey, slotGenerated,
                   fails>>

(* Whether get_object finds the object; a cleared PIN-protected record    *)
(* counts as absent.                                                       *)
ObjectPresent(o) == IF o = "printed" THEN protKey # NoKey ELSE o \in objs

(* objects export, do_read_object: get_object; FILE_NOT_FOUND is "No data *)
(* found."; SECURITY_CONDITION_NOT_SATISFIED (the PIN-protected object)   *)
(* verifies the PIN (step l) and calls do_read_object again, whatever its *)
(* retry flag.                                                             *)
ReadObjectVia(l) ==
    /\ pc = "ro_get"
    /\ \/ /\ objectId = "printed" /\ ~pinOk
          /\ Goto(l) /\ vret' = "ro_get"
          /\ UNCHANGED <<pinVerified, statusVars>>
       \/ /\ objectId # "printed" \/ pinOk
          /\ Finish(IF ObjectPresent(objectId) THEN "ok" ELSE "Failed")
    /\ UNCHANGED <<tokenVars, fails>>
(* The order swapped: the retry reads again before verifying the PIN.      *)
ReadObjectRetryFirst == ReadObjectVia("ro_get")
ReadObject == ReadObjectVia("verify")

(* objects import: put_object with the file's data.  INCORRECT_PARAMETERS *)
(* (an ID the token refuses) fails.  The data of the PIN-protected object *)
(* is whatever the file holds: a key record, or none.                      *)
WriteObject ==
    /\ pc = "wo_put" /\ mgmOk
    /\ \/ /\ objectId = "bad"
          /\ Finish("Failed") /\ UNCHANGED tokenVars
       \/ /\ objectId \in DataObjects
          /\ objs' = objs \cup {objectId} /\ Finish("ok")
          /\ UNCHANGED <<pin, puk, pinTries, pukTries, pinRetries, pukRetries,
                         mgmKey, touchReq, pivman, protKey, slotKey,
                         slotGenerated, slotCert>>
       \/ /\ objectId = "printed"
          /\ \E k \in {NoKey} \cup UserKeys : protKey' = k
          /\ Finish("ok")
          /\ UNCHANGED <<pin, puk, pinTries, pukTries, pinRetries, pukRetries,
                         mgmKey, touchReq, pivman, slotVars>>
    /\ UNCHANGED fails

(* objects generate: a fresh CHUID or CCC; any other ID fails.  The ID is  *)
(* checked after _ensure_authenticated.                                    *)
GenerateObject ==
    /\ pc = "go_put" /\ mgmOk
    /\ \/ /\ objectId \in DataObjects
          /\ objs' = objs \cup {objectId} /\ Finish("ok")
          /\ UNCHANGED <<pin, puk, pinTries, pukTries, pinRetries, pukRetries,
                         mgmKey, touchReq, pivman, protKey, slotKey,
                         slotGenerated, slotCert>>
       \/ /\ objectId \notin DataObjects
          /\ Finish("Failed") /\ UNCHANGED tokenVars
    /\ UNCHANGED fails

(* access set-retries: confirm, then set_pin_attempts, which needs PIN and *)
(* management key and resets PIN and PUK to their defaults.               *)
SetPinRetries ==
    /\ pc = "sr_set"
    /\ \/ /\ ~force
          /\ Finish("Aborted")
          /\ UNCHANGED tokenVars
       \/ /\ ~(pinOk /\ mgmOk)
          /\ Finish("Failed")
          /\ UNCHANGED tokenVars
       \/ /\ pinOk /\ mgmOk
          /\ \E np, nk \in 1..MaxTries :
               /\ pinRetries' = np /\ pinTries' = np
               /\ pukRetries' = nk /\ pukTries' = nk
          /\ pin' = DefaultPin /\ puk' = DefaultPuk
          /\ Finish("ok")
          /\ UNCHANGED <<mgmKey, touchReq, pivman, protKey, slotVars>>
    /\ UNCHANGED fails

(* ykman.piv.pivman_change_pin (outside src/, after the design's data     *)
(* model): change the PIN; a PIN-derived management key is re-derived from *)
(* the new PIN and a fresh salt, after authenticating with the old one.   *)
PivmanChangePin(old, new) ==
    /\ pin' = new /\ pinTries' = pinRetries
    /\ IF HasDerivedKey(pivman) /\ Derive(old, pivman.salt) = mgmKey
         THEN \E s \in Salts :
                /\ mgmKey' = Derive(new, s)
                /\ pivman' = [pivman EXCEPT !.salt = s]
                /\ Finish("ok")
         ELSE /\ UNCHANGED <<mgmKey, pivman>>
              /\ Finish(IF HasDerivedKey(pivman) THEN "DeviceError" ELSE "ok")
    /\ UNCHANGED <<puk, pukTries, pinRetries, pukRetries, touchReq, protKey,
                   slotVars>>

(* access change-pin: PIN and new PIN from the options or prompts, length *)
(* checks, pivman_change_pin, and InvalidPinError reported by attempts.   *)
ChangePin ==
    /\ pc = "change_pin"
    /\ \E old, new \in Pins :
         \/ /\ ~(ValidPinLength(old) /\ ValidPinLength(new))
            /\ Finish("Failed")
            /\ UNCHANGED <<tokenVars, fails>>
         \/ /\ ValidPinLength(old) /\ ValidPinLength(new)
            /\ PinRejected(old)
            /\ Finish(AttemptsOutcome(Decrement(pinTries)))
            /\ UNCHANGED <<credVars, pukTries>>
         \/ /\ ValidPinLength(old) /\ ValidPinLength(new)
            /\ pinTries > 0 /\ old = pin
            /\ PivmanChangePin(old, new)
            /\ UNCHANGED fails

(* access change-puk: as change-pin, for the PUK (all PUKs of the model  *)
(* have a valid length).                                                   *)
ChangePuk ==
    /\ pc = "change_puk"
    /\ \E old, new \in Puks :
         \/ /\ PukRejected(old)
            /\ Finish(IF Decrement(pukTries) > 0 THEN "PukFailed"
                                                 ELSE "PukBlocked")
            /\ UNCHANGED puk
         \/ /\ pukTries > 0 /\ old = puk
            /\ puk' = new /\ pukTries' = pukRetries
            /\ Finish("ok")
            /\ UNCHANGED fails
    /\ UNCHANGED <<pin, pinTries, pinRetries, pukRetries, mgmKey, touchReq,
                   pivman, protKey, slotVars>>

(* access unblock-pin: PivSession.unblock_pin with PUK and new PIN; its    *)
(* InvalidPinError is not caught.  A new PIN of the wrong length is        *)
(* refused before the PUK is checked.                                      *)
UnblockPin ==
    /\ pc = "unblock_pin"
    /\ \E u \in Puks, new \in Pins :
         \/ /\ ~ValidPinLength(new)
            /\ Finish("DeviceError")
            /\ UNCHANGED <<pin, pinTries, pukTries, fails>>
         \/ /\ ValidPinLength(new) /\ PukRejected(u)
            /\ Finish("DeviceError")
            /\ UNCHANGED <<pin, pinTries>>
         \/ /\ ValidPinLength(new) /\ pukTries > 0 /\ u = puk
            /\ pin' = new /\ pinTries' = pinRetries /\ pukTries' = pukRetries
            /\ Finish("ok")
            /\ UNCHANGED fails
    /\ UNCHANGED <<puk, pinRetries, pukRetries, mgmKey, touchReq, pivman,
                   protKey, slotVars>>

(* reset: confirmed (or --force), then PivSession.reset().                *)
Reset ==
    /\ pc = "reset"
    /\ \/ /\ Finish("Aborted")
          /\ UNCHANGED tokenVars
       \/ /\ FactoryReset
          /\ Finish("ok")
    /\ UNCHANGED fails

(* change-management-key after _ensure_authenticated: conflicting options *)
(* fail; an old stored key can only be cleared with the PIN, so the PIN   *)
(* is verified if given, else the user confirms or aborts (unless          *)
(* --force).                                                               *)
(* Goto for the step that reads --new-management-key and --generate.      *)
CmkGoto(l, nk, g) ==
    /\ pc' = l /\ newKey' = nk /\ generate' = g
    /\ UNCHANGED <<outcome, cmd, cache, argPin, argKey, force, protect,
                   dataVars>>

ChangeMgmKeyCheck ==
    /\ pc = "cmk_check"
    /\ \E nk \in {NoKey} \cup UserKeys, g \in BOOLEAN :
         LET conflict == nk # NoKey /\ g
             needPin == ~pinVerified /\ HasStoredKey(cache)
         IN \/ /\ conflict
               /\ Finish("Failed")
            \/ /\ ~conflict /\ needPin /\ argPin # NoPin
               /\ CmkGoto("verify", nk, g) /\ vret' = "cmk_new"
               /\ UNCHANGED <<pinVerified, statusVars>>
            \/ /\ ~conflict /\ needPin /\ argPin = NoPin /\ ~force
               /\ Finish("Aborted")
            \/ /\ ~conflict /\ ~(needPin /\ argPin # NoPin)
               /\ CmkGoto("cmk_new", nk, g)
               /\ UNCHANGED <<vret, pinVerified, statusVars>>
    /\ UNCHANGED <<tokenVars, fails>>

(* The new key: the option, a random one (--generate, or --protect which   *)
(* lets pivman_set_mgm_key generate it), or one typed at the prompt; none  *)
(* under --force.                                                          *)
NewKeyChoices ==
    IF newKey # NoKey THEN {newKey}
    ELSE IF protect \/ generate THEN RandomKeys
    ELSE IF force THEN {}
    ELSE UserKeys

(* pivman_set_mgm_key keeping the salt of a derived key.                   *)
PivmanSetMgmKeyKeepSalt(k) ==
    \/ /\ ~mgmOk \/ (protect /\ ~pinOk)
       /\ Finish("Failed")
       /\ UNCHANGED tokenVars
    \/ /\ mgmOk /\ (protect => pinOk)
       /\ mgmKey' = k /\ touchReq' \in BOOLEAN
       /\ pivman' = [pivman EXCEPT !.stored = protect]
       /\ protKey' = IF protect THEN k
                     ELSE IF HasStoredKey(pivman) /\ pinOk THEN NoKey
                     ELSE protKey
       /\ Finish("ok")
       /\ UNCHANGED <<pin, puk, pinTries, pukTries, pinRetries, pukRetries,
                      slotVars>>

(* ykman.piv.pivman_set_mgm_key (outside src/, after the design's data     *)
(* model): with --protect the PIN-protected object must be readable; the   *)
(* key is set, the salt dropped, the stored flag written, and the key      *)
(* stored, or an old stored key cleared when the PIN allows it.            *)
PivmanSetMgmKey(k) ==
    \/ /\ ~mgmOk \/ (protect /\ ~pinOk)
       /\ Finish("Failed")
       /\ UNCHANGED tokenVars
    \/ /\ mgmOk /\ (protect => pinOk)
       /\ mgmKey' = k /\ touchReq' \in BOOLEAN
       /\ pivman' = [salt |-> NoSalt, stored |-> protect]
       /\ protKey' = IF protect THEN k
                     ELSE IF HasStoredKey(pivman) /\ pinOk THEN NoKey
                     ELSE protKey
       /\ Finish("ok")
       /\ UNCHANGED <<pin, puk, pinTries, pukTries, pinRetries, pukRetries,
                      slotVars>>

(* change-management-key, the rest: pick the new key (--force without one *)
(* fails, a typed key that is not hex fails) and set it.                   *)
ChangeMgmKeyApply ==
    /\ pc = "cmk_new"
    /\ \/ /\ NewKeyChoices = {}
          /\ Finish("Failed")
          /\ UNCHANGED tokenVars
       \/ /\ newKey = NoKey /\ ~protect /\ ~generate /\ ~force
          /\ Finish("Failed")
          /\ UNCHANGED tokenVars
       \/ \E k \in NewKeyChoices : PivmanSetMgmKey(k)
    /\ UNCHANGED fails

(* certificates generate: sign a certificate of the file's public key     *)
(* with the slot's key (needs the PIN and a key in the slot), then         *)
(* put_certificate and a fresh CHUID (need the management key); an         *)
(* ApduError is "Certificate generation failed.".                          *)
GenerateCertificate ==
    /\ pc = "gc_sign"
    /\ \/ /\ ~(pinOk /\ mgmOk /\ slotKey # NoKeyPair)
          /\ Finish("Failed") /\ UNCHANGED tokenVars
       \/ /\ pinOk /\ mgmOk /\ slotKey # NoKeyPair
          /\ \E kp \in KeyPairs : slotCert' = kp
          /\ objs' = objs \cup {"chuid"}
          /\ Finish("ok")
          /\ UNCHANGED <<pin, puk, pinTries, pukTries, pinRetries, pukRetries,
                         mgmKey, touchReq, pivman, protKey, slotKey,
                         slotGenerated>>
    /\ UNCHANGED fails

(* certificates request: after _verify_pin, sign the CSR with the slot's  *)
(* key (needs the PIN and a key in the slot).                              *)
RequestCertificate ==
    /\ pc = "csr_sign"
    /\ Finish(IF pinOk /\ slotKey # NoKeyPair THEN "ok" ELSE "Failed")
    /\ UNCHANGED <<tokenVars, fails>>

(* The steps of the running command.                                       *)
Step ==
    \/ EnsureAuthenticated \/ VerifyPin \/ Authenticate
    \/ GenerateKey \/ SetPinRetries \/ ChangePin \/ ChangePuk \/ UnblockPin
    \/ Reset \/ ChangeMgmKeyCheck \/ ChangeMgmKeyApply
    \/ GenerateCertificate \/ RequestCertificate
    \/ ImportKey \/ Attest \/ ImportCertParse \/ ImportCertCheck
    \/ ImportCertPut \/ ExportCertificate \/ DeleteCertificate \/ ReadObject
    \/ WriteObject \/ GenerateObject

Next == (\E c \in Commands : Start(c)) \/ Step

(* A command runs to its end: its steps are synchronous calls, and a      *)
(* prompt is answered.  Starting a new command is up to the user.          *)
Spec == Init /\ [][Next]_vars /\ WF_vars(Step)

-----------------------------------------------------------------------------
(* Type invariant.                                                         *)
TypeOK ==
    /\ TokenTypeOK
    /\ cmd \in AllCommands \cup {"none"}
    /\ pc \in Labels /\ vret \in Labels
    /\ cache \in PivmanRecords
    /\ argPin \in Pins \cup {NoPin}
    /\ argKey \in UserKeys \cup {NoKey}
    /\ force \in BOOLEAN /\ protect \in BOOLEAN /\ generate \in BOOLEAN
    /\ objectId \in ObjectIds \cup {NoObject}
    /\ material \in KeyPairs \cup {NoKeyPair}
    /\ verifyOpt \in BOOLEAN /\ depth \in 0..2
    /\ password \in PasswordStates
    /\ newKey \in UserKeys \cup {NoKey}
    /\ pinVerified \in BOOLEAN
    /\ fails \in Nat
    /\ outcome \in Outcomes

-----------------------------------------------------------------------------
(* Safety properties.                                                      *)

(* On a PIN-protected token with no key given, _ensure_authenticated      *)
(* returns to its caller only with both the PIN verified and the derived  *)
(* or stored management key authenticated, and with the PIN verification *)
(* as the last authentication (the re-verify of _verify_pin, lines        *)
(* 1005-1013).                                                             *)
ResolvedProtectedAccess ==
    (/\ cmd \in EnsureCmds /\ pc = AfterEnsure(cmd)
     /\ HasProtectedKey(cache) /\ argKey = NoKey)
      => pinOk /\ mgmOk /\ lastAuth = "pin"

(* A command submits at most one PIN or PUK the token rejects: no failed  *)
(* verification is retried on the user's behalf, so no command can use   *)
(* up more than one attempt (_verify_pin, change-pin, change-puk,         *)
(* unblock-pin all fail on InvalidPinError).                               *)
AtMostOneRejectedSubmission == fails <= 1

(* The failure a finished command reports agrees with the token: "tries   *)
(* left" only while attempts remain, "blocked" only when none do          *)
(* (lines 1017-1021, 279-287, 324-330).                                    *)
ReportedAttemptsMatchToken ==
    pc = "idle" =>
      /\ outcome = "PinFailed" => pinTries > 0
      /\ outcome = "PinBlocked" => pinTries = 0
      /\ outcome = "PukFailed" => pukTries > 0
      /\ outcome = "PukBlocked" => pukTries = 0

(* The token's protection mode stays usable: a PIN-derived key is the one *)
(* derived from the current PIN and salt, a stored key is the current     *)
(* management key, so _verify_pin's derived or stored branch can          *)
(* authenticate; and the two modes exclude each other (design, section 3). *)
ProtectedKeyRecoverable ==
    /\ ~(HasDerivedKey(pivman) /\ HasStoredKey(pivman))
    /\ HasDerivedKey(pivman) => mgmKey = Derive(pin, pivman.salt)
    /\ HasStoredKey(pivman) => protKey = mgmKey

(* certificates import --verify writes only a certificate of the key pair *)
(* in the slot, on the first call of do_import and after its retry with   *)
(* the PIN (check_key, lines 669-684).                                      *)
VerifiedImportMatchesKey ==
    (cmd = "import_cert" /\ pc = "ci_put" /\ verifyOpt) => material = slotKey

(* Every command the user starts comes to an end, but for the two whose    *)
(* password loop waits until the user types a password the file opens     *)
(* with: no prompt, retry or PIN re-verify of the CLI goes on for ever     *)
(* (_authenticate, do_read_object, do_import).                             *)
CommandCompletes == (pc # "idle" /\ cmd \notin PasswordCmds) ~> pc = "idle"

-----------------------------------------------------------------------------
(* Refinement: _ensure_authenticated implements AccessResolution.          *)

(* A command that calls _ensure_authenticated is resolving while it is at *)
(* the helpers' labels with _verify_pin returning into them or to the     *)
(* caller's next step, and resolved afterwards until it ends.             *)
ResolutionPhase ==
    IF cmd \notin EnsureCmds THEN "idle"
    ELSE IF pc \in {"ensure", "verify", "auth"}
            /\ vret \in {"idle", "auth", AfterEnsure(cmd)}
         THEN "resolving"
         ELSE "resolved"

(* The factors the session has authenticated.                              *)
HeldFactors == {f \in {"pin", "mgm"} : IF f = "pin" THEN pinOk ELSE mgmOk}

AR == INSTANCE AccessResolution WITH
        phase    <- ResolutionPhase,
        prot     <- ResolutionPhase # "idle" /\ HasProtectedKey(cache),
        keyGiven <- ResolutionPhase # "idle" /\ argKey # NoKey,
        require  <- ResolutionPhase # "idle" /\ RequirePinAndKey,
        granted  <- IF ResolutionPhase = "resolved" THEN HeldFactors ELSE {},
        pinLast  <- ResolutionPhase = "resolved" /\ lastAuth = "pin"

(* Every command that calls _ensure_authenticated gets from it what the   *)
(* protection mode and its options call for, or ends: a failed PIN or key *)
(* is fatal (lines 1016-1023, 1038-1040), the derived or stored key comes *)
(* with the PIN verified last (lines 1003-1013), and nothing it got is     *)
(* lost before the command ends (change-management-key and certificates   *)
(* import verify the PIN again, lines 399-401 and 669-672).                *)
ResolutionRefined == AR!Spec

-----------------------------------------------------------------------------
(* What the design says and the code does not do (violation runs).        *)

(* Design 4.3 step 4: an error of the derived/stored-key authentication, *)
(* a touch timeout included, is not reported as a PIN failure: a finished *)
(* command reports a PIN failure only if the token rejected a PIN          *)
(* (_verify_pin, lines 1022-1023).                                         *)
PinFailureMeansPinRejected ==
    (pc = "idle" /\ outcome \in {"PinFailed", "PinBlocked", "PinVerifyError"})
      => fails > 0

(* Design 1(e): PIN verification is the most recent authentication before *)
(* a PIN-dependent operation (set_pin_attempts, signing a certificate or a *)
(* CSR) proceeds.  On an unprotected token the PIN is verified first and  *)
(* the management key after it (lines 990-992).                            *)
PinLastBeforePinOp ==
    (pc \in {"sr_set", "gc_sign", "csr_sign"} /\ ~HasProtectedKey(cache))
      => lastAuth = "pin"

(* do_import(retry=False) is the import done again, once (design 9: a     *)
(* single-attempt, side-effect-bounded call): certificates import writes   *)
(* the certificate and a fresh CHUID once, as its last step (lines         *)
(* 686-689).                                                               *)
ImportWritesOnce == [][pc = "ci_put" => pc' = "idle"]_vars

(* certificates export reports a failure to read the certificate (the     *)
(* logger.error of lines 710-714): it never ends in an unbound local.      *)
ExportFailureReported == outcome # "UnboundLocal"

=============================================================================
