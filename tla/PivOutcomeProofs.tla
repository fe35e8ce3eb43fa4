--------------------------- MODULE PivOutcomeProofs ---------------------------
(***************************************************************************)
(* Proofs about what a command reports and what it writes: the failure it *)
(* reports agrees with the token's retry counters, and certificates       *)
(* import --verify writes only a certificate of the slot's key.            *)
(***************************************************************************)
EXTENDS PivAccessProofs

(* The failures that report the attempts left on the token.               *)
AttemptOutcomes == {"PinFailed", "PinBlocked", "PukFailed", "PukBlocked"}

(* What change-puk reports for the PUK counter after a rejection.          *)
PukOutcome(n) == IF n > 0 THEN "PukFailed" ELSE "PukBlocked"

(* The inductive form of ReportedAttemptsMatchToken: a command under way   *)
(* has reported nothing yet, so only the step that ends a command sets     *)
(* the outcome, and no step changes a counter once it has.                 *)
AttemptsInv ==
    /\ TypeOK
    /\ pc # "idle" => outcome = "none"
    /\ ReportedAttemptsMatchToken

(* The inductive form of VerifiedImportMatchesKey: _verify_pin never      *)
(* returns straight into the write of do_import, so the write is reached  *)
(* only from the check of the key or from the write of the retry.          *)
ImportInv ==
    /\ TypeOK
    /\ VerifiedImportMatchesKey
    /\ vret # "ci_put"

-----------------------------------------------------------------------------
(* Lemmas about the steps.                                                 *)

(* A command's steps run only while it is under way.                       *)
LEMMA StepNotIdle == Step => pc # "idle"
  BY DEF Step, EnsureAuthenticated, VerifyPin, Authenticate, GenerateKey,
     SetPinRetries, ChangePin, ChangePuk, UnblockPin, Reset,
     ChangeMgmKeyCheck, ChangeMgmKeyApply, GenerateCertificate,
     RequestCertificate, ImportKey, Attest, ImportCertParse,
     ImportCertCheck, ImportCertCheckThen, ImportCertPut,
     ExportCertificate, DeleteCertificate, ReadObject, ReadObjectVia,
     WriteObject, GenerateObject

(* Finish ends the command: no command, no step, nowhere to return to.    *)
LEMMA FinishEnds ==
  ASSUME NEW o, Finish(o)
  PROVE  pc' = "idle" /\ vret' = "idle" /\ cmd' = "none" /\ outcome' = o
  BY DEF Finish

-----------------------------------------------------------------------------
(* The reported attempts agree with the token.                             *)

(* A step that reports nothing about the attempts left: it keeps the      *)
(* outcome, or ends the command with another failure or success.           *)
Quiet == outcome' = outcome \/ (pc' = "idle" /\ outcome' \notin AttemptOutcomes)

(* Every step is quiet, or reports the PIN or PUK counter it leaves.       *)
LEMMA StepOutcome ==
  ASSUME Step
  PROVE  \/ Quiet
         \/ pc' = "idle" /\ outcome' = AttemptsOutcome(pinTries')
         \/ pc' = "idle" /\ outcome' = PukOutcome(pukTries')
<1> DEFINE PinCase == pc' = "idle" /\ outcome' = AttemptsOutcome(pinTries')
           PukCase == pc' = "idle" /\ outcome' = PukOutcome(pukTries')
<1>1. ASSUME NEW o, Finish(o), o \notin AttemptOutcomes PROVE Quiet
  BY <1>1, FinishEnds DEF Quiet
<1>2. ASSUME NEW p, PinRejected(p),
             Finish(AttemptsOutcome(Decrement(pinTries)))
      PROVE  PinCase
  BY <1>2, FinishEnds DEF PinRejected
<1>3. CASE VerifyPin
  <2>1. CASE argPin = NoPin /\ force /\ Finish("PinRequired")
    BY <2>1, <1>1 DEF AttemptOutcomes
  <2>2. ASSUME NEW p, PinFailure(p) PROVE PinCase
    BY <2>2, <1>2 DEF PinFailure
  <2>3. ASSUME NEW p, PinAccepted(p) PROVE Quiet
    <3>1. CASE Goto(vret)
      BY <3>1 DEF Goto, Quiet
    <3>2. CASE Finish("PinVerifyError")
      BY <3>2, <1>1 DEF AttemptOutcomes
    <3> QED
      BY <2>3, <3>1, <3>2 DEF PinAccepted, ProtectedKeyAuth
  <2> QED
    BY <1>3, <2>1, <2>2, <2>3 DEF VerifyPin
<1>4. CASE ChangePin
  <2> PICK old, new \in Pins :
        \/ /\ ~(ValidPinLength(old) /\ ValidPinLength(new))
           /\ Finish("Failed")
        \/ /\ PinRejected(old)
           /\ Finish(AttemptsOutcome(Decrement(pinTries)))
        \/ PivmanChangePin(old, new)
    BY <1>4 DEF ChangePin
  <2>1. ASSUME PivmanChangePin(old, new) PROVE Quiet
    <3>1. \E o \in {"ok", "DeviceError"} : Finish(o)
      BY <2>1 DEF PivmanChangePin
    <3> QED
      BY <3>1, <1>1 DEF AttemptOutcomes
  <2> QED
    BY <2>1, <1>1, <1>2 DEF AttemptOutcomes
<1>5. CASE ChangePuk
  <2> PICK old, new \in Puks :
        \/ /\ PukRejected(old)
           /\ Finish(PukOutcome(Decrement(pukTries)))
        \/ Finish("ok")
    BY <1>5 DEF ChangePuk, PukOutcome
  <2>1. ASSUME PukRejected(old), Finish(PukOutcome(Decrement(pukTries)))
        PROVE  PukCase
    BY <2>1, FinishEnds DEF PukRejected
  <2> QED
    BY <2>1, <1>1 DEF AttemptOutcomes
<1>6. CASE \/ EnsureAuthenticated \/ Authenticate \/ ChangeMgmKeyCheck
           \/ ImportCertParse \/ ImportCertCheck \/ ImportCertPut
           \/ ReadObject
  BY <1>6 DEF EnsureAuthenticated, Authenticate, ChangeMgmKeyCheck,
     ImportCertParse, ImportCertCheck, ImportCertCheckThen, ImportCertPut,
     ReadObject, ReadObjectVia, Goto, ImportGoto, CmkGoto, PasswordRetry,
     Finish, Quiet, AttemptOutcomes
<1>7. CASE \/ GenerateKey \/ SetPinRetries \/ UnblockPin \/ Reset
           \/ GenerateCertificate \/ RequestCertificate
           \/ ImportKey \/ Attest \/ ExportCertificate \/ DeleteCertificate
           \/ WriteObject \/ GenerateObject
  BY <1>7 DEF GenerateKey, SetPinRetries, UnblockPin, Reset,
     GenerateCertificate, RequestCertificate, ImportKey, Attest,
     ExportCertificate, DeleteCertificate, WriteObject, GenerateObject,
     PasswordRetry, Finish, Quiet, AttemptOutcomes
<1>8. CASE ChangeMgmKeyApply
  <2>1. ASSUME NEW k, PivmanSetMgmKey(k) PROVE Quiet
    BY <2>1 DEF PivmanSetMgmKey, Finish, Quiet, AttemptOutcomes
  <2> QED
    BY <1>8, <2>1 DEF ChangeMgmKeyApply, Finish, Quiet, AttemptOutcomes
<1> QED
  BY <1>3, <1>4, <1>5, <1>6, <1>7, <1>8 DEF Step

(* What a counter in range says about itself through the report it gives. *)
LEMMA ReportsOfCounter ==
  ASSUME NEW n \in 0..MaxTries
  PROVE  /\ AttemptsOutcome(n) = "PinFailed" => n > 0
         /\ AttemptsOutcome(n) = "PinBlocked" => n = 0
         /\ AttemptsOutcome(n) \notin {"PukFailed", "PukBlocked"}
         /\ PukOutcome(n) = "PukFailed" => n > 0
         /\ PukOutcome(n) = "PukBlocked" => n = 0
         /\ PukOutcome(n) \notin {"PinFailed", "PinBlocked"}
  BY TokenAssumptions DEF AttemptsOutcome, PukOutcome

(* Each step keeps AttemptsInv.                                            *)
LEMMA NextAttemptsInv == AttemptsInv /\ [Next]_vars => AttemptsInv'
<1> SUFFICES ASSUME AttemptsInv, [Next]_vars PROVE AttemptsInv'
  OBVIOUS
<1>1. TypeOK'
  BY NextTypeOK DEF AttemptsInv
<1>2. pinTries' \in 0..MaxTries /\ pukTries' \in 0..MaxTries
  BY <1>1 DEF TypeOK, TokenTypeOK
<1>3. CASE \E c \in Commands : Start(c)
  <2>1. outcome' = "none"
    BY <1>3 DEF Start
  <2> QED
    BY <1>1, <2>1 DEF AttemptsInv, ReportedAttemptsMatchToken
<1>4. CASE Step
  <2>1. outcome = "none"
    BY <1>4, StepNotIdle DEF AttemptsInv
  <2>2. CASE outcome' = outcome
    BY <1>1, <2>1, <2>2 DEF AttemptsInv, ReportedAttemptsMatchToken
  <2>3. CASE pc' = "idle" /\ outcome' \notin AttemptOutcomes
    BY <1>1, <2>3 DEF AttemptsInv, ReportedAttemptsMatchToken, AttemptOutcomes
  <2>4. CASE pc' = "idle" /\ outcome' = AttemptsOutcome(pinTries')
    BY <1>1, <1>2, <2>4, ReportsOfCounter
    DEF AttemptsInv, ReportedAttemptsMatchToken
  <2>5. CASE pc' = "idle" /\ outcome' = PukOutcome(pukTries')
    BY <1>1, <1>2, <2>5, ReportsOfCounter
    DEF AttemptsInv, ReportedAttemptsMatchToken
  <2> QED
    BY <1>4, <2>2, <2>3, <2>4, <2>5, StepOutcome DEF Quiet
<1>5. CASE UNCHANGED vars
  BY <1>1, <1>5 DEF AttemptsInv, ReportedAttemptsMatchToken, vars, tokenVars
<1> QED
  BY <1>3, <1>4, <1>5 DEF Next

(* The failure a finished command reports agrees with the token: "tries   *)
(* left" only while the PIN or PUK has attempts remaining, "blocked" only *)
(* when it has none (_verify_pin, change-pin and change-puk read the      *)
(* count of the InvalidPinError the token raised, lines 1017-1021,         *)
(* 279-287 and 324-330).                                                   *)
THEOREM AttemptsReported == Spec => []ReportedAttemptsMatchToken
<1>1. Init => AttemptsInv
  BY InitTypeOK DEF Init, AttemptsInv, ReportedAttemptsMatchToken
<1>2. AttemptsInv => ReportedAttemptsMatchToken
  BY DEF AttemptsInv
<1> QED
  BY <1>1, <1>2, NextAttemptsInv, PTL DEF Spec

-----------------------------------------------------------------------------
(* certificates import --verify writes a certificate of the slot's key.    *)

(* The labels a command starts at.                                         *)
LEMMA FirstStepLabels ==
  ASSUME NEW c \in AllCommands PROVE FirstStep(c) # "ci_put"
  BY DEF FirstStep, AllCommands, AccessCommands, DataCommands

(* Each step keeps ImportInv.                                              *)
LEMMA NextImportInv == ImportInv /\ [Next]_vars => ImportInv'
<1> SUFFICES ASSUME ImportInv, [Next]_vars PROVE ImportInv'
  OBVIOUS
<1>1. TypeOK'
  BY NextTypeOK DEF ImportInv
<1>2. VerifiedImportMatchesKey /\ vret # "ci_put"
  BY DEF ImportInv
<1> DEFINE Away == pc' # "ci_put" /\ vret' # "ci_put"
<1>3. Away => ImportInv'
  BY <1>1 DEF ImportInv, VerifiedImportMatchesKey
<1>4. ASSUME NEW o, Finish(o) PROVE Away
  BY <1>4, FinishEnds
<1>5. CASE \E c \in Commands : Start(c)
  <2> PICK c \in Commands : Start(c)
    BY <1>5
  <2>1. Away
    BY CommandsAssumption, FirstStepLabels DEF Start
  <2> QED
    BY <1>3, <2>1
<1>6. CASE EnsureAuthenticated
  <2>1. pc' \in {"verify", "auth"} /\ vret' \in {AfterEnsure(cmd), "auth"}
    BY <1>6 DEF EnsureAuthenticated, Goto
  <2> QED
    BY <1>3, <2>1, AfterEnsureLabels
<1>7. CASE VerifyPin
  <2>1. CASE \E o : Finish(o)
    BY <1>3, <1>4, <2>1
  <2>2. CASE pc' = vret /\ vret' = vret
    BY <1>2, <1>3, <2>2
  <2>3. ASSUME NEW p, PinAccepted(p), ~\E o : Finish(o)
        PROVE  pc' = vret /\ vret' = vret
    BY <2>3 DEF PinAccepted, ProtectedKeyAuth, Goto
  <2> QED
    BY <1>7, <2>1, <2>2, <2>3 DEF VerifyPin, PinFailure
<1>8. CASE Authenticate
  <2>1. CASE \E o : Finish(o)
    BY <1>3, <1>4, <2>1
  <2>2. CASE pc' = AfterEnsure(cmd) /\ vret' = vret
    BY <1>2, <1>3, <2>2, AfterEnsureLabels
  <2> QED
    BY <1>8, <2>1, <2>2 DEF Authenticate, Goto
<1>9. CASE ChangeMgmKeyCheck
  <2>1. CASE \E o : Finish(o)
    BY <1>3, <1>4, <2>1
  <2>2. CASE pc' \in {"verify", "cmk_new"} /\ vret' \in {"cmk_new", vret}
    BY <1>2, <1>3, <2>2
  <2> QED
    BY <1>9, <2>1, <2>2 DEF ChangeMgmKeyCheck, CmkGoto
<1>10. CASE ImportCertParse \/ ReadObject
  <2>1. CASE \E o : Finish(o)
    BY <1>3, <1>4, <2>1
  <2>2. CASE /\ pc' \in {"ci_parse", "ci_import", "verify"}
             /\ vret' \in {"ro_get", vret}
    BY <1>2, <1>3, <2>2
  <2> QED
    BY <1>10, <2>1, <2>2 DEF ImportCertParse, PasswordRetry, ImportGoto,
       ReadObject, ReadObjectVia, Goto
<1>11. CASE ImportCertCheck
  <2>1. CASE \E o : Finish(o)
    BY <1>3, <1>4, <2>1
  <2>2. CASE pc' = "verify" /\ vret' = "ci_import"
    BY <1>3, <2>2
  <2>3. CASE /\ ~verifyOpt \/ (pinOk /\ material = slotKey)
             /\ Goto("ci_put") /\ UNCHANGED <<vret, tokenVars>>
    <3>1. vret' # "ci_put"
      BY <1>2, <2>3
    <3>2. VerifiedImportMatchesKey'
      BY <2>3 DEF Goto, dataVars, tokenVars, credVars, slotVars,
         VerifiedImportMatchesKey
    <3> QED
      BY <1>1, <3>1, <3>2 DEF ImportInv
  <2> QED
    BY <1>11, <2>1, <2>2, <2>3 DEF ImportCertCheck, ImportCertCheckThen,
       ImportGoto
<1>12. CASE ImportCertPut
  <2>1. CASE \E o : Finish(o)
    BY <1>3, <1>4, <2>1
  <2>2. CASE /\ pc = "ci_put" /\ ImportGoto("ci_put", material, 1)
             /\ UNCHANGED <<vret, slotKey>>
    <3>1. VerifiedImportMatchesKey'
      BY <1>2, <2>2 DEF ImportGoto, optVars, VerifiedImportMatchesKey
    <3> QED
      BY <1>1, <1>2, <2>2, <3>1 DEF ImportInv
  <2> QED
    BY <1>12, <2>1, <2>2 DEF ImportCertPut
<1>13. CASE \/ GenerateKey \/ SetPinRetries \/ ChangePin \/ ChangePuk
            \/ UnblockPin \/ Reset \/ ChangeMgmKeyApply
            \/ GenerateCertificate \/ RequestCertificate
            \/ Attest \/ ExportCertificate \/ DeleteCertificate
            \/ WriteObject \/ GenerateObject
  BY <1>3, <1>4, <1>13, FinishingSteps
<1>15. CASE ImportKey
  <2>1. CASE \E o : Finish(o)
    BY <1>3, <1>4, <2>1
  <2>2. CASE PasswordRetry
    BY <1>2, <1>3, <1>15, <2>2 DEF ImportKey, PasswordRetry
  <2> QED
    BY <1>15, <2>1, <2>2 DEF ImportKey
<1>14. CASE UNCHANGED vars
  BY <1>1, <1>2, <1>14 DEF ImportInv, VerifiedImportMatchesKey, vars,
     dataVars, tokenVars, credVars, slotVars
<1> QED
  BY <1>5, <1>6, <1>7, <1>8, <1>9, <1>10, <1>11, <1>12, <1>13, <1>14,
     <1>15 DEF Next, Step

(* certificates import --verify writes only a certificate of the key pair *)
(* in the slot: do_import reaches put_certificate only after check_key,    *)
(* and the retry after SECURITY_CONDITION_NOT_SATISFIED verifies the PIN  *)
(* and checks the key again before it writes (lines 669-689).              *)
THEOREM ImportMatchesKey == Spec => []VerifiedImportMatchesKey
<1>1. Init => ImportInv
  BY InitTypeOK DEF Init, ImportInv, VerifiedImportMatchesKey
<1>2. ImportInv => VerifiedImportMatchesKey
  BY DEF ImportInv
<1> QED
  BY <1>1, <1>2, NextImportInv, PTL DEF Spec

=============================================================================
