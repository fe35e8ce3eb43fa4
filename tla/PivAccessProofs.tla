--------------------------- MODULE PivAccessProofs ---------------------------
(***************************************************************************)
(* Proofs about PivAccess for every value of the constants: the type      *)
(* invariant, at most one rejected PIN or PUK per command, the resolution *)
(* of a PIN-protected token, and the recoverability of the protected key   *)
(* while no command changes the PIN behind its back.                       *)
(***************************************************************************)
EXTENDS PivAccess, TLAPS

USE DEF PasswordStates

-----------------------------------------------------------------------------
(* Type correctness.                                                       *)

(* Init starts in a well-typed state: the token in one of its protection  *)
(* modes, no command running.                                              *)
LEMMA InitTypeOK == Init => TypeOK
<1> SUFFICES ASSUME Init PROVE TypeOK
  OBVIOUS
<1>1. /\ pin \in Pins /\ puk \in Puks
      /\ pinTries \in 0..MaxTries /\ pukTries \in 0..MaxTries
      /\ pinRetries \in 1..MaxTries /\ pukRetries \in 1..MaxTries
  BY TokenAssumptions DEF Init, TokenInit
<1>4. /\ touchReq \in BOOLEAN
      /\ pinOk \in BOOLEAN /\ mgmOk \in BOOLEAN
      /\ lastAuth \in {"none", "pin", "mgm"}
  BY DEF Init, TokenInit
<1>2. mgmKey \in Keys /\ pivman \in PivmanRecords /\ protKey \in Keys \cup {NoKey}
  <2>1. CASE pivman = DefaultPivman /\ mgmKey \in UserKeys /\ protKey = NoKey
    BY <2>1 DEF Keys, PivmanRecords, DefaultPivman
  <2>2. CASE \E s \in Salts :
                /\ pivman = [salt |-> s, stored |-> FALSE]
                /\ mgmKey = Derive(pin, s) /\ protKey = NoKey
    BY <2>2, <1>1 DEF Keys, PivmanRecords
  <2>3. CASE /\ pivman = [salt |-> NoSalt, stored |-> TRUE]
             /\ mgmKey \in RandomKeys /\ protKey = mgmKey
    BY <2>3 DEF Keys, UserKeys, PivmanRecords
  <2> QED
    BY <2>1, <2>2, <2>3 DEF Init, TokenInit
<1>5. /\ slotKey \in KeyPairs \cup {NoKeyPair} /\ slotGenerated \in BOOLEAN
      /\ slotCert \in KeyPairs \cup {NoKeyPair} /\ objs \subseteq DataObjects
  BY DEF Init, TokenInit
<1>3. TokenTypeOK
  BY <1>1, <1>2, <1>4, <1>5 DEF TokenTypeOK
<1>6. /\ objectId \in ObjectIds \cup {NoObject}
      /\ material \in KeyPairs \cup {NoKeyPair}
      /\ verifyOpt \in BOOLEAN /\ depth \in 0..2
      /\ password \in PasswordStates
  <2>1. depth \in 0..2
    BY SMT DEF Init
  <2> QED
    BY <2>1, Zenon DEF Init
<1> QED
  BY <1>3, <1>6, TokenAssumptions, NoKeyAssumption
  DEF Init, TypeOK, Labels, Outcomes, PivmanRecords, DefaultPivman, UserKeys

(* The keys a user types, the default among them, are management keys.   *)
LEMMA UserKeysAreKeys == DefaultKey \in UserKeys /\ UserKeys \subseteq Keys
  BY DEF UserKeys, Keys

(* Finish leaves the command's locals well-typed.                          *)
LEMMA FinishTypeOK ==
  ASSUME NEW o \in Outcomes, Finish(o)
  PROVE  /\ cmd' \in AllCommands \cup {"none"}
         /\ pc' \in Labels /\ vret' \in Labels
         /\ cache' \in PivmanRecords
         /\ argPin' \in Pins \cup {NoPin}
         /\ argKey' \in UserKeys \cup {NoKey}
         /\ force' \in BOOLEAN /\ protect' \in BOOLEAN
         /\ generate' \in BOOLEAN
         /\ newKey' \in UserKeys \cup {NoKey}
         /\ pinVerified' \in BOOLEAN
         /\ outcome' \in Outcomes
         /\ pinOk' \in BOOLEAN /\ mgmOk' \in BOOLEAN
         /\ lastAuth' \in {"none", "pin", "mgm"}
         /\ objectId' \in ObjectIds \cup {NoObject}
         /\ material' \in KeyPairs \cup {NoKeyPair}
         /\ verifyOpt' \in BOOLEAN /\ depth' \in 0..2
         /\ password' \in PasswordStates
<1>1. /\ objectId' \in ObjectIds \cup {NoObject}
      /\ material' \in KeyPairs \cup {NoKeyPair}
      /\ verifyOpt' \in BOOLEAN /\ depth' \in 0..2
      /\ password' \in PasswordStates
  <2>1. depth' \in 0..2
    BY SMT DEF Finish
  <2> QED
    BY <2>1, Zenon DEF Finish
<1> QED
  BY <1>1 DEF Finish, Labels, PivmanRecords, DefaultPivman

(* A step that leaves the token alone and types the session status keeps *)
(* the token part well-typed.                                              *)
LEMMA TokenUnchangedTypeOK ==
  ASSUME TokenTypeOK, UNCHANGED tokenVars,
         pinOk' \in BOOLEAN, mgmOk' \in BOOLEAN,
         lastAuth' \in {"none", "pin", "mgm"}
  PROVE  TokenTypeOK'
  BY DEF TokenTypeOK, tokenVars, credVars, slotVars

(* The counter after a rejected attempt stays within its range.            *)
LEMMA DecrementRange ==
  ASSUME NEW n \in 0..MaxTries PROVE Decrement(n) \in 0..MaxTries
  BY TokenAssumptions DEF Decrement

(* A rejected PIN or PUK leaves its counter in range and counts one more *)
(* rejection.                                                              *)
LEMMA PinRejectedTypeOK ==
  ASSUME TypeOK, NEW p, PinRejected(p)
  PROVE  pinTries' \in 0..MaxTries /\ fails' \in Nat
  <1>1. pinTries \in 0..MaxTries /\ fails \in Nat
    BY DEF TypeOK, TokenTypeOK
  <1>2. pinTries' \in 0..MaxTries
    BY <1>1, DecrementRange DEF PinRejected
  <1>3. fails' \in Nat
    BY <1>1 DEF PinRejected
  <1> QED
    BY <1>2, <1>3

LEMMA PukRejectedTypeOK ==
  ASSUME TypeOK, NEW u, PukRejected(u)
  PROVE  pukTries' \in 0..MaxTries /\ fails' \in Nat
  <1>1. pukTries \in 0..MaxTries /\ fails \in Nat
    BY DEF TypeOK, TokenTypeOK
  <1>2. pukTries' \in 0..MaxTries
    BY <1>1, DecrementRange DEF PukRejected
  <1>3. fails' \in Nat
    BY <1>1 DEF PukRejected
  <1> QED
    BY <1>2, <1>3

(* A step that ends the command keeps the state well-typed when the token *)
(* does.                                                                    *)
LEMMA FinishTokenTypeOK ==
  ASSUME TypeOK, NEW o \in Outcomes, Finish(o), TokenTypeOK', fails' \in Nat
  PROVE  TypeOK'
  BY FinishTypeOK DEF TypeOK

(* Goto keeps the locals as they are and moves to a label.                 *)
LEMMA GotoTypeOK ==
  ASSUME TypeOK, NEW l \in Labels, Goto(l),
         vret' \in Labels, pinVerified' \in BOOLEAN
  PROVE  /\ cmd' \in AllCommands \cup {"none"}
         /\ pc' \in Labels /\ vret' \in Labels
         /\ cache' \in PivmanRecords
         /\ argPin' \in Pins \cup {NoPin}
         /\ argKey' \in UserKeys \cup {NoKey}
         /\ force' \in BOOLEAN /\ protect' \in BOOLEAN
         /\ generate' \in BOOLEAN
         /\ newKey' \in UserKeys \cup {NoKey}
         /\ pinVerified' \in BOOLEAN
         /\ outcome' \in Outcomes
         /\ objectId' \in ObjectIds \cup {NoObject}
         /\ material' \in KeyPairs \cup {NoKeyPair}
         /\ verifyOpt' \in BOOLEAN /\ depth' \in 0..2
         /\ password' \in PasswordStates
  BY DEF Goto, TypeOK, optVars, dataVars

(* A step that ends the command and leaves the token alone.               *)
LEMMA FinishKeepTypeOK ==
  ASSUME TypeOK, NEW o \in Outcomes, Finish(o), UNCHANGED <<tokenVars, fails>>
  PROVE  TypeOK'
  BY FinishTypeOK, TokenUnchangedTypeOK DEF TypeOK

(* A step that ends the command after writing the slot or data objects.    *)
LEMMA FinishSlotTypeOK ==
  ASSUME TypeOK, NEW o \in Outcomes, Finish(o),
         UNCHANGED <<pin, puk, pinTries, pukTries, pinRetries, pukRetries,
                     mgmKey, touchReq, pivman, fails>>,
         protKey' \in Keys \cup {NoKey},
         slotKey' \in KeyPairs \cup {NoKeyPair}, slotGenerated' \in BOOLEAN,
         slotCert' \in KeyPairs \cup {NoKeyPair}, objs' \subseteq DataObjects
  PROVE  TypeOK'
  BY FinishTypeOK DEF TypeOK, TokenTypeOK

(* A step of certificates import that moves on within the command.         *)
LEMMA ImportGotoTypeOK ==
  ASSUME TypeOK, NEW l \in Labels, NEW m \in KeyPairs \cup {NoKeyPair},
         NEW d \in 0..2, ImportGoto(l, m, d),
         vret' \in Labels, pinVerified' \in BOOLEAN, UNCHANGED statusVars,
         fails' = fails, TokenTypeOK'
  PROVE  TypeOK'
  BY DEF ImportGoto, TypeOK, optVars, statusVars

(* A step that leaves token, session status and counts alone keeps the    *)
(* token part well-typed.                                                  *)
LEMMA KeepTokenTypeOK ==
  ASSUME TypeOK, UNCHANGED <<tokenVars, statusVars, fails>>
  PROVE  TokenTypeOK' /\ fails' \in Nat
  BY DEF TypeOK, TokenTypeOK, tokenVars, credVars, slotVars, statusVars

(* A step that moves on within the command and leaves the token alone.    *)
LEMMA GotoKeepTypeOK ==
  ASSUME TypeOK, NEW l \in Labels, Goto(l), vret' \in Labels,
         UNCHANGED <<tokenVars, statusVars, pinVerified, fails>>
  PROVE  TypeOK'
  <1>1. TokenTypeOK' /\ fails' \in Nat
    BY KeepTokenTypeOK
  <1>2. pinVerified' \in BOOLEAN
    BY DEF TypeOK
  <1>3. /\ cmd' \in AllCommands \cup {"none"}
        /\ pc' \in Labels /\ vret' \in Labels
        /\ cache' \in PivmanRecords
        /\ argPin' \in Pins \cup {NoPin}
        /\ argKey' \in UserKeys \cup {NoKey}
        /\ force' \in BOOLEAN /\ protect' \in BOOLEAN
        /\ generate' \in BOOLEAN
        /\ newKey' \in UserKeys \cup {NoKey}
        /\ pinVerified' \in BOOLEAN
        /\ outcome' \in Outcomes
        /\ objectId' \in ObjectIds \cup {NoObject}
        /\ material' \in KeyPairs \cup {NoKeyPair}
        /\ verifyOpt' \in BOOLEAN /\ depth' \in 0..2
        /\ password' \in PasswordStates
    BY <1>2, GotoTypeOK
  <1> QED
    BY <1>1, <1>3 DEF TypeOK

(* The same for the steps of certificates import.                          *)
LEMMA ImportGotoKeepTypeOK ==
  ASSUME TypeOK, NEW l \in Labels, NEW m \in KeyPairs \cup {NoKeyPair},
         NEW d \in 0..2, ImportGoto(l, m, d), vret' \in Labels,
         UNCHANGED <<tokenVars, statusVars, pinVerified, fails>>
  PROVE  TypeOK'
  <1>1. TokenTypeOK' /\ fails' \in Nat
    BY KeepTokenTypeOK
  <1>2. pinVerified' \in BOOLEAN
    BY DEF TypeOK
  <1> QED
    BY <1>1, <1>2, ImportGotoTypeOK

(* A turn of the password loop changes only the password held.            *)
LEMMA PasswordRetryTypeOK ==
  ASSUME TypeOK, PasswordRetry PROVE TypeOK'
  BY DEF PasswordRetry, TypeOK, TokenTypeOK, tokenVars, credVars, slotVars,
     statusVars, optVars

(* Every step keeps the state well-typed.                                  *)
LEMMA NextTypeOK == TypeOK /\ [Next]_vars => TypeOK'
<1> SUFFICES ASSUME TypeOK, [Next]_vars PROVE TypeOK'
  OBVIOUS
<1> USE TokenAssumptions, NoKeyAssumption, CommandsAssumption
<1>1. CASE \E c \in Commands : Start(c)
  <2> PICK c \in Commands : Start(c)
    BY <1>1
  <2>1. TokenTypeOK'
    BY DEF Start, SessionOpen, TypeOK, TokenTypeOK, tokenVars, credVars,
       slotVars
  <2>2. /\ cmd' \in AllCommands \cup {"none"}
        /\ pc' \in Labels /\ vret' \in Labels
    BY DEF Start, Labels, AllCommands, EnsureCmds, FirstStep, AccessCommands,
       DataCommands
  <2>3. /\ cache' \in PivmanRecords
        /\ argPin' \in Pins \cup {NoPin}
        /\ argKey' \in UserKeys \cup {NoKey}
        /\ force' \in BOOLEAN /\ protect' \in BOOLEAN
        /\ generate' \in BOOLEAN /\ newKey' \in UserKeys \cup {NoKey}
        /\ objectId' \in ObjectIds \cup {NoObject}
        /\ material' \in KeyPairs \cup {NoKeyPair}
        /\ verifyOpt' \in BOOLEAN /\ depth' \in 0..2
        /\ password' \in PasswordStates
    <3>1. /\ objectId' \in ObjectIds \cup {NoObject}
          /\ material' \in KeyPairs \cup {NoKeyPair}
          /\ verifyOpt' \in BOOLEAN /\ depth' \in 0..2
          /\ password' \in PasswordStates
      <4>1. depth' \in 0..2
        BY SMT DEF Start
      <4> QED
        BY <4>1, Zenon DEF Start
    <3> QED
      BY <3>1 DEF Start, TypeOK, TokenTypeOK
  <2>4. pinVerified' \in BOOLEAN /\ fails' \in Nat /\ outcome' \in Outcomes
    BY DEF Start, Outcomes
  <2> QED
    BY <2>1, <2>2, <2>3, <2>4 DEF TypeOK
<1>2. CASE EnsureAuthenticated
  BY <1>2 DEF EnsureAuthenticated, Goto, TypeOK, TokenTypeOK, Labels,
     AfterEnsure, optVars, dataVars, tokenVars, credVars, slotVars,
     statusVars
<1>3. CASE VerifyPin
  <2>1. CASE argPin = NoPin /\ force /\ Finish("PinRequired")
             /\ UNCHANGED <<tokenVars, fails>>
    BY <2>1, FinishTypeOK, TokenUnchangedTypeOK DEF TypeOK, Outcomes
  <2>2. CASE /\ \E p \in EnteredPins(argPin) : PinFailure(p) \/ PinAccepted(p)
             /\ UNCHANGED <<credVars, pukTries>>
    <3> PICK p \in EnteredPins(argPin) : PinFailure(p) \/ PinAccepted(p)
      BY <2>2
    <3>1. CASE PinFailure(p)
      <4>1. AttemptsOutcome(Decrement(pinTries)) \in Outcomes
        BY DEF AttemptsOutcome, Outcomes
      <4>2. Finish(AttemptsOutcome(Decrement(pinTries)))
        BY <3>1 DEF PinFailure
      <4>3. pinTries' \in 0..MaxTries /\ fails' \in Nat
        BY <3>1, DecrementRange DEF PinFailure, PinRejected, TypeOK,
           TokenTypeOK
      <4>4. TokenTypeOK'
        BY <2>2, <4>1, <4>2, <4>3, FinishTypeOK
        DEF TypeOK, TokenTypeOK, credVars, slotVars
      <4> QED
        BY <4>1, <4>2, <4>3, <4>4, FinishTypeOK DEF TypeOK
    <3>2. CASE PinAccepted(p)
      <4>1. pinTries' \in 0..MaxTries /\ fails' \in Nat
        BY <3>2 DEF PinAccepted, TypeOK, TokenTypeOK
      <4>2. /\ cmd' \in AllCommands \cup {"none"}
            /\ pc' \in Labels /\ vret' \in Labels
            /\ cache' \in PivmanRecords
            /\ argPin' \in Pins \cup {NoPin}
            /\ argKey' \in UserKeys \cup {NoKey}
            /\ force' \in BOOLEAN /\ protect' \in BOOLEAN
            /\ generate' \in BOOLEAN
            /\ newKey' \in UserKeys \cup {NoKey}
            /\ pinVerified' \in BOOLEAN
            /\ outcome' \in Outcomes
            /\ pinOk' \in BOOLEAN /\ mgmOk' \in BOOLEAN
            /\ lastAuth' \in {"none", "pin", "mgm"}
            /\ objectId' \in ObjectIds \cup {NoObject}
            /\ material' \in KeyPairs \cup {NoKeyPair}
            /\ verifyOpt' \in BOOLEAN /\ depth' \in 0..2
            /\ password' \in PasswordStates
        <5>1. CASE ~HasProtectedKey(cache)
          BY <3>2, <5>1, GotoTypeOK DEF PinAccepted, TypeOK, TokenTypeOK
        <5>2. CASE HasProtectedKey(cache)
          <6> PICK touched \in TouchAnswers :
                LET key == IF HasDerivedKey(cache) THEN Derive(p, cache.salt)
                                                   ELSE protKey
                IN  IF key = mgmKey /\ touched
                      THEN /\ pinVerified' = TRUE /\ Goto(vret)
                           /\ pinOk' = TRUE /\ mgmOk' = TRUE
                           /\ lastAuth' = "pin"
                           /\ UNCHANGED vret
                      ELSE Finish("PinVerifyError")
            BY <3>2, <5>2 DEF PinAccepted, ProtectedKeyAuth
          <6> QED
            BY GotoTypeOK, FinishTypeOK DEF TypeOK, Outcomes
        <5> QED
          BY <5>1, <5>2
      <4> QED
        BY <2>2, <4>1, <4>2 DEF TypeOK, TokenTypeOK, credVars, slotVars
    <3> QED
      BY <3>1, <3>2
  <2> QED
    BY <1>3, <2>1, <2>2 DEF VerifyPin
<1>4. CASE Authenticate
  <2>1. CASE \E o \in Outcomes : Finish(o) /\ UNCHANGED <<tokenVars, fails>>
    BY <2>1, FinishTypeOK, TokenUnchangedTypeOK DEF TypeOK
  <2>2. CASE /\ mgmOk' = TRUE /\ lastAuth' = "mgm"
             /\ Goto(AfterEnsure(cmd))
             /\ UNCHANGED <<pinOk, vret, pinVerified, tokenVars, fails>>
    <3>1. AfterEnsure(cmd) \in Labels
      BY DEF AfterEnsure, Labels
    <3> QED
      BY <2>2, <3>1, GotoTypeOK, TokenUnchangedTypeOK DEF TypeOK, TokenTypeOK
  <2> QED
    BY <1>4, <2>1, <2>2 DEF Authenticate, Outcomes
<1>5. CASE \/ RequestCertificate \/ Attest \/ ExportCertificate
  BY <1>5, FinishKeepTypeOK
  DEF RequestCertificate, Attest, ExportCertificate, Outcomes
<1>21. CASE GenerateCertificate
  <2>1. CASE Finish("Failed") /\ UNCHANGED <<tokenVars, fails>>
    BY <2>1, FinishKeepTypeOK DEF Outcomes
  <2>2. CASE /\ \E kp \in KeyPairs : slotCert' = kp
             /\ objs' = objs \cup {"chuid"}
             /\ Finish("ok")
             /\ UNCHANGED <<pin, puk, pinTries, pukTries, pinRetries,
                            pukRetries, mgmKey, touchReq, pivman, protKey,
                            slotKey, slotGenerated, fails>>
    BY <2>2, FinishSlotTypeOK DEF Outcomes, TypeOK, TokenTypeOK, DataObjects
  <2> QED
    BY <1>21, <2>1, <2>2 DEF GenerateCertificate
<1>14. CASE GenerateKey \/ ImportKey
  <2>0. CASE PasswordRetry
    BY <2>0, PasswordRetryTypeOK
  <2>1. CASE Finish("Failed") /\ UNCHANGED <<tokenVars, fails>>
    BY <2>1, FinishKeepTypeOK DEF Outcomes
  <2>2. CASE /\ \E kp \in KeyPairs : slotKey' = kp
             /\ slotGenerated' \in BOOLEAN /\ Finish("ok")
             /\ UNCHANGED <<pin, puk, pinTries, pukTries, pinRetries,
                            pukRetries, mgmKey, touchReq, pivman, protKey,
                            slotCert, objs, fails>>
    BY <2>2, FinishSlotTypeOK DEF Outcomes, TypeOK, TokenTypeOK
  <2> QED
    BY <1>14, <2>0, <2>1, <2>2 DEF GenerateKey, ImportKey, tokenVars,
       credVars, slotVars
<1>15. CASE ImportCertParse
  <2>0. CASE PasswordRetry
    BY <2>0, PasswordRetryTypeOK
  <2>4. CASE \E kp \in KeyPairs : ImportGoto("ci_import", kp, 1)
    <3> PICK kp \in KeyPairs : ImportGoto("ci_import", kp, 1)
      BY <2>4
    <3>1. TokenTypeOK'
      BY <1>15, <2>4 DEF ImportCertParse, TypeOK, TokenTypeOK, tokenVars,
         credVars, slotVars, statusVars
    <3>2. "ci_import" \in Labels /\ 1 \in 0..2 /\ kp \in KeyPairs \cup {NoKeyPair}
      BY DEF Labels
    <3>3. vret' \in Labels /\ pinVerified' \in BOOLEAN /\ UNCHANGED statusVars
          /\ fails' = fails
      BY <1>15, <2>4 DEF ImportCertParse, TypeOK
    <3> QED
      BY <3>1, <3>2, <3>3, ImportGotoTypeOK
  <2> QED
    BY <1>15, <2>0, <2>4 DEF ImportCertParse
<1>16. CASE ImportCertCheck
  <2>1. CASE \E o \in Outcomes : Finish(o)
    BY <1>16, <2>1, FinishKeepTypeOK DEF ImportCertCheck, ImportCertCheckThen
  <2>0. UNCHANGED <<tokenVars, fails>>
    BY <1>16 DEF ImportCertCheck, ImportCertCheckThen
  <2>2. CASE Goto("ci_put") /\ UNCHANGED <<vret, pinVerified, statusVars>>
    <3>1. vret' \in Labels /\ "ci_put" \in Labels
      BY <2>2 DEF TypeOK, Labels
    <3> QED
      BY <2>0, <2>2, <3>1, GotoKeepTypeOK
  <2>3. CASE /\ ImportGoto("verify", material, 2) /\ vret' = "ci_import"
             /\ UNCHANGED <<pinVerified, statusVars>>
    <3>1. /\ vret' \in Labels /\ "verify" \in Labels /\ 2 \in 0..2
          /\ material \in KeyPairs \cup {NoKeyPair}
      BY <2>3 DEF TypeOK, Labels
    <3> QED
      BY <2>0, <2>3, <3>1, ImportGotoKeepTypeOK
  <2> QED
    BY <1>16, <2>1, <2>2, <2>3 DEF ImportCertCheck, ImportCertCheckThen,
       Outcomes
<1>17. CASE ImportCertPut
  <2>1. /\ slotCert' \in KeyPairs \cup {NoKeyPair}
        /\ objs' \subseteq DataObjects
    BY <1>17 DEF ImportCertPut, TypeOK, TokenTypeOK, DataObjects
  <2>2. CASE depth = 1 /\ Finish("ok")
    BY <1>17, <2>1, <2>2, FinishSlotTypeOK DEF ImportCertPut, TypeOK,
       TokenTypeOK, Outcomes
  <2>3. CASE /\ ImportGoto("ci_put", material, 1)
             /\ UNCHANGED <<vret, pinVerified, statusVars>>
    <3>1. TokenTypeOK'
      BY <1>17, <2>1, <2>3 DEF ImportCertPut, TypeOK, TokenTypeOK, statusVars
    <3>2. /\ vret' \in Labels /\ "ci_put" \in Labels /\ 1 \in 0..2
          /\ material \in KeyPairs \cup {NoKeyPair}
          /\ pinVerified' \in BOOLEAN /\ fails' = fails
      BY <1>17, <2>3 DEF ImportCertPut, TypeOK, Labels
    <3> QED
      BY <2>3, <3>1, <3>2, ImportGotoTypeOK
  <2> QED
    BY <1>17, <2>2, <2>3 DEF ImportCertPut
<1>18. CASE DeleteCertificate
  BY <1>18, FinishSlotTypeOK DEF DeleteCertificate, TypeOK, TokenTypeOK,
     Outcomes, DataObjects
<1>19. CASE ReadObject
  <2>1. CASE \E o \in Outcomes : Finish(o)
    BY <1>19, <2>1, FinishKeepTypeOK DEF ReadObject, ReadObjectVia
  <2>2. CASE Goto("verify") /\ vret' = "ro_get"
             /\ UNCHANGED <<pinVerified, statusVars>>
    <3>1. UNCHANGED <<tokenVars, fails>>
      BY <1>19 DEF ReadObject, ReadObjectVia
    <3>2. vret' \in Labels /\ "verify" \in Labels
      BY <2>2 DEF Labels
    <3> QED
      BY <2>2, <3>1, <3>2, GotoKeepTypeOK
  <2> QED
    BY <1>19, <2>1, <2>2 DEF ReadObject, ReadObjectVia, Outcomes
<1>20. CASE WriteObject \/ GenerateObject
  <2>1. CASE Finish("Failed") /\ UNCHANGED <<tokenVars, fails>>
    BY <2>1, FinishKeepTypeOK DEF Outcomes
  <2>2. CASE /\ objectId \in DataObjects /\ objs' = objs \cup {objectId}
             /\ Finish("ok")
             /\ UNCHANGED <<pin, puk, pinTries, pukTries, pinRetries,
                            pukRetries, mgmKey, touchReq, pivman, protKey,
                            slotKey, slotGenerated, slotCert, fails>>
    BY <2>2, FinishSlotTypeOK DEF Outcomes, TypeOK, TokenTypeOK
  <2>3. CASE /\ \E k \in {NoKey} \cup UserKeys : protKey' = k
             /\ Finish("ok")
             /\ UNCHANGED <<pin, puk, pinTries, pukTries, pinRetries,
                            pukRetries, mgmKey, touchReq, pivman, slotVars,
                            fails>>
    BY <2>3, FinishSlotTypeOK, UserKeysAreKeys DEF Outcomes, TypeOK,
       TokenTypeOK, slotVars
  <2> QED
    BY <1>20, <2>1, <2>2, <2>3 DEF WriteObject, GenerateObject, tokenVars,
       credVars, slotVars
<1>6. CASE SetPinRetries
  <2>1. CASE Finish("Aborted") /\ UNCHANGED tokenVars
    BY <1>6, <2>1, FinishTypeOK, TokenUnchangedTypeOK
    DEF SetPinRetries, TypeOK, Outcomes
  <2>2. CASE Finish("Failed") /\ UNCHANGED tokenVars
    BY <1>6, <2>2, FinishTypeOK, TokenUnchangedTypeOK
    DEF SetPinRetries, TypeOK, Outcomes
  <2>3. CASE /\ \E np, nk \in 1..MaxTries :
                  /\ pinRetries' = np /\ pinTries' = np
                  /\ pukRetries' = nk /\ pukTries' = nk
             /\ pin' = DefaultPin /\ puk' = DefaultPuk
             /\ Finish("ok")
             /\ UNCHANGED <<mgmKey, touchReq, pivman, protKey, slotVars>>
    <3>1. /\ pinRetries' \in 1..MaxTries /\ pinTries' \in 0..MaxTries
          /\ pukRetries' \in 1..MaxTries /\ pukTries' \in 0..MaxTries
          /\ pin' \in Pins /\ puk' \in Puks
      BY <2>3, TokenAssumptions
    <3>2. pinOk' \in BOOLEAN /\ mgmOk' \in BOOLEAN
          /\ lastAuth' \in {"none", "pin", "mgm"}
      BY <2>3, FinishTypeOK DEF Outcomes
    <3>3. TokenTypeOK'
      BY <2>3, <3>1, <3>2 DEF TypeOK, TokenTypeOK, slotVars
    <3>4. fails' \in Nat
      BY <1>6 DEF SetPinRetries, TypeOK
    <3> QED
      BY <2>3, <3>3, <3>4, FinishTokenTypeOK DEF Outcomes
  <2> QED
    BY <1>6, <2>1, <2>2, <2>3 DEF SetPinRetries
<1>7. CASE ChangePin
  <2> PICK old, new \in Pins :
         \/ /\ ~(ValidPinLength(old) /\ ValidPinLength(new))
            /\ Finish("Failed")
            /\ UNCHANGED <<tokenVars, fails>>
         \/ /\ ValidPinLength(old) /\ ValidPinLength(new)
            /\ PinRejected(old)
            /\ Finish(AttemptsOutcome(Decrement(pinTries)))
            /\ UNCHANGED <<credVars, pukTries>>
         \/ /\ ValidPinLength(old) /\ ValidPinLength(new)
            /\ pinTries > 0 /\ old = pin
            /\ PivmanChangePin(old, new)
            /\ UNCHANGED fails
    BY <1>7 DEF ChangePin
  <2>1. CASE Finish("Failed") /\ UNCHANGED <<tokenVars, fails>>
    BY <2>1, FinishTypeOK, TokenUnchangedTypeOK DEF TypeOK, Outcomes
  <2>2. CASE /\ PinRejected(old)
             /\ Finish(AttemptsOutcome(Decrement(pinTries)))
             /\ UNCHANGED <<credVars, pukTries>>
    <3>1. AttemptsOutcome(Decrement(pinTries)) \in Outcomes
      BY DEF AttemptsOutcome, Outcomes
    <3>2. pinTries' \in 0..MaxTries /\ fails' \in Nat
      BY <2>2, PinRejectedTypeOK
    <3>3. pinOk' \in BOOLEAN /\ mgmOk' \in BOOLEAN
          /\ lastAuth' \in {"none", "pin", "mgm"}
      BY <2>2, <3>1, FinishTypeOK
    <3>4. TokenTypeOK'
      BY <2>2, <3>2, <3>3 DEF TypeOK, TokenTypeOK, credVars, slotVars
    <3> QED
      BY <2>2, <3>1, <3>2, <3>4, FinishTokenTypeOK
  <2>3. CASE /\ pinTries > 0 /\ old = pin
             /\ PivmanChangePin(old, new)
             /\ UNCHANGED fails
    <3>1. /\ pin' \in Pins /\ pinTries' \in 0..MaxTries
          /\ mgmKey' \in Keys /\ pivman' \in PivmanRecords
      <4>1. CASE HasDerivedKey(pivman) /\ Derive(old, pivman.salt) = mgmKey
        <5> PICK s \in Salts : /\ mgmKey' = Derive(new, s)
                               /\ pivman' = [pivman EXCEPT !.salt = s]
          BY <2>3, <4>1 DEF PivmanChangePin
        <5> QED
          BY <2>3 DEF PivmanChangePin, TypeOK, TokenTypeOK, Keys,
             PivmanRecords
      <4>2. CASE ~(HasDerivedKey(pivman) /\ Derive(old, pivman.salt) = mgmKey)
        BY <2>3, <4>2 DEF PivmanChangePin, TypeOK, TokenTypeOK
      <4> QED
        BY <4>1, <4>2
    <3>2. \E o \in Outcomes : Finish(o)
      BY <2>3 DEF PivmanChangePin, Outcomes
    <3> QED
      BY <2>3, <3>1, <3>2, FinishTypeOK
      DEF PivmanChangePin, TypeOK, TokenTypeOK, slotVars
  <2> QED
    BY <2>1, <2>2, <2>3
<1>8. CASE ChangePuk
  <2> PICK old, new \in Puks :
         \/ /\ PukRejected(old)
            /\ Finish(IF Decrement(pukTries) > 0 THEN "PukFailed"
                                                 ELSE "PukBlocked")
            /\ UNCHANGED puk
         \/ /\ pukTries > 0 /\ old = puk
            /\ puk' = new /\ pukTries' = pukRetries
            /\ Finish("ok")
            /\ UNCHANGED fails
    BY <1>8 DEF ChangePuk
  <2>1. CASE /\ PukRejected(old)
             /\ Finish(IF Decrement(pukTries) > 0 THEN "PukFailed"
                                                  ELSE "PukBlocked")
             /\ UNCHANGED puk
    <3>1. pukTries' \in 0..MaxTries /\ fails' \in Nat
      BY <2>1, PukRejectedTypeOK
    <3>2. (IF Decrement(pukTries) > 0 THEN "PukFailed" ELSE "PukBlocked")
            \in Outcomes
      BY DEF Outcomes
    <3>3. pinOk' \in BOOLEAN /\ mgmOk' \in BOOLEAN
          /\ lastAuth' \in {"none", "pin", "mgm"}
      BY <2>1, <3>2, FinishTypeOK
    <3>4. TokenTypeOK'
      BY <1>8, <2>1, <3>1, <3>3 DEF ChangePuk, TypeOK, TokenTypeOK, slotVars
    <3> QED
      BY <2>1, <3>1, <3>2, <3>4, FinishTokenTypeOK
  <2>2. CASE /\ pukTries > 0 /\ old = puk
             /\ puk' = new /\ pukTries' = pukRetries
             /\ Finish("ok")
             /\ UNCHANGED fails
    <3>1. pukTries' \in 0..MaxTries /\ fails' \in Nat
      <4>1. pukRetries \in 1..MaxTries /\ fails \in Nat
        BY DEF TypeOK, TokenTypeOK
      <4> QED
        BY <2>2, <4>1, TokenAssumptions
    <3>2. pinOk' \in BOOLEAN /\ mgmOk' \in BOOLEAN
          /\ lastAuth' \in {"none", "pin", "mgm"}
      BY <2>2, FinishTypeOK DEF Outcomes
    <3>3. TokenTypeOK'
      BY <1>8, <2>2, <3>1, <3>2 DEF ChangePuk, TypeOK, TokenTypeOK, slotVars
    <3> QED
      BY <2>2, <3>1, <3>3, FinishTokenTypeOK DEF Outcomes
  <2> QED
    BY <2>1, <2>2
<1>9. CASE UnblockPin
  <2> PICK u \in Puks, new \in Pins :
         \/ /\ ~ValidPinLength(new)
            /\ Finish("DeviceError")
            /\ UNCHANGED <<pin, pinTries, pukTries, fails>>
         \/ /\ ValidPinLength(new) /\ PukRejected(u)
            /\ Finish("DeviceError")
            /\ UNCHANGED <<pin, pinTries>>
         \/ /\ ValidPinLength(new) /\ pukTries > 0 /\ u = puk
            /\ pin' = new /\ pinTries' = pinRetries /\ pukTries' = pukRetries
            /\ Finish("ok")
            /\ UNCHANGED fails
    BY <1>9 DEF UnblockPin
  <2>1. CASE /\ ~ValidPinLength(new)
             /\ Finish("DeviceError")
             /\ UNCHANGED <<pin, pinTries, pukTries, fails>>
    <3>1. UNCHANGED <<tokenVars, fails>>
      BY <1>9, <2>1 DEF UnblockPin, tokenVars, credVars
    <3> QED
      BY <2>1, <3>1, FinishKeepTypeOK DEF Outcomes
  <2>2. CASE /\ PukRejected(u)
             /\ Finish("DeviceError")
             /\ UNCHANGED <<pin, pinTries>>
    <3>1. pukTries' \in 0..MaxTries /\ fails' \in Nat
      BY <2>2, PukRejectedTypeOK
    <3>2. pinOk' \in BOOLEAN /\ mgmOk' \in BOOLEAN
          /\ lastAuth' \in {"none", "pin", "mgm"}
      BY <2>2, FinishTypeOK DEF Outcomes
    <3>3. TokenTypeOK'
      BY <1>9, <2>2, <3>1, <3>2 DEF UnblockPin, TypeOK, TokenTypeOK, slotVars
    <3> QED
      BY <2>2, <3>1, <3>3, FinishTokenTypeOK DEF Outcomes
  <2>3. CASE /\ ValidPinLength(new) /\ pukTries > 0 /\ u = puk
             /\ pin' = new /\ pinTries' = pinRetries /\ pukTries' = pukRetries
             /\ Finish("ok")
             /\ UNCHANGED fails
    <3>1. /\ pinTries' \in 0..MaxTries /\ pukTries' \in 0..MaxTries
          /\ fails' \in Nat
      BY <2>3, TokenAssumptions DEF TypeOK, TokenTypeOK
    <3>2. pinOk' \in BOOLEAN /\ mgmOk' \in BOOLEAN
          /\ lastAuth' \in {"none", "pin", "mgm"}
      BY <2>3, FinishTypeOK DEF Outcomes
    <3>3. TokenTypeOK'
      BY <1>9, <2>3, <3>1, <3>2 DEF UnblockPin, TypeOK, TokenTypeOK, slotVars
    <3> QED
      BY <2>3, <3>1, <3>3, FinishTokenTypeOK DEF Outcomes
  <2> QED
    BY <2>1, <2>2, <2>3
<1>10. CASE Reset
  <2>1. CASE Finish("Aborted") /\ UNCHANGED tokenVars
    BY <1>10, <2>1, FinishTypeOK, TokenUnchangedTypeOK
    DEF Reset, TypeOK, Outcomes
  <2>2. CASE FactoryReset /\ Finish("ok")
    <3>1. /\ pin' \in Pins /\ puk' \in Puks
          /\ pinTries' \in 0..MaxTries /\ pukTries' \in 0..MaxTries
          /\ pinRetries' \in 1..MaxTries /\ pukRetries' \in 1..MaxTries
      BY <2>2, TokenAssumptions DEF FactoryReset
    <3>2. /\ mgmKey' \in Keys /\ touchReq' \in BOOLEAN
          /\ pivman' \in PivmanRecords /\ protKey' \in Keys \cup {NoKey}
      <4>1. mgmKey' \in Keys
        BY <2>2, UserKeysAreKeys DEF FactoryReset
      <4>2. pivman' \in PivmanRecords
        BY <2>2 DEF FactoryReset, PivmanRecords, DefaultPivman
      <4> QED
        BY <2>2, <4>1, <4>2 DEF FactoryReset
    <3>3. /\ pinOk' \in BOOLEAN /\ mgmOk' \in BOOLEAN
          /\ lastAuth' \in {"none", "pin", "mgm"}
      BY <2>2 DEF Finish
    <3>4. TokenTypeOK'
      BY <2>2, <3>1, <3>2, <3>3 DEF TokenTypeOK, FactoryReset, DataObjects
    <3> QED
      BY <1>10, <2>2, <3>4, FinishTypeOK DEF Reset, TypeOK, Outcomes
  <2> QED
    BY <1>10, <2>1, <2>2 DEF Reset
<1>11. CASE ChangeMgmKeyCheck
  <2> PICK nk \in {NoKey} \cup UserKeys, g \in BOOLEAN :
        LET conflict == nk # NoKey /\ g
            needPin == ~pinVerified /\ HasStoredKey(cache)
        IN \/ /\ conflict
              /\ Finish("Failed")
           \/ /\ ~conflict /\ needPin /\ argPin # NoPin
              /\ CmkGoto("verify", nk, g) /\ vret' = "cmk_new"
              /\ UNCHANGED <<pinVerified, statusVars>>
           \/ /\ ~conflict /\ needPin /\ argPin = NoPin /\ ~force
              /\ Finish("Aborted")
           \/ /\ ~conflict /\ ~(needPin /\ argPin # NoPin)
              /\ CmkGoto("cmk_new", nk, g)
              /\ UNCHANGED <<vret, pinVerified, statusVars>>
    BY <1>11 DEF ChangeMgmKeyCheck
  <2>1. TokenTypeOK'
    BY <1>11, TokenUnchangedTypeOK DEF ChangeMgmKeyCheck, Finish, TypeOK,
       TokenTypeOK, statusVars
  <2>2. \/ \E o \in Outcomes : Finish(o)
        \/ /\ \E l \in {"verify", "cmk_new"} : CmkGoto(l, nk, g)
           /\ vret' \in Labels /\ pinVerified' = pinVerified
    BY DEF Outcomes, Labels, TypeOK
  <2>3. CASE \E o \in Outcomes : Finish(o)
    BY <1>11, <2>1, <2>3, FinishTypeOK DEF ChangeMgmKeyCheck, TypeOK
  <2>4. CASE /\ \E l \in {"verify", "cmk_new"} : CmkGoto(l, nk, g)
             /\ vret' \in Labels /\ pinVerified' = pinVerified
    <3>1. fails' \in Nat
      BY <1>11 DEF ChangeMgmKeyCheck, TypeOK
    <3>2. /\ objectId' \in ObjectIds \cup {NoObject}
          /\ material' \in KeyPairs \cup {NoKeyPair}
          /\ verifyOpt' \in BOOLEAN /\ depth' \in 0..2
          /\ password' \in PasswordStates
      BY <2>4 DEF CmkGoto, TypeOK, dataVars
    <3>3. /\ pc' \in Labels /\ newKey' \in UserKeys \cup {NoKey}
          /\ generate' \in BOOLEAN
      BY <2>4 DEF CmkGoto, Labels
    <3>4. /\ cmd' \in AllCommands \cup {"none"}
          /\ cache' \in PivmanRecords
          /\ argPin' \in Pins \cup {NoPin}
          /\ argKey' \in UserKeys \cup {NoKey}
          /\ force' \in BOOLEAN /\ protect' \in BOOLEAN
          /\ pinVerified' \in BOOLEAN /\ outcome' \in Outcomes
      BY <2>4 DEF CmkGoto, TypeOK
    <3> QED
      BY <2>1, <2>4, <3>1, <3>2, <3>3, <3>4 DEF TypeOK
  <2> QED
    BY <2>2, <2>3, <2>4
<1>12. CASE ChangeMgmKeyApply
  <2>1. CASE Finish("Failed") /\ UNCHANGED tokenVars
    BY <1>12, <2>1, FinishTypeOK, TokenUnchangedTypeOK
    DEF ChangeMgmKeyApply, TypeOK, Outcomes
  <2>2. CASE \E k \in NewKeyChoices : PivmanSetMgmKey(k)
    <3> PICK k \in NewKeyChoices : PivmanSetMgmKey(k)
      BY <2>2
    <3>1. k \in Keys
      <4>1. newKey \in UserKeys \cup {NoKey}
        BY DEF TypeOK
      <4>2. k \in UserKeys \/ k \in RandomKeys
        BY <4>1 DEF NewKeyChoices
      <4> QED
        BY <4>2, UserKeysAreKeys DEF UserKeys
    <3>2. CASE Finish("Failed") /\ UNCHANGED tokenVars
      BY <1>12, <3>2, FinishTypeOK, TokenUnchangedTypeOK
      DEF ChangeMgmKeyApply, TypeOK, Outcomes
    <3>3. CASE /\ mgmKey' = k /\ touchReq' \in BOOLEAN
               /\ pivman' = [salt |-> NoSalt, stored |-> protect]
               /\ protKey' = IF protect THEN k
                             ELSE IF HasStoredKey(pivman) /\ pinOk THEN NoKey
                             ELSE protKey
               /\ Finish("ok")
               /\ UNCHANGED <<pin, puk, pinTries, pukTries, pinRetries,
                              pukRetries, slotVars>>
      <4>1. pinOk' \in BOOLEAN /\ mgmOk' \in BOOLEAN
            /\ lastAuth' \in {"none", "pin", "mgm"}
        BY <3>3, FinishTypeOK DEF Outcomes
      <4>2. pivman' \in PivmanRecords /\ protKey' \in Keys \cup {NoKey}
        BY <3>1, <3>3 DEF TypeOK, TokenTypeOK, PivmanRecords
      <4>3. TokenTypeOK'
        BY <3>1, <3>3, <4>1, <4>2 DEF TypeOK, TokenTypeOK, slotVars
      <4>4. fails' \in Nat
        BY <1>12 DEF ChangeMgmKeyApply, TypeOK
      <4> QED
        BY <3>3, <4>3, <4>4, FinishTokenTypeOK DEF Outcomes
    <3> QED
      BY <3>2, <3>3 DEF PivmanSetMgmKey
  <2> QED
    BY <1>12, <2>1, <2>2 DEF ChangeMgmKeyApply
<1>13. CASE UNCHANGED vars
  <2>1. TokenTypeOK' /\ fails' \in Nat
    BY <1>13, KeepTokenTypeOK DEF vars
  <2>2. UNCHANGED <<cmd, pc, vret, pinVerified, outcome, optVars, dataVars>>
    BY <1>13 DEF vars
  <2> QED
    BY <2>1, <2>2 DEF TypeOK, optVars, dataVars
<1> QED
  BY <1>1, <1>2, <1>3, <1>4, <1>5, <1>6, <1>7, <1>8, <1>9, <1>10, <1>11,
     <1>12, <1>13, <1>14, <1>15, <1>16, <1>17, <1>18, <1>19, <1>20, <1>21
  DEF Next, Step

(* Every reachable state of the CLI and the token is well-typed.          *)
THEOREM TypeCorrect == Spec => []TypeOK
  BY InitTypeOK, NextTypeOK, PTL DEF Spec

-----------------------------------------------------------------------------
(* No command uses up more than one PIN or PUK attempt.                    *)

(* The inductive form: rejections are counted only while a command runs, *)
(* and a rejection ends the command, so at most one is ever counted and    *)
(* none is pending once a command is under way.                            *)
RejectionInv ==
    /\ TypeOK
    /\ fails \in {0, 1}
    /\ pc # "idle" => fails = 0

(* Each step keeps RejectionInv: every rejection (PinRejected,           *)
(* PukRejected) comes with Finish, and Start clears the count.             *)
LEMMA NextRejectionInv == RejectionInv /\ [Next]_vars => RejectionInv'
<1> SUFFICES ASSUME RejectionInv, [Next]_vars PROVE RejectionInv'
  OBVIOUS
<1>1. TypeOK'
  BY NextTypeOK DEF RejectionInv
<1>2. CASE \E c \in Commands : Start(c)
  BY <1>1, <1>2 DEF Start, RejectionInv
<1>3. CASE Step
  <2>1. pc = "idle" => ~Step
    BY DEF Step, EnsureAuthenticated, VerifyPin, Authenticate, GenerateKey,
       SetPinRetries, ChangePin, ChangePuk, UnblockPin, Reset,
       ChangeMgmKeyCheck, ChangeMgmKeyApply, GenerateCertificate,
       RequestCertificate, ImportKey, Attest, ImportCertParse,
       ImportCertCheck, ImportCertCheckThen, ImportCertPut,
       ExportCertificate, DeleteCertificate, ReadObject, ReadObjectVia,
       WriteObject, GenerateObject
  <2>2. fails = 0
    BY <1>3, <2>1 DEF RejectionInv
  <2>3. fails' = fails \/ (fails' = fails + 1 /\ pc' = "idle")
    <3>1. CASE VerifyPin
      <4>1. ASSUME NEW p, PinFailure(p)
            PROVE  fails' = fails + 1 /\ pc' = "idle"
        BY <4>1 DEF PinFailure, PinRejected, Finish
      <4>2. ASSUME NEW p, PinAccepted(p) PROVE fails' = fails
        BY <4>2 DEF PinAccepted
      <4> QED
        BY <3>1, <4>1, <4>2 DEF VerifyPin
    <3>2. CASE ChangePin
      <4>1. ASSUME NEW old, NEW new, PivmanChangePin(old, new) PROVE pc' = "idle"
        BY <4>1 DEF PivmanChangePin, Finish
      <4> QED
        BY <3>2, <4>1 DEF ChangePin, PinRejected, Finish
    <3>3. CASE ChangePuk \/ UnblockPin
      BY <3>3 DEF ChangePuk, UnblockPin, PukRejected, Finish
    <3>4. CASE ChangeMgmKeyApply
      BY <3>4 DEF ChangeMgmKeyApply
    <3>5. CASE \/ EnsureAuthenticated \/ Authenticate \/ GenerateKey
               \/ SetPinRetries \/ Reset \/ ChangeMgmKeyCheck
               \/ GenerateCertificate \/ RequestCertificate
      BY <3>5 DEF EnsureAuthenticated, Authenticate, GenerateKey,
         SetPinRetries, Reset, ChangeMgmKeyCheck, GenerateCertificate,
         RequestCertificate
    <3>6. CASE \/ ImportKey \/ Attest \/ ImportCertParse \/ ImportCertCheck
               \/ ImportCertPut \/ ExportCertificate \/ DeleteCertificate
               \/ ReadObject \/ WriteObject \/ GenerateObject
      BY <3>6 DEF ImportKey, PasswordRetry, Attest, ImportCertParse,
         ImportCertCheck, ImportCertCheckThen, ImportCertPut, ExportCertificate,
         DeleteCertificate, ReadObject, ReadObjectVia, WriteObject,
         GenerateObject
    <3> QED
      BY <1>3, <3>1, <3>2, <3>3, <3>4, <3>5, <3>6 DEF Step
  <2> QED
    BY <1>1, <2>2, <2>3 DEF RejectionInv
<1>4. CASE UNCHANGED vars
  BY <1>1, <1>4 DEF RejectionInv, vars
<1> QED
  BY <1>2, <1>3, <1>4 DEF Next

(* A command submits at most one PIN or PUK the token rejects             *)
(* (_verify_pin, change-pin, change-puk, unblock-pin fail on the first    *)
(* InvalidPinError; none retries on the user's behalf).                    *)
THEOREM RejectionBound == Spec => []AtMostOneRejectedSubmission
<1>1. Init => RejectionInv
  BY InitTypeOK DEF Init, RejectionInv
<1>2. RejectionInv => AtMostOneRejectedSubmission
  BY DEF RejectionInv, AtMostOneRejectedSubmission
<1> QED
  BY <1>1, <1>2, NextRejectionInv, PTL DEF Spec

-----------------------------------------------------------------------------
(* _ensure_authenticated on a PIN-protected token.                         *)

(* The running command resolves access through the PIN of a protected    *)
(* token: it calls _ensure_authenticated, the cached pivman data shows a  *)
(* derived or stored key, and no -m key was given.                         *)
ThroughPin == cmd \in EnsureCmds /\ HasProtectedKey(cache) /\ argKey = NoKey

(* The inductive form of ResolvedProtectedAccess: such a command never    *)
(* reaches _authenticate, directly or as the return point of _verify_pin. *)
ResolveInv ==
    /\ TypeOK
    /\ ResolvedProtectedAccess
    /\ ThroughPin => pc # "auth" /\ vret # "auth"

(* The labels _ensure_authenticated returns to.                            *)
LEMMA AfterEnsureLabels ==
  ASSUME NEW c
  PROVE  AfterEnsure(c) \in {"gk_op", "sr_set", "cmk_check", "gc_sign",
                             "ik_put", "ci_parse", "cd_op", "wo_put",
                             "go_put"}
  BY DEF AfterEnsure

(* A command that ends is no longer resolving access.                      *)
LEMMA FinishEndsResolution ==
  ASSUME NEW o, Finish(o) PROVE ~ThroughPin'
  BY DEF Finish, ThroughPin, EnsureCmds

(* The steps that end their command in every branch.                       *)
LEMMA FinishingSteps ==
  ASSUME \/ GenerateKey \/ SetPinRetries \/ ChangePin \/ ChangePuk
         \/ UnblockPin \/ Reset \/ ChangeMgmKeyApply
         \/ GenerateCertificate \/ RequestCertificate
         \/ Attest \/ ExportCertificate \/ DeleteCertificate
         \/ WriteObject \/ GenerateObject
  PROVE  \E o : Finish(o)
<1>1. ASSUME NEW old, NEW new, PivmanChangePin(old, new) PROVE \E o : Finish(o)
  BY <1>1 DEF PivmanChangePin
<1>2. ASSUME NEW k, PivmanSetMgmKey(k) PROVE \E o : Finish(o)
  BY <1>2 DEF PivmanSetMgmKey
<1> QED
  BY <1>1, <1>2 DEF GenerateKey, SetPinRetries, ChangePin, ChangePuk,
     UnblockPin, Reset, ChangeMgmKeyApply, GenerateCertificate,
     RequestCertificate, Attest, ExportCertificate, DeleteCertificate,
     WriteObject, GenerateObject

(* Each step keeps ResolveInv.                                             *)
LEMMA NextResolveInv == ResolveInv /\ [Next]_vars => ResolveInv'
<1> SUFFICES ASSUME ResolveInv, [Next]_vars PROVE ResolveInv'
  OBVIOUS
<1>1. TypeOK'
  BY NextTypeOK DEF ResolveInv
<1> DEFINE Resolved == pinOk /\ mgmOk /\ lastAuth = "pin"
<1>2. SUFFICES /\ ThroughPin' /\ pc' = AfterEnsure(cmd') => Resolved'
               /\ ThroughPin' => pc' # "auth" /\ vret' # "auth"
  BY <1>1 DEF ResolveInv, ResolvedProtectedAccess, ThroughPin
<1>3. ResolvedProtectedAccess /\ (ThroughPin => pc # "auth" /\ vret # "auth")
  BY DEF ResolveInv
<1> Keep == UNCHANGED <<cmd, cache, argKey>>
<1>4. CASE \E c \in Commands : Start(c)
  <2> PICK c \in Commands : Start(c)
    BY <1>4
  <2> QED
    BY AfterEnsureLabels DEF Start, ThroughPin, EnsureCmds, FirstStep
<1>5. CASE EnsureAuthenticated
  <2>1. Keep
    BY <1>5 DEF EnsureAuthenticated, Goto, optVars
  <2>2. CASE ThroughPin
    <3>1. pc' = "verify" /\ vret' = AfterEnsure(cmd)
      BY <1>5, <2>2 DEF EnsureAuthenticated, Goto, ThroughPin
    <3> QED
      BY <3>1, AfterEnsureLabels
  <2> QED
    BY <2>1, <2>2 DEF ThroughPin
<1>6. CASE VerifyPin
  <2>1. CASE argPin = NoPin /\ force /\ Finish("PinRequired")
    BY <2>1, FinishEndsResolution
  <2>2. ASSUME NEW p, PinFailure(p) PROVE ~ThroughPin'
    BY <2>2, FinishEndsResolution DEF PinFailure
  <2>3. ASSUME NEW p, PinAccepted(p), ~HasProtectedKey(cache)
        PROVE  ~ThroughPin'
    BY <2>3 DEF PinAccepted, Goto, optVars, ThroughPin
  <2>4. ASSUME NEW p, PinAccepted(p), HasProtectedKey(cache)
        PROVE  /\ ThroughPin' /\ pc' = AfterEnsure(cmd') => Resolved'
               /\ ThroughPin' => pc' # "auth" /\ vret' # "auth"
    <3>1. ProtectedKeyAuth(p)
      BY <2>4 DEF PinAccepted
    <3> PICK touched \in TouchAnswers :
          LET key == IF HasDerivedKey(cache) THEN Derive(p, cache.salt)
                                             ELSE protKey
          IN  IF key = mgmKey /\ touched
                THEN /\ pinVerified' = TRUE /\ Goto(vret)
                     /\ pinOk' = TRUE /\ mgmOk' = TRUE /\ lastAuth' = "pin"
                     /\ UNCHANGED vret
                ELSE Finish("PinVerifyError")
      BY <3>1 DEF ProtectedKeyAuth
    <3>2. CASE /\ pinVerified' = TRUE /\ Goto(vret)
               /\ pinOk' = TRUE /\ mgmOk' = TRUE /\ lastAuth' = "pin"
               /\ UNCHANGED vret
      <4>1. Keep /\ pc' = vret
        BY <3>2 DEF Goto, optVars
      <4> QED
        BY <1>3, <3>2, <4>1 DEF ThroughPin
    <3>3. CASE Finish("PinVerifyError")
      BY <3>3, FinishEndsResolution
    <3> QED
      BY <3>2, <3>3
  <2> QED
    BY <1>6, <2>1, <2>2, <2>3, <2>4 DEF VerifyPin
<1>7. CASE Authenticate
  <2>1. CASE \E o : Finish(o)
    BY <2>1, FinishEndsResolution
  <2>2. CASE Goto(AfterEnsure(cmd))
    BY <1>3, <1>7, <2>2 DEF Authenticate, Goto, optVars, ThroughPin
  <2> QED
    BY <1>7, <2>1, <2>2 DEF Authenticate
<1>8. CASE ChangeMgmKeyCheck
  <2> PICK nk \in {NoKey} \cup UserKeys, g \in BOOLEAN :
        LET conflict == nk # NoKey /\ g
            needPin == ~pinVerified /\ HasStoredKey(cache)
        IN \/ /\ conflict
              /\ Finish("Failed")
           \/ /\ ~conflict /\ needPin /\ argPin # NoPin
              /\ CmkGoto("verify", nk, g) /\ vret' = "cmk_new"
              /\ UNCHANGED <<pinVerified, statusVars>>
           \/ /\ ~conflict /\ needPin /\ argPin = NoPin /\ ~force
              /\ Finish("Aborted")
           \/ /\ ~conflict /\ ~(needPin /\ argPin # NoPin)
              /\ CmkGoto("cmk_new", nk, g)
              /\ UNCHANGED <<vret, pinVerified, statusVars>>
    BY <1>8 DEF ChangeMgmKeyCheck
  <2>1. CASE \E o : Finish(o)
    BY <2>1, FinishEndsResolution
  <2>2. CASE /\ \E l \in {"verify", "cmk_new"} : CmkGoto(l, nk, g)
             /\ vret' \in {"cmk_new", vret}
    <3>1. Keep /\ pc' \in {"verify", "cmk_new"}
      BY <2>2 DEF CmkGoto
    <3> QED
      BY <1>3, <2>2, <3>1, AfterEnsureLabels DEF ThroughPin
  <2> QED
    BY <2>1, <2>2
<1>9. CASE \/ GenerateKey \/ SetPinRetries \/ ChangePin \/ ChangePuk
           \/ UnblockPin \/ Reset \/ ChangeMgmKeyApply
           \/ GenerateCertificate \/ RequestCertificate
           \/ Attest \/ ExportCertificate \/ DeleteCertificate
           \/ WriteObject \/ GenerateObject
  BY <1>9, FinishingSteps, FinishEndsResolution
<1>14. ASSUME PasswordRetry
       PROVE  /\ ThroughPin' /\ pc' = AfterEnsure(cmd') => Resolved'
              /\ ThroughPin' => pc' # "auth" /\ vret' # "auth"
  BY <1>3, <1>14 DEF PasswordRetry, optVars, statusVars, ThroughPin,
     ResolvedProtectedAccess
<1>15. CASE ImportKey
  <2>1. CASE PasswordRetry
    BY <2>1, <1>14
  <2>2. CASE \E o : Finish(o)
    BY <2>2, FinishEndsResolution
  <2> QED
    BY <1>15, <2>1, <2>2 DEF ImportKey
<1>10. CASE UNCHANGED vars
  BY <1>3, <1>10 DEF vars, optVars, statusVars, ThroughPin,
     ResolvedProtectedAccess, Resolved
<1>11. ASSUME Keep, vret' \in {vret, "ci_import", "ro_get"},
              pc' \in {"verify", "ci_import", "ci_put"}
       PROVE  /\ ThroughPin' /\ pc' = AfterEnsure(cmd') => Resolved'
              /\ ThroughPin' => pc' # "auth" /\ vret' # "auth"
  BY <1>3, <1>11, AfterEnsureLabels DEF ThroughPin
<1>12. CASE ImportCertParse \/ ImportCertCheck \/ ImportCertPut
  <2>0. CASE PasswordRetry
    BY <2>0, <1>14
  <2>1. CASE \E o : Finish(o)
    BY <2>1, FinishEndsResolution
  <2>2. CASE (~\E o : Finish(o)) /\ ~PasswordRetry
    <3>1. Keep /\ vret' \in {vret, "ci_import"}
          /\ pc' \in {"verify", "ci_import", "ci_put"}
      <4>1. CASE ImportCertParse
        <5>1. \E kp \in KeyPairs : ImportGoto("ci_import", kp, 1)
          BY <2>2, <4>1 DEF ImportCertParse
        <5> QED
          BY <5>1, <4>1 DEF ImportCertParse, ImportGoto, optVars
      <4>2. CASE ImportCertCheck \/ ImportCertPut
        BY <2>2, <4>2 DEF ImportCertCheck, ImportCertCheckThen,
           ImportCertPut, ImportGoto, Goto, optVars
      <4> QED
        BY <1>12, <4>1, <4>2
    <3> QED
      BY <3>1, <1>11
  <2> QED
    BY <2>0, <2>1, <2>2
<1>13. CASE ReadObject
  <2>1. CASE \E o : Finish(o)
    BY <2>1, FinishEndsResolution
  <2>2. CASE ~\E o : Finish(o)
    <3>1. Keep /\ vret' = "ro_get" /\ pc' = "verify"
      BY <1>13, <2>2 DEF ReadObject, ReadObjectVia, Goto, optVars
    <3> QED
      BY <3>1, <1>11
  <2> QED
    BY <2>1, <2>2
<1> QED
  BY <1>4, <1>5, <1>6, <1>7, <1>8, <1>9, <1>10, <1>12, <1>13, <1>15
  DEF Next, Step

(* On a PIN-protected token with no -m key, a command that called         *)
(* _ensure_authenticated resumes only with the PIN verified, the derived  *)
(* or stored management key authenticated, and the PIN verified last      *)
(* (the re-verify of _verify_pin, piv.py lines 1005-1013).                  *)
THEOREM ProtectedAccessResolved == Spec => []ResolvedProtectedAccess
<1>1. Init => ResolveInv
  BY InitTypeOK DEF Init, ResolveInv, ResolvedProtectedAccess, ThroughPin,
     EnsureCmds
<1>2. ResolveInv => ResolvedProtectedAccess
  BY DEF ResolveInv
<1> QED
  BY <1>1, <1>2, NextResolveInv, PTL DEF Spec

-----------------------------------------------------------------------------
(* The protected management key stays recoverable.                         *)

(* The commands that write the PIN or the PIN-protected object without    *)
(* the pivman helpers, and can strand a protected key: unblock-pin and     *)
(* set-retries set the PIN, objects import overwrites the stored key.      *)
UnmanagedCmds == {"unblock_pin", "set_retries", "write_object"}
UnmanagedSteps == {"unblock_pin", "sr_set", "wo_put"}

(* The inductive form of ProtectedKeyRecoverable when no such command is  *)
(* run: none is under way, and _verify_pin cannot return into one.         *)
KeyInv ==
    /\ TypeOK
    /\ ProtectedKeyRecoverable
    /\ cmd \in Commands \cup {"none"}
    /\ pc \notin UnmanagedSteps
    /\ vret \notin UnmanagedSteps


(* Each step keeps KeyInv when Commands leaves out those commands.         *)
LEMMA NextKeyInv ==
  ASSUME Commands \cap UnmanagedCmds = {}
  PROVE  KeyInv /\ [Next]_vars => KeyInv'
<1> SUFFICES ASSUME KeyInv, [Next]_vars PROVE KeyInv'
  OBVIOUS
<1>1. TypeOK'
  BY NextTypeOK DEF KeyInv
<1>2. /\ cmd' \in Commands \cup {"none"}
      /\ pc' \notin UnmanagedSteps
      /\ vret' \notin UnmanagedSteps
  <2>1. AfterEnsure(cmd) \notin UnmanagedSteps
    BY DEF KeyInv, UnmanagedCmds, UnmanagedSteps, AfterEnsure
  <2>2. CASE \E o : Finish(o)
    BY <2>2 DEF Finish, UnmanagedSteps
  <2>3. CASE \E c \in Commands : Start(c)
    BY <2>3, CommandsAssumption DEF Start, UnmanagedCmds, UnmanagedSteps,
       EnsureCmds, FirstStep, AllCommands, AccessCommands, DataCommands
  <2>4. CASE EnsureAuthenticated
    BY <2>1, <2>4 DEF EnsureAuthenticated, Goto, KeyInv, UnmanagedSteps
  <2>5. CASE VerifyPin
    <3>1. ASSUME NEW p, PinAccepted(p)
          PROVE  \/ cmd' = cmd /\ pc' = vret /\ vret' = vret
                 \/ \E o : Finish(o)
      BY <3>1 DEF PinAccepted, ProtectedKeyAuth, Goto
    <3>2. ASSUME NEW p, PinFailure(p) PROVE \E o : Finish(o)
      BY <3>2 DEF PinFailure
    <3>3. CASE cmd' = cmd /\ pc' = vret /\ vret' = vret
      BY <3>3 DEF KeyInv
    <3> QED
      BY <2>2, <2>5, <3>1, <3>2, <3>3 DEF VerifyPin
  <2>6. CASE Authenticate
    <3>1. CASE cmd' = cmd /\ pc' = AfterEnsure(cmd) /\ vret' = vret
      BY <2>1, <3>1 DEF KeyInv
    <3> QED
      BY <2>2, <2>6, <3>1 DEF Authenticate, Goto
  <2>7. CASE ChangeMgmKeyCheck
    BY <2>7 DEF ChangeMgmKeyCheck, CmkGoto, Finish, KeyInv, UnmanagedSteps
  <2>8. CASE \/ GenerateKey \/ SetPinRetries \/ ChangePin \/ ChangePuk
             \/ UnblockPin \/ Reset \/ ChangeMgmKeyApply
             \/ GenerateCertificate \/ RequestCertificate
             \/ Attest \/ ExportCertificate
             \/ DeleteCertificate \/ WriteObject \/ GenerateObject
    BY <2>8, FinishingSteps DEF Finish, UnmanagedSteps
  <2>9. CASE UNCHANGED vars
    BY <2>9 DEF vars, KeyInv
  <2>10. CASE \/ ImportKey \/ ImportCertParse \/ ImportCertCheck
              \/ ImportCertPut \/ ReadObject
    <3>1. CASE ~\E o : Finish(o)
      <4>1. /\ cmd' = cmd /\ vret' \in {vret, "ci_import", "ro_get"}
            /\ pc' \in {"verify", "ci_import", "ci_put", "ik_put", "ci_parse"}
        BY <2>10, <3>1 DEF ImportKey, PasswordRetry, ImportCertParse,
           ImportCertCheck,
           ImportCertCheckThen, ImportCertPut, ImportGoto, ReadObject,
           ReadObjectVia, Goto
      <4> QED
        BY <4>1 DEF KeyInv, UnmanagedSteps
    <3> QED
      BY <2>2, <3>1
  <2> QED
    BY <2>3, <2>4, <2>5, <2>6, <2>7, <2>8, <2>9, <2>10 DEF Next, Step
<1>3. ProtectedKeyRecoverable'
  <2> USE DEF KeyInv
  <2>1. CASE UNCHANGED <<pin, mgmKey, pivman, protKey>>
    BY <2>1 DEF ProtectedKeyRecoverable, HasDerivedKey, HasStoredKey
  <2>2. CASE ChangePin
    <3> PICK old, new \in Pins :
           \/ /\ ~(ValidPinLength(old) /\ ValidPinLength(new))
              /\ Finish("Failed")
              /\ UNCHANGED <<tokenVars, fails>>
           \/ /\ ValidPinLength(old) /\ ValidPinLength(new)
              /\ PinRejected(old)
              /\ Finish(AttemptsOutcome(Decrement(pinTries)))
              /\ UNCHANGED <<credVars, pukTries>>
           \/ /\ ValidPinLength(old) /\ ValidPinLength(new)
              /\ pinTries > 0 /\ old = pin
              /\ PivmanChangePin(old, new)
              /\ UNCHANGED fails
      BY <2>2 DEF ChangePin
    <3>1. CASE old = pin /\ PivmanChangePin(old, new)
      <4>1. CASE HasDerivedKey(pivman)
        <5>1. Derive(old, pivman.salt) = mgmKey
          BY <3>1, <4>1 DEF ProtectedKeyRecoverable
        <5>2. PICK s \in Salts : /\ mgmKey' = Derive(new, s)
                                 /\ pivman' = [pivman EXCEPT !.salt = s]
          BY <3>1, <4>1, <5>1 DEF PivmanChangePin
        <5>3. ~HasStoredKey(pivman')
          BY <4>1, <5>2 DEF ProtectedKeyRecoverable, TypeOK, TokenTypeOK,
             PivmanRecords, HasDerivedKey, HasStoredKey
        <5> QED
          BY <3>1, <5>2, <5>3, TokenAssumptions
          DEF PivmanChangePin, ProtectedKeyRecoverable, HasDerivedKey,
              TypeOK, TokenTypeOK, PivmanRecords
      <4>2. CASE ~HasDerivedKey(pivman)
        BY <3>1, <4>2 DEF PivmanChangePin, ProtectedKeyRecoverable,
           HasDerivedKey, HasStoredKey
      <4> QED
        BY <4>1, <4>2
    <3> QED
      BY <2>1, <3>1 DEF tokenVars, credVars
  <2>3. CASE ChangeMgmKeyApply
    <3>1. ASSUME NEW k, PivmanSetMgmKey(k)
          PROVE  ProtectedKeyRecoverable'
      <4>1. CASE UNCHANGED tokenVars
        BY <2>1, <4>1 DEF tokenVars, credVars
      <4>2. CASE /\ mgmKey' = k
                 /\ pivman' = [salt |-> NoSalt, stored |-> protect]
                 /\ protKey' = IF protect THEN k
                               ELSE IF HasStoredKey(pivman) /\ pinOk THEN NoKey
                               ELSE protKey
        <5>1. ~HasDerivedKey(pivman')
          BY <4>2, TokenAssumptions DEF HasDerivedKey
        <5>2. HasStoredKey(pivman') => protKey' = mgmKey'
          BY <4>2 DEF HasStoredKey
        <5> QED
          BY <5>1, <5>2 DEF ProtectedKeyRecoverable
      <4> QED
        BY <3>1, <4>1, <4>2 DEF PivmanSetMgmKey
    <3> QED
      BY <2>1, <2>3, <3>1 DEF ChangeMgmKeyApply, tokenVars, credVars
  <2>4. CASE Reset
    <3>1. CASE UNCHANGED tokenVars
      BY <2>1, <3>1 DEF tokenVars, credVars
    <3>2. CASE FactoryReset
      <4>1. pivman' = [salt |-> NoSalt, stored |-> FALSE]
        BY <3>2 DEF FactoryReset, DefaultPivman
      <4> QED
        BY <4>1, TokenAssumptions
        DEF ProtectedKeyRecoverable, HasDerivedKey, HasStoredKey
    <3> QED
      BY <2>4, <3>1, <3>2 DEF Reset
  <2>5. CASE SetPinRetries \/ UnblockPin \/ WriteObject
    BY <2>5 DEF SetPinRetries, UnblockPin, WriteObject, UnmanagedSteps
  <2>6. CASE \/ \E c \in Commands : Start(c)
             \/ EnsureAuthenticated \/ VerifyPin \/ Authenticate
             \/ GenerateKey \/ ChangePuk \/ ChangeMgmKeyCheck
             \/ GenerateCertificate \/ RequestCertificate
             \/ UNCHANGED vars
    BY <2>1, <2>6 DEF Start, EnsureAuthenticated, VerifyPin, Authenticate,
       GenerateKey, ChangePuk, ChangeMgmKeyCheck, GenerateCertificate,
       RequestCertificate, vars, tokenVars, credVars
  <2>7. CASE \/ ImportKey \/ Attest \/ ImportCertParse \/ ImportCertCheck
             \/ ImportCertPut \/ ExportCertificate \/ DeleteCertificate
             \/ ReadObject \/ GenerateObject
    BY <2>1, <2>7 DEF ImportKey, PasswordRetry, Attest, ImportCertParse,
       ImportCertCheck,
       ImportCertCheckThen, ImportCertPut, ExportCertificate,
       DeleteCertificate, ReadObject, ReadObjectVia, GenerateObject,
       tokenVars, credVars
  <2> QED
    BY <2>2, <2>3, <2>4, <2>5, <2>6, <2>7 DEF Next, Step
<1> QED
  BY <1>1, <1>2, <1>3 DEF KeyInv

(* While no command sets the PIN outside pivman_change_pin, the token's  *)
(* protection mode stays usable: a derived key is the one derived from    *)
(* the current PIN and salt, a stored key is the management key, and the  *)
(* modes exclude each other (pivman_change_pin, pivman_set_mgm_key,        *)
(* reset).                                                                 *)
THEOREM KeyRecoverable ==
  ASSUME Commands \cap UnmanagedCmds = {}
  PROVE  Spec => []ProtectedKeyRecoverable
<1>1. Init => KeyInv
  <2> SUFFICES ASSUME Init PROVE KeyInv
    OBVIOUS
  <2>1. ProtectedKeyRecoverable
    <3>1. CASE pivman = DefaultPivman
      BY <3>1 DEF ProtectedKeyRecoverable, HasDerivedKey, HasStoredKey,
         DefaultPivman
    <3>2. CASE \E s \in Salts : /\ pivman = [salt |-> s, stored |-> FALSE]
                               /\ mgmKey = Derive(pin, s)
      <4> PICK s \in Salts : /\ pivman = [salt |-> s, stored |-> FALSE]
                            /\ mgmKey = Derive(pin, s)
        BY <3>2
      <4> QED
        BY DEF ProtectedKeyRecoverable, HasDerivedKey, HasStoredKey
    <3>3. CASE pivman = [salt |-> NoSalt, stored |-> TRUE] /\ protKey = mgmKey
      BY <3>3 DEF ProtectedKeyRecoverable, HasDerivedKey, HasStoredKey
    <3> QED
      BY <3>1, <3>2, <3>3 DEF Init, TokenInit
  <2> QED
    BY <2>1, InitTypeOK DEF Init, KeyInv, UnmanagedSteps
<1>2. KeyInv => ProtectedKeyRecoverable
  BY DEF KeyInv
<1> QED
  BY <1>1, <1>2, NextKeyInv, PTL DEF Spec

=============================================================================
