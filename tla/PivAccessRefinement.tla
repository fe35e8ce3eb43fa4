------------------------- MODULE PivAccessRefinement -------------------------
(***************************************************************************)
(* Proof that PivAccess implements AccessResolution under the refinement  *)
(* mapping AR of PivAccess: every command that calls                       *)
(* _ensure_authenticated first resolves, in one step, to at least the     *)
(* factors its protection mode and options need, then only gains factors  *)
(* until it ends.                                                          *)
(***************************************************************************)
EXTENDS PivAccessProofs

(* The inductive invariant.  Outside a command no command is recorded;    *)
(* _verify_pin always has a place to return to, never a helper;           *)
(* _authenticate returns to the caller.  While a command resolves,        *)
(* _verify_pin returns to _authenticate or to the caller, on a protected  *)
(* token always to the caller and never through _authenticate without -m, *)
(* on an unprotected token always to _authenticate; and a caller that     *)
(* requires both factors on an unprotected token reaches _authenticate    *)
(* with the PIN verified.                                                  *)
RefineInv ==
    /\ TypeOK
    /\ pc = "idle" => cmd = "none"
    /\ vret \notin {"ensure", "verify"}
    /\ pc = "ensure" => vret = "idle"
    /\ pc = "verify" => vret # "idle"
    /\ pc = "auth" => vret \in {"auth", AfterEnsure(cmd)}
    /\ ResolutionPhase = "resolving" =>
         /\ pc = "verify" => vret \in {"auth", AfterEnsure(cmd)}
         /\ HasProtectedKey(cache) => vret \in {"idle", AfterEnsure(cmd)}
         /\ ThroughPin => pc # "auth"
         /\ ~HasProtectedKey(cache) => vret \in {"idle", "auth"}
         /\ ~HasProtectedKey(cache) /\ RequirePinAndKey /\ pc = "auth"
              => pinOk

(* The labels of the three helpers.                                        *)
Helpers == {"ensure", "verify", "auth"}

(* The step leaves the caller's command and the options the resolver      *)
(* reads as they are.                                                      *)
KeepCaller == UNCHANGED <<cmd, cache, argKey, protect>>

(* The session's authentication status only grows.                         *)
StatusGrows == (pinOk => pinOk') /\ (mgmOk => mgmOk')

-----------------------------------------------------------------------------
(* The abstract steps, from the phases of a concrete step.                 *)

(* Outside a resolving command the mapping is constant.                    *)
LEMMA IdleStutter ==
  ASSUME ResolutionPhase = "idle", ResolutionPhase' = "idle"
  PROVE  UNCHANGED AR!vars
  BY DEF AR!vars

(* While the resolver runs, nothing of the mapping changes.                *)
LEMMA ResolvingStutter ==
  ASSUME ResolutionPhase = "resolving", ResolutionPhase' = "resolving",
         KeepCaller
  PROVE  UNCHANGED AR!vars
  BY DEF AR!vars, KeepCaller, RequirePinAndKey

(* A resolved command that keeps its options and loses no factor gains.    *)
LEMMA ResolvedGain ==
  ASSUME ResolutionPhase = "resolved", ResolutionPhase' = "resolved",
         KeepCaller, StatusGrows
  PROVE  AR!Gain
  <1>1. HeldFactors \subseteq HeldFactors' /\ HeldFactors' \in SUBSET AR!Factors
    BY DEF HeldFactors, StatusGrows, AR!Factors
  <1> QED
    BY <1>1 DEF AR!Gain, KeepCaller, RequirePinAndKey

(* A step that ends a command that had asked the resolver for access.      *)
LEMMA EndStep ==
  ASSUME ResolutionPhase # "idle", ResolutionPhase' = "idle"
  PROVE  AR!End
  BY DEF AR!End

(* The resolver returns to its caller with what the caller needs.         *)
LEMMA ResolveStep ==
  ASSUME ResolutionPhase = "resolving", ResolutionPhase' = "resolved",
         KeepCaller,
         AR!Needed(HasProtectedKey(cache), argKey # NoKey, RequirePinAndKey)
           \subseteq HeldFactors',
         HasProtectedKey(cache) /\ argKey = NoKey => lastAuth' = "pin"
  PROVE  AR!Resolve
  <1>1. HeldFactors' \in SUBSET AR!Factors
    BY DEF HeldFactors, AR!Factors
  <1>2. (lastAuth' = "pin") \in BOOLEAN
    OBVIOUS
  <1>3. \E g \in SUBSET AR!Factors, l \in BOOLEAN :
          /\ AR!Needed(HasProtectedKey(cache), argKey # NoKey,
                       RequirePinAndKey) \subseteq g
          /\ HasProtectedKey(cache) /\ argKey = NoKey => l
          /\ HeldFactors' = g /\ (lastAuth' = "pin") = l
    BY <1>1, <1>2
  <1>4. /\ (IF ResolutionPhase = "resolved" THEN HeldFactors ELSE {})'
           = HeldFactors'
        /\ (ResolutionPhase = "resolved" /\ lastAuth = "pin")'
           = (lastAuth' = "pin")
    OBVIOUS
  <1>5. RequirePinAndKey' = RequirePinAndKey
    BY DEF KeepCaller, RequirePinAndKey
  <1>6. UNCHANGED <<ResolutionPhase # "idle" /\ HasProtectedKey(cache),
                   ResolutionPhase # "idle" /\ argKey # NoKey,
                   ResolutionPhase # "idle" /\ RequirePinAndKey>>
    BY <1>5 DEF KeepCaller, HasProtectedKey
  <1>7. \E g \in SUBSET AR!Factors, l \in BOOLEAN :
          /\ AR!Needed(ResolutionPhase # "idle" /\ HasProtectedKey(cache),
                       ResolutionPhase # "idle" /\ argKey # NoKey,
                       ResolutionPhase # "idle" /\ RequirePinAndKey)
               \subseteq g
          /\ ResolutionPhase # "idle" /\ HasProtectedKey(cache)
             /\ ~(ResolutionPhase # "idle" /\ argKey # NoKey) => l
          /\ (IF ResolutionPhase = "resolved" THEN HeldFactors ELSE {})' = g
          /\ (ResolutionPhase = "resolved" /\ lastAuth = "pin")' = l
    <2>1. ResolutionPhase # "idle"
      OBVIOUS
    <2> QED
      BY <1>3, <1>4, <2>1 DEF AR!Needed
  <1> QED
    BY <1>6, <1>7 DEF AR!Resolve

(* A step that leaves the resolver, neither starting nor resolving a      *)
(* command.                                                                *)
LEMMA MoveRefines ==
  ASSUME ResolutionPhase # "resolving", ResolutionPhase' # "resolving",
         KeepCaller, StatusGrows
  PROVE  [AR!Next]_AR!vars
  <1>1. CASE cmd \in EnsureCmds
    <2>1. ResolutionPhase = "resolved" /\ ResolutionPhase' = "resolved"
      BY <1>1 DEF ResolutionPhase, KeepCaller
    <2> QED
      BY <2>1, ResolvedGain DEF AR!Next
  <1>2. CASE cmd \notin EnsureCmds
    BY <1>2, IdleStutter DEF ResolutionPhase, KeepCaller
  <1> QED
    BY <1>1, <1>2

(* A step that ends the running command, whatever it was.                  *)
LEMMA FinishRefines ==
  ASSUME NEW o, Finish(o) PROVE [AR!Next]_AR!vars
  <1>1. ResolutionPhase' = "idle"
    BY DEF Finish, ResolutionPhase, EnsureCmds
  <1> QED
    BY <1>1, IdleStutter, EndStep DEF AR!Next

-----------------------------------------------------------------------------
(* RefineInv is inductive.                                                 *)

(* A state that is not inside the resolver: no helper runs, or             *)
(* _verify_pin runs for a command after its resolution, or for a command  *)
(* that does not call _ensure_authenticated.                               *)
LEMMA OutsideResolver ==
  ASSUME TypeOK', pc' = "idle" => cmd' = "none",
         vret' \notin {"ensure", "verify"}, pc' \notin {"ensure", "auth"},
         pc' = "verify" => vret' \in {"cmk_new", "ci_import", "ro_get", "csr_sign"}
  PROVE  RefineInv'
  <1>1. AfterEnsure(cmd') \notin {"cmk_new", "ci_import", "ro_get", "csr_sign",
                                  "idle", "auth"}
    BY AfterEnsureLabels
  <1>2. ResolutionPhase' # "resolving"
    BY <1>1 DEF ResolutionPhase
  <1> QED
    BY <1>2 DEF RefineInv

(* Every step keeps RefineInv.                                             *)
LEMMA NextRefineInv == RefineInv /\ [Next]_vars => RefineInv'
<1> SUFFICES ASSUME RefineInv, [Next]_vars PROVE RefineInv'
  OBVIOUS
<1>1. TypeOK'
  BY NextTypeOK DEF RefineInv
<1>2. ASSUME NEW o, Finish(o) PROVE RefineInv'
  BY <1>1, <1>2, OutsideResolver DEF Finish
<1>3. CASE \E c \in Commands : Start(c)
  <2> PICK c \in Commands : Start(c)
    BY <1>3
  <2>1. CASE c \in EnsureCmds
    <3>1. pc' = "ensure" /\ vret' = "idle" /\ cmd' = c
      BY <2>1 DEF Start, FirstStep, EnsureCmds
    <3> QED
      BY <1>1, <3>1 DEF RefineInv, ThroughPin
  <2>2. CASE c \notin EnsureCmds
    <3>1. /\ pc' \notin {"idle", "ensure", "auth"}
          /\ pc' = "verify" => vret' = "csr_sign"
          /\ vret' \in {"idle", "csr_sign"}
      BY <2>2, CommandsAssumption
      DEF Start, FirstStep, AllCommands, AccessCommands, DataCommands
    <3> QED
      BY <1>1, <3>1, OutsideResolver
  <2> QED
    BY <2>1, <2>2
<1>4. CASE EnsureAuthenticated
  <2>1. /\ pc = "ensure" /\ vret = "idle" /\ UNCHANGED <<cmd, cache, argKey, protect>>
        /\ UNCHANGED statusVars
    BY <1>4 DEF EnsureAuthenticated, RefineInv, Goto, optVars
  <2>2. CASE cmd \in EnsureCmds
    <3>1. ResolutionPhase' = "resolving"
      BY <1>4, <2>2, AfterEnsureLabels DEF EnsureAuthenticated, Goto,
         ResolutionPhase
    <3>2. CASE HasProtectedKey(cache)
      <4>1. /\ vret' = AfterEnsure(cmd)
            /\ pc' = IF argKey = NoKey THEN "verify" ELSE "auth"
        BY <1>4, <3>2 DEF EnsureAuthenticated, Goto
      <4> QED
        BY <1>1, <2>1, <3>1, <3>2, <4>1, AfterEnsureLabels
        DEF RefineInv, ThroughPin, RequirePinAndKey
    <3>3. CASE ~HasProtectedKey(cache)
      <4>1. /\ vret' = "auth"
            /\ pc' = IF RequirePinAndKey THEN "verify" ELSE "auth"
        BY <1>4, <3>3 DEF EnsureAuthenticated, Goto
      <4> QED
        BY <1>1, <2>1, <3>1, <3>3, <4>1 DEF RefineInv, ThroughPin,
           RequirePinAndKey
    <3> QED
      BY <3>2, <3>3
  <2>3. CASE cmd \notin EnsureCmds
    <3>1. ResolutionPhase' = "idle"
      BY <2>1, <2>3 DEF ResolutionPhase
    <3>2. /\ vret' \in {"auth", AfterEnsure(cmd)}
          /\ pc' \in {"verify", "auth"}
      BY <1>4 DEF EnsureAuthenticated, Goto
    <3> QED
      BY <1>1, <2>1, <3>1, <3>2, AfterEnsureLabels DEF RefineInv
  <2> QED
    BY <2>2, <2>3
<1>5. CASE VerifyPin
  <2>1. ASSUME NEW p, PinAccepted(p), ~\E o : Finish(o)
        PROVE  RefineInv'
    <3>1. /\ pc' = vret /\ vret' = vret /\ pinOk'
          /\ UNCHANGED <<cmd, cache, argKey, protect>>
      BY <2>1 DEF PinAccepted, ProtectedKeyAuth, Goto, optVars
    <3>2. CASE vret = "auth"
      <4>1. cmd \in EnsureCmds => ResolutionPhase = "resolving"
        BY <1>5, <3>2 DEF VerifyPin, ResolutionPhase
      <4>2. cmd \in EnsureCmds => ~HasProtectedKey(cache)
        BY <3>2, <4>1, AfterEnsureLabels DEF RefineInv
      <4> QED
        BY <1>1, <3>1, <3>2, <4>2, AfterEnsureLabels
        DEF RefineInv, ThroughPin, ResolutionPhase, RequirePinAndKey
    <3>3. CASE vret # "auth"
      BY <1>1, <1>5, <3>1, <3>3, OutsideResolver DEF VerifyPin, RefineInv
    <3> QED
      BY <3>2, <3>3
  <2>2. ASSUME NEW p, PinFailure(p) PROVE RefineInv'
    BY <1>2, <2>2 DEF PinFailure
  <2> QED
    BY <1>2, <1>5, <2>1, <2>2 DEF VerifyPin
<1>6. CASE Authenticate
  <2>1. CASE ~\E o : Finish(o)
    <3>1. pc' = AfterEnsure(cmd) /\ vret' = vret /\ cmd' = cmd
      BY <1>6, <2>1 DEF Authenticate, Goto
    <3> QED
      BY <1>1, <3>1, AfterEnsureLabels, OutsideResolver DEF RefineInv
  <2> QED
    BY <1>2, <2>1
<1>7. CASE \/ ChangeMgmKeyCheck \/ ImportKey \/ ImportCertParse
           \/ ImportCertCheck \/ ImportCertPut \/ ReadObject
  <2>1. CASE ~\E o : Finish(o)
    <3>1. /\ pc' \in {"verify", "cmk_new", "ik_put", "ci_parse", "ci_import",
                     "ci_put"}
          /\ pc' = "verify" => vret' \in {"cmk_new", "ci_import", "ro_get"}
          /\ vret' \in {vret, "cmk_new", "ci_import", "ro_get"}
      BY <1>7, <2>1 DEF ChangeMgmKeyCheck, CmkGoto, ImportKey, PasswordRetry,
         ImportCertParse,
         ImportCertCheck, ImportCertCheckThen, ImportCertPut, ImportGoto,
         ReadObject, ReadObjectVia, Goto
    <3> QED
      BY <1>1, <3>1, OutsideResolver DEF RefineInv
  <2> QED
    BY <1>2, <2>1
<1>8. CASE \/ GenerateKey \/ SetPinRetries \/ ChangePin \/ ChangePuk
           \/ UnblockPin \/ Reset \/ ChangeMgmKeyApply
           \/ GenerateCertificate \/ RequestCertificate
           \/ Attest \/ ExportCertificate \/ DeleteCertificate
           \/ WriteObject \/ GenerateObject
  BY <1>2, <1>8, FinishingSteps
<1>9. CASE UNCHANGED vars
  BY <1>1, <1>9 DEF RefineInv, vars, optVars, statusVars, ResolutionPhase,
     ThroughPin, RequirePinAndKey
<1> QED
  BY <1>3, <1>4, <1>5, <1>6, <1>7, <1>8, <1>9 DEF Next, Step

-----------------------------------------------------------------------------
(* Every step of PivAccess is a step of AccessResolution or leaves its     *)
(* state as it is.                                                          *)

(* A step that moves to a state outside the resolver.                      *)
LEMMA NotResolvingAfter ==
  ASSUME pc' \notin {"ensure", "auth"},
         pc' = "verify" => vret' \in {"cmk_new", "ci_import", "ro_get", "csr_sign"}
  PROVE  ResolutionPhase' # "resolving"
  <1>1. AfterEnsure(cmd') \notin {"cmk_new", "ci_import", "ro_get", "csr_sign",
                                  "idle", "auth"}
    BY AfterEnsureLabels
  <1> QED
    BY <1>1 DEF ResolutionPhase

LEMMA StepRefines == RefineInv /\ [Next]_vars => [AR!Next]_AR!vars
<1> SUFFICES ASSUME RefineInv, [Next]_vars PROVE [AR!Next]_AR!vars
  OBVIOUS
<1>1. ASSUME NEW o, Finish(o) PROVE [AR!Next]_AR!vars
  BY <1>1, FinishRefines
<1>2. CASE \E c \in Commands : Start(c)
  <2> PICK c \in Commands : Start(c)
    BY <1>2
  <2>1. ResolutionPhase = "idle"
    BY DEF Start, RefineInv, ResolutionPhase, EnsureCmds
  <2>2. CASE c \in EnsureCmds
    <3>1. ResolutionPhase' = "resolving"
      <4>1. pc' = "ensure" /\ vret' = "idle" /\ cmd' \in EnsureCmds
        BY <2>2 DEF Start, FirstStep, EnsureCmds
      <4> QED
        BY <4>1 DEF ResolutionPhase
    <3> QED
      BY <2>1, <3>1 DEF AR!Next, AR!Request
  <2>3. CASE c \notin EnsureCmds
    <3>1. ResolutionPhase' = "idle"
      BY <2>3 DEF Start, ResolutionPhase
    <3> QED
      BY <2>1, <3>1, IdleStutter
  <2> QED
    BY <2>2, <2>3
<1>3. CASE EnsureAuthenticated
  <2>1. KeepCaller /\ pc = "ensure" /\ vret = "idle"
        /\ pc' \in {"verify", "auth"} /\ vret' \in {"auth", AfterEnsure(cmd)}
    BY <1>3 DEF EnsureAuthenticated, Goto, optVars, KeepCaller, RefineInv
  <2>2. CASE cmd \in EnsureCmds
    <3>1. ResolutionPhase = "resolving" /\ ResolutionPhase' = "resolving"
      BY <2>1, <2>2 DEF ResolutionPhase, KeepCaller
    <3> QED
      BY <2>1, <3>1, ResolvingStutter
  <2>3. CASE cmd \notin EnsureCmds
    BY <2>1, <2>3, IdleStutter DEF ResolutionPhase, KeepCaller
  <2> QED
    BY <2>2, <2>3
<1>4. CASE VerifyPin
  <2>1. ASSUME NEW p, PinAccepted(p), ~\E o : Finish(o)
        PROVE  [AR!Next]_AR!vars
    <3>1. /\ pc' = vret /\ vret' = vret /\ pc = "verify" /\ pinOk'
          /\ KeepCaller /\ StatusGrows
      BY <1>4, <2>1 DEF VerifyPin, PinAccepted, ProtectedKeyAuth, Goto,
         optVars, KeepCaller, StatusGrows
    <3>2. CASE cmd \notin EnsureCmds
      BY <3>1, <3>2, IdleStutter DEF ResolutionPhase, KeepCaller
    <3>3. CASE cmd \in EnsureCmds /\ vret = "auth"
      <4>1. ResolutionPhase = "resolving" /\ ResolutionPhase' = "resolving"
        BY <3>1, <3>3 DEF ResolutionPhase, KeepCaller
      <4> QED
        BY <3>1, <4>1, ResolvingStutter
    <3>4. CASE cmd \in EnsureCmds /\ vret = AfterEnsure(cmd)
      <4>1. ResolutionPhase = "resolving" /\ ResolutionPhase' = "resolved"
        BY <3>1, <3>4, AfterEnsureLabels DEF ResolutionPhase, KeepCaller
      <4>2. HasProtectedKey(cache)
        BY <3>4, <4>1, AfterEnsureLabels DEF RefineInv
      <4>3. mgmOk' /\ lastAuth' = "pin"
        BY <2>1, <4>2 DEF PinAccepted, ProtectedKeyAuth
      <4>4. HeldFactors' = AR!Factors
        BY <3>1, <4>3 DEF HeldFactors, AR!Factors
      <4>5. AR!Needed(HasProtectedKey(cache), argKey # NoKey, RequirePinAndKey)
              \subseteq HeldFactors'
        BY <4>4 DEF AR!Needed, AR!Factors
      <4> QED
        BY <3>1, <4>1, <4>3, <4>5, ResolveStep DEF AR!Next
    <3>5. CASE cmd \in EnsureCmds /\ vret \notin {"auth", AfterEnsure(cmd)}
      <4>1. ResolutionPhase = "resolved" /\ ResolutionPhase' = "resolved"
        <5>1. vret \notin {"idle", "ensure", "verify", "auth", AfterEnsure(cmd)}
          BY <3>1, <3>5 DEF RefineInv
        <5> QED
          BY <3>1, <3>5, <5>1 DEF ResolutionPhase, KeepCaller
      <4> QED
        BY <3>1, <4>1, MoveRefines
    <3> QED
      BY <3>2, <3>3, <3>4, <3>5
  <2>2. ASSUME NEW p, PinFailure(p) PROVE [AR!Next]_AR!vars
    BY <1>1, <2>2 DEF PinFailure
  <2> QED
    BY <1>1, <1>4, <2>1, <2>2 DEF VerifyPin
<1>5. CASE Authenticate
  <2>1. CASE ~\E o : Finish(o)
    <3>1. /\ pc = "auth" /\ pc' = AfterEnsure(cmd) /\ KeepCaller
          /\ mgmOk' /\ pinOk' = pinOk /\ lastAuth' = "mgm"
      BY <1>5, <2>1 DEF Authenticate, Goto, optVars, KeepCaller
    <3>2. CASE cmd \in EnsureCmds
      <4>1. ResolutionPhase = "resolving" /\ ResolutionPhase' = "resolved"
        BY <3>1, <3>2, AfterEnsureLabels DEF ResolutionPhase, RefineInv,
           KeepCaller
      <4>2. ~(HasProtectedKey(cache) /\ argKey = NoKey)
        BY <3>1, <3>2, <4>1 DEF RefineInv, ThroughPin
      <4>3. ~HasProtectedKey(cache) /\ RequirePinAndKey => pinOk
        BY <3>1, <4>1 DEF RefineInv
      <4>4. AR!Needed(HasProtectedKey(cache), argKey # NoKey, RequirePinAndKey)
              \subseteq HeldFactors'
        BY <3>1, <4>2, <4>3 DEF AR!Needed, AR!Factors, HeldFactors
      <4> QED
        BY <3>1, <4>1, <4>2, <4>4, ResolveStep DEF AR!Next
    <3>3. CASE cmd \notin EnsureCmds
      BY <3>1, <3>3, IdleStutter DEF ResolutionPhase, KeepCaller
    <3> QED
      BY <3>2, <3>3
  <2> QED
    BY <1>1, <2>1
<1>6. CASE \/ ChangeMgmKeyCheck \/ ImportKey \/ ImportCertParse
           \/ ImportCertCheck \/ ImportCertPut \/ ReadObject
  <2>1. CASE ~\E o : Finish(o)
    <3>1. /\ pc \in {"cmk_check", "ik_put", "ci_parse", "ci_import", "ci_put",
                    "ro_get"}
          /\ pc' \in {"verify", "cmk_new", "ik_put", "ci_parse", "ci_import",
                     "ci_put"}
          /\ pc' = "verify" => vret' \in {"cmk_new", "ci_import", "ro_get"}
          /\ KeepCaller /\ UNCHANGED statusVars
      BY <1>6, <2>1 DEF ChangeMgmKeyCheck, CmkGoto, ImportKey, PasswordRetry,
         ImportCertParse,
         ImportCertCheck, ImportCertCheckThen, ImportCertPut, ImportGoto,
         ReadObject, ReadObjectVia, Goto, optVars, KeepCaller
    <3>2. ResolutionPhase # "resolving" /\ ResolutionPhase' # "resolving"
      BY <3>1, NotResolvingAfter DEF ResolutionPhase
    <3> QED
      BY <3>1, <3>2, MoveRefines DEF StatusGrows, statusVars
  <2> QED
    BY <1>1, <2>1
<1>7. CASE \/ GenerateKey \/ SetPinRetries \/ ChangePin \/ ChangePuk
           \/ UnblockPin \/ Reset \/ ChangeMgmKeyApply
           \/ GenerateCertificate \/ RequestCertificate
           \/ Attest \/ ExportCertificate \/ DeleteCertificate
           \/ WriteObject \/ GenerateObject
  BY <1>1, <1>7, FinishingSteps
<1>8. CASE UNCHANGED vars
  BY <1>8 DEF vars, optVars, statusVars, AR!vars, ResolutionPhase,
     HeldFactors, RequirePinAndKey
<1> QED
  BY <1>2, <1>3, <1>4, <1>5, <1>6, <1>7, <1>8 DEF Next, Step

(* PivAccess implements AccessResolution: the access every command that   *)
(* calls _ensure_authenticated obtains is what the protection mode and     *)
(* its options call for (piv.py lines 975-1040), with the PIN last on a   *)
(* protected token, and no factor is lost before the command ends.        *)
THEOREM Refinement == Spec => ResolutionRefined
<1>1. Init => RefineInv
  BY InitTypeOK DEF Init, RefineInv, ResolutionPhase, EnsureCmds
<1>2. Init => AR!Init
  BY DEF Init, AR!Init, ResolutionPhase, EnsureCmds
<1> QED
  BY <1>1, <1>2, NextRefineInv, StepRefines, PTL
  DEF Spec, ResolutionRefined, AR!Spec
=============================================================================
