------------------------------ MODULE PivToken ------------------------------
(***************************************************************************)
(* The PIV application of the token as the ykman CLI sees it through      *)
(* yubikit's PivSession: the PIN and PUK with their retry counters, the    *)
(* management key, the pivman data object (salt of a PIN-derived key, flag *)
(* of a PIN-protected stored key), the PIN-protected data object holding   *)
(* the stored key, and the security status of the current session.         *)
(*                                                                         *)
(* The token is not code of the repository: what it does is taken from     *)
(* the design (spec.md sections 3, 4.5 and 5) and from how piv.py reacts  *)
(* to it.  Strings, byte encodings and key derivation are abstracted to    *)
(* model values: a PIN is a member of Pins, a key a member of Keys.        *)
(***************************************************************************)
EXTENDS Naturals

CONSTANTS
    Pins,          \* PINs a user can type (some of the wrong length)
    ValidPins,     \* those of 6 to 8 characters
    DefaultPin,    \* 123456
    Puks,          \* PUKs a user can type
    DefaultPuk,    \* 12345678
    Salts,         \* salts of PIN-derived management keys
    RandomKeys,    \* results of generate_random_management_key()
    DefaultKey,    \* DEFAULT_MANAGEMENT_KEY
    MaxTries,      \* largest retry counter the runs allow (the code: 255)
    DefaultTries,  \* retry counters after a reset
    NoPin,         \* an option that was not given
    NoKey,         \* a key that was not given / an empty key object
    NoSalt,        \* pivman data without a salt
    KeyPairs,      \* key pairs a slot can hold; a certificate is named by
                   \* the key pair whose public key it certifies
    NoKeyPair      \* an empty slot, a slot without a certificate

ASSUME TokenAssumptions ==
    /\ ValidPins \subseteq Pins
    /\ DefaultPin \in ValidPins
    /\ DefaultPuk \in Puks
    /\ MaxTries \in Nat \ {0}
    /\ DefaultTries \in 1..MaxTries
    /\ NoPin \notin Pins
    /\ NoSalt \notin Salts
    /\ DefaultKey \notin RandomKeys
    /\ NoKeyPair \notin KeyPairs

(* derive_management_key(pin, salt): PBKDF2 over the PIN and the salt.     *)
(* It is injective on the model's domain, so the pair itself stands for it.*)
Derive(p, s) == <<p, s>>

(* Every management key the model knows: the default, the random ones and  *)
(* the PIN-derived ones.  UserKeys are those a user types or passes by -m. *)
UserKeys == {DefaultKey} \cup RandomKeys
Keys == UserKeys \cup {Derive(p, s) : p \in Pins, s \in Salts}

ASSUME NoKeyAssumption == NoKey \notin Keys

(* The pivman data object (ykman.piv.PivmanData).                          *)
PivmanRecords == [salt : Salts \cup {NoSalt}, stored : BOOLEAN]
HasDerivedKey(pm) == pm.salt # NoSalt
HasStoredKey(pm) == pm.stored
HasProtectedKey(pm) == HasDerivedKey(pm) \/ HasStoredKey(pm)
DefaultPivman == [salt |-> NoSalt, stored |-> FALSE]

VARIABLES
    pin, puk,                \* the credentials on the token
    pinTries, pukTries,      \* attempts remaining
    pinRetries, pukRetries,  \* configured number of attempts
    mgmKey,                  \* the management key
    touchReq,                \* the management key requires touch
    pivman,                  \* the pivman data object
    protKey,                 \* key in the PIN-protected pivman data object
    pinOk,                   \* PIN verified in this session
    mgmOk,                   \* management key authenticated in this session
    lastAuth,                \* kind of the last successful authentication
    slotKey,                 \* the key pair in the PIV slot
    slotGenerated,           \* it was generated on the token (attestable)
    slotCert,                \* the certificate in the slot
    objs                     \* which of the CHUID and CCC objects exist

(* The data objects apart from the pivman ones.  The PIN-protected        *)
(* object (PRINTED) is protKey.                                            *)
DataObjects == {"chuid", "ccc"}

slotVars == <<slotKey, slotGenerated, slotCert, objs>>
credVars == <<pin, puk, pinRetries, pukRetries, mgmKey, touchReq, pivman,
              protKey, slotVars>>
tokenVars == <<credVars, pinTries, pukTries>>
statusVars == <<pinOk, mgmOk, lastAuth>>

TokenTypeOK ==
    /\ pin \in Pins /\ puk \in Puks
    /\ pinTries \in 0..MaxTries /\ pukTries \in 0..MaxTries
    /\ pinRetries \in 1..MaxTries /\ pukRetries \in 1..MaxTries
    /\ mgmKey \in Keys
    /\ touchReq \in BOOLEAN
    /\ pivman \in PivmanRecords
    /\ protKey \in Keys \cup {NoKey}
    /\ pinOk \in BOOLEAN /\ mgmOk \in BOOLEAN
    /\ lastAuth \in {"none", "pin", "mgm"}
    /\ slotKey \in KeyPairs \cup {NoKeyPair} /\ slotGenerated \in BOOLEAN
    /\ slotCert \in KeyPairs \cup {NoKeyPair} /\ objs \subseteq DataObjects

(* The token is found either with factory settings or set up, by ykman or *)
(* an older tool, in one of the protection modes the design allows: a key *)
(* derived from the PIN, or a random key stored under the PIN.  Its slot  *)
(* and data objects are empty; the commands fill them.                     *)
TokenInit ==
    /\ pin \in ValidPins /\ puk \in Puks
    /\ pinTries = DefaultTries /\ pukTries = DefaultTries
    /\ pinRetries = DefaultTries /\ pukRetries = DefaultTries
    /\ touchReq = FALSE
    /\ \/ /\ pivman = DefaultPivman
          /\ mgmKey \in UserKeys /\ protKey = NoKey
       \/ \E s \in Salts :
             /\ pivman = [salt |-> s, stored |-> FALSE]
             /\ mgmKey = Derive(pin, s) /\ protKey = NoKey
       \/ /\ pivman = [salt |-> NoSalt, stored |-> TRUE]
          /\ mgmKey \in RandomKeys /\ protKey = mgmKey
    /\ pinOk = FALSE /\ mgmOk = FALSE /\ lastAuth = "none"
    /\ slotKey = NoKeyPair /\ slotGenerated = FALSE
    /\ slotCert = NoKeyPair /\ objs = {}

(* Opening a PivSession selects the application: no credential verified.  *)
SessionOpen ==
    /\ pinOk' = FALSE /\ mgmOk' = FALSE /\ lastAuth' = "none"

(* Answers of the user to a touch request of the management key.           *)
TouchAnswers == IF touchReq THEN BOOLEAN ELSE {TRUE}

(* A counter after one more failed attempt; the token stops at zero (the  *)
(* variant does not).                                                      *)
DecrementUnfloored(n) == n - 1
Decrement(n) == IF n = 0 THEN 0 ELSE n - 1

(* PivSession.reset(): the token blocks PIN and PUK and restores factory  *)
(* settings, deleting keys, certificates and data objects.                *)
FactoryReset ==
    /\ pin' = DefaultPin /\ puk' = DefaultPuk
    /\ pinTries' = DefaultTries /\ pukTries' = DefaultTries
    /\ pinRetries' = DefaultTries /\ pukRetries' = DefaultTries
    /\ mgmKey' = DefaultKey /\ touchReq' = FALSE
    /\ pivman' = DefaultPivman /\ protKey' = NoKey
    /\ slotKey' = NoKeyPair /\ slotGenerated' = FALSE
    /\ slotCert' = NoKeyPair /\ objs' = {}

=============================================================================
