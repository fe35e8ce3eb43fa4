---------------------------- MODULE MC_PivAccess ----------------------------
(* A small token for TLC: two valid PINs and one too short, two PUKs, one  *)
(* salt, one random key, one or two key pairs, retry counters up to 2.     *)
EXTENDS PivAccess

CONSTANTS P1, P2, PShort, U1, U2, S1, R1, K1, K2

MCPins == {P1, P2, PShort}
MCValidOnly == {P1, P2}
MCValidPins == {P1, P2}
MCPuks == {U1, U2}
MCOnePuk == {U1}
MCSalts == {S1}
MCRandomKeys == {R1}
MCOneKeyPair == {K1}
MCKeyPairs == {K1, K2}

(* The access commands; those but the two that replace the PIN without    *)
(* pivman_change_pin; the data commands, with keys generate to fill the   *)
(* slot.                                                                   *)
MCAccessCommands == AccessCommands
MCKeyKeepingCommands == AccessCommands \ {"unblock_pin", "set_retries"}
MCDataCommands == DataCommands \cup {"generate_key"}
=============================================================================
