--------------------------- MODULE MCDecryptCore ---------------------------
(***************************************************************************)
(* TLC instance of DecryptCore: the inputs are open, but for one message   *)
(* and for the keys, a few that set j on different courses.                *)
(***************************************************************************)
EXTENDS DecryptCore

MCXor == [p \in Byte \X Byte |-> (p[1] + p[2]) % N]

\* The bounds of the run: key bytes 0,1,2 and 2,2,1 (N = 3), one ciphertext.
MCKeys == {5, 25}
MCRom  == [k \in Index |-> k % N]

MCInit == CoreInit /\ rom = MCRom
MCNext == \E decrypt_start, reset \in BOOLEAN, key \in MCKeys : CoreClock(decrypt_start, reset, key)
MCSpec == MCInit /\ [][MCNext]_coreVars
=============================================================================
