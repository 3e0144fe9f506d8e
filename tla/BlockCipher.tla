---------------------------- MODULE BlockCipher -----------------------------
(***************************************************************************)
(* What a caller of aesEncryptBlock (Aes.cpp) relies on: a block is begun, *)
(* and then it is encrypted under the key, in one step.                    *)
(***************************************************************************)
CONSTANTS Keys, Blocks,
          NoBlock,        \* not a block
          Cipher(_, _)    \* the encryption of a block under a key

VARIABLES key,
          block,    \* what is encrypted, or NoBlock
          result    \* the encrypted block, or NoBlock until it is there

vars == <<key, block, result>>

Init == key \in Keys /\ block = NoBlock /\ result = NoBlock

Begin ==
  /\ block = NoBlock \/ result # NoBlock
  /\ block' \in Blocks
  /\ result' = NoBlock
  /\ UNCHANGED key

Encrypt ==
  /\ block # NoBlock /\ result = NoBlock
  /\ result' = Cipher(key, block)
  /\ UNCHANGED <<key, block>>

Next == Begin \/ Encrypt

Spec == Init /\ [][Next]_vars
=============================================================================
