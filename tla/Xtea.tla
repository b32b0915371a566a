-------------------------------- MODULE Xtea --------------------------------
(***************************************************************************)
(* xtea_encrypt and xtea_decrypt (src/crypto/xtea.cpp): a message is       *)
(* encrypted where it stands, block by block and round by round, and then  *)
(* decrypted by its receiver.  Words are unsigned and wrap at Modulus.     *)
(* What a round mixes into a word is a parameter: that decryption inverts  *)
(* encryption does not depend on it, only on the order of its steps.       *)
(***************************************************************************)
EXTENDS Integers

CONSTANTS
    Modulus,            \* 2^32
    Rounds,             \* 32
    Delta,              \* 0x9E3779B9
    LastSum,            \* 0xC6EF3720
    Sums,               \* the values of sum: Sums[i] after i rounds
    Keys,
    MixV0(_, _, _),     \* (((v << 4) ^ (v >> 5)) + v) ^ (sum + key[sum & 3])
    MixV1(_, _, _),     \* the same with key[(sum >> 11) & 3]
    Messages            \* a size and as many blocks as fit it each

BlockSize == 8

Word == 0 .. Modulus - 1

\* Operands are words: one turn around is all that happens.
Add(a, b) == IF a + b < Modulus THEN a + b ELSE (a + b) - Modulus

Sub(a, b) == IF b <= a THEN a - b ELSE (a - b) + Modulus

ASSUME XteaAssumption ==
    /\ Modulus \in Nat \ {0} /\ Rounds \in Nat /\ Delta \in Word
    /\ Sums \in [0 .. Rounds -> Word] /\ Sums[0] = 0 /\ Sums[Rounds] = LastSum
    /\ \A i \in 0 .. Rounds - 1 : Sums[i + 1] = Add(Sums[i], Delta)
    /\ \A key \in Keys, v \in Word, sum \in Word :
         MixV0(key, v, sum) \in Word /\ MixV1(key, v, sum) \in Word
    /\ \A m \in Messages :
         m.size \in Nat /\ m.blocks \in [1 .. m.size \div BlockSize -> Word \X Word]

VARIABLES
    pc,                 \* "encrypt", "decrypt" or "done"
    key,
    length, plain,      \* the message: its size and its blocks
    data,               \* the blocks where they stand
    at,                 \* the block at data
    size,               \* of what is left from there
    i, sum, v0, v1,     \* of the inner loop; -1 between two blocks
    trail               \* history: the words of each block after each round of encryption

cipherVars == <<pc, key, length, plain, data, at, size, i, sum, v0, v1, trail>>

NoWords == <<-1, -1>>

CipherInit ==
    /\ pc = "encrypt" /\ key \in Keys
    /\ \E m \in Messages : length = m.size /\ plain = m.blocks
    /\ data = plain /\ at = 1 /\ size = length
    /\ i = -1 /\ sum = 0 /\ v0 = 0 /\ v1 = 0
    /\ trail = [b \in DOMAIN data |-> [r \in 0 .. Rounds |-> IF r = 0 THEN data[b] ELSE NoWords]]

WholeBlock == size >= BlockSize

\* A block is read; less than one is left as it is.
ReadBlock ==
    /\ pc # "done" /\ i = -1 /\ WholeBlock
    /\ i' = 0 /\ sum' = (IF pc = "encrypt" THEN 0 ELSE LastSum)
    /\ v0' = data[at][1] /\ v1' = data[at][2]
    /\ UNCHANGED <<pc, key, length, plain, data, at, size, trail>>

EncryptRound ==
    /\ pc = "encrypt" /\ i \in 0 .. Rounds - 1
    /\ v0' = Add(v0, MixV0(key, v1, sum))
    /\ sum' = Add(sum, Delta)
    /\ v1' = Add(v1, MixV1(key, v0', sum'))
    /\ i' = i + 1
    /\ trail' = [trail EXCEPT ![at][i + 1] = <<v0', v1'>>]
    /\ UNCHANGED <<pc, key, length, plain, data, at, size>>

\* Mutated form: the sum is lowered first.
DecryptRoundSumFirst ==
    /\ pc = "decrypt" /\ i \in 0 .. Rounds - 1
    /\ sum' = Sub(sum, Delta)
    /\ v1' = Sub(v1, MixV1(key, v0, sum'))
    /\ v0' = Sub(v0, MixV0(key, v1', sum'))
    /\ i' = i + 1
    /\ UNCHANGED <<pc, key, length, plain, data, at, size, trail>>

DecryptRound ==
    /\ pc = "decrypt" /\ i \in 0 .. Rounds - 1
    /\ v1' = Sub(v1, MixV1(key, v0, sum))
    /\ sum' = Sub(sum, Delta)
    /\ v0' = Sub(v0, MixV0(key, v1', sum'))
    /\ i' = i + 1
    /\ UNCHANGED <<pc, key, length, plain, data, at, size, trail>>

WriteBlock ==
    /\ pc # "done" /\ i = Rounds
    /\ data' = [data EXCEPT ![at] = <<v0, v1>>]
    /\ at' = at + 1 /\ size' = size - BlockSize /\ i' = -1
    /\ UNCHANGED <<pc, key, length, plain, sum, v0, v1, trail>>

\* The receiver decrypts as much as was encrypted.
CipherReturn ==
    /\ pc # "done" /\ i = -1 /\ ~WholeBlock
    /\ pc' = (IF pc = "encrypt" THEN "decrypt" ELSE "done")
    /\ at' = 1 /\ size' = length
    /\ UNCHANGED <<key, length, plain, data, i, sum, v0, v1, trail>>

CipherNext == ReadBlock \/ EncryptRound \/ DecryptRound \/ WriteBlock \/ CipherReturn

CipherSpec == CipherInit /\ [][CipherNext]_cipherVars

-----------------------------------------------------------------------------
CipherTypeOK ==
    /\ pc \in {"encrypt", "decrypt", "done"} /\ key \in Keys
    /\ data \in [DOMAIN plain -> Word \X Word]
    /\ at \in Nat /\ size \in Nat /\ i \in -1 .. Rounds
    /\ sum \in Word /\ v0 \in Word /\ v1 \in Word

\* What is decrypted is what was encrypted, whatever the key and the message, in each
\* of its whole blocks.
DecryptInverts == pc = "done" => data = plain

\* Every whole block is sent after all its rounds, the last one included.
EveryBlockEncrypted ==
    pc = "decrypt" => \A b \in at .. (length \div BlockSize) : data[b] = trail[b][Rounds]

=============================================================================
