----------------------------- MODULE CencCipher ------------------------------
(***************************************************************************)
(* The cipher layer (src/cenc_cipher.rs): the steps of a plan applied to   *)
(* the octets of a sample, in either direction.                            *)
(*                                                                         *)
(* AES-128 is symbolic.  An octet has a text, a tuple, and the set of      *)
(* keystream octets it is XORed with; a block decrypts to its plaintext    *)
(* under the key and the chain value it was encrypted with, and to garbage *)
(* under any other.  An initialization vector is [len, high, low], two     *)
(* halves of a block; one of 8 octets has no low half.                     *)
(***************************************************************************)
EXTENDS CencScheme

CONSTANT CounterModulus   \* of the 64-bit block counter (2^64)
ASSUME CounterModulusAssumption == CounterModulus \in Nat \ {0}

Octet(text) == [text |-> text, masks |-> {}]
Plaintext(len) == [i \in 1..len |-> Octet(<<i>>)]

ExpandIv(iv) == <<iv.high, IF iv.len = 8 THEN 0 ELSE iv.low>>

(* XOR with an octet of the keystream: doing it twice undoes it.  Only the *)
(* counter half of the block counts, and wraps without a carry.            *)
Masked(octet, mask) == [octet EXCEPT !.masks = (@ \ {mask}) \cup ({mask} \ @)]
KeystreamOctet(key, iv, position) ==
    <<key, ExpandIv(iv)[1],
      (ExpandIv(iv)[2] + position \div BlockBytes) % CounterModulus,
      position % BlockBytes>>

IvChain(iv) == [j \in 1..BlockBytes |-> Octet(ExpandIv(iv))]
EncryptBlock(key, chain, block) ==
    [j \in 1..BlockBytes |-> Octet(<<key, chain, block, j>>)]
DecryptBlock(key, chain, block) ==
    IF /\ Len(block[1].text) = 4
       /\ block = EncryptBlock(key, chain, block[1].text[3])
    THEN block[1].text[3]
    ELSE [j \in 1..BlockBytes |-> Octet(<<>>)]

EncryptedSteps(plan) ==
    Selected(plan, {n \in DOMAIN plan : plan[n].kind = "encrypted"})

(* Octets fed to the cipher before the n-th encrypted step.                *)
FedBefore(steps, n) ==
    LET length(step) == step.len IN SumOf(SubSeq(steps, 1, n - 1), length)

(***************************************************************************)
(* Counter mode: one keystream over all encrypted steps, the same in both  *)
(* directions.                                                             *)
(***************************************************************************)
RunCtr(key, iv, plan, data) ==
    LET steps == EncryptedSteps(plan)
        step(i) == {n \in DOMAIN steps :
                      steps[n].offset < i /\ i <= steps[n].offset + steps[n].len}
    IN  [i \in DOMAIN data |->
            IF step(i) = {} THEN data[i]
            ELSE LET n == CHOOSE n \in step(i) : TRUE
                     position == FedBefore(steps, n) + i - 1 - steps[n].offset
                 IN  Masked(data[i], KeystreamOctet(key, iv, position))]

(***************************************************************************)
(* Block chaining: the chain goes through the encrypted blocks in order    *)
(* and starts anew at a step that asks for it.                             *)
(***************************************************************************)
(* The encrypted steps cut into steps of a block each; the first block of  *)
(* a step restarts the chain where the step does.                          *)
StepBlocks(s) ==
    [b \in 1..(s.len \div BlockBytes) |->
        Step(s.offset + (b - 1) * BlockBytes, BlockBytes, s.kind, s.restart /\ b = 1)]
ChainBlocks(steps) == FlattenSeq([k \in DOMAIN steps |-> StepBlocks(steps[k])])

BlockAt(data, at) == SubSeq(data, at + 1, at + BlockBytes)
WithBlock(data, at, block) ==
    [i \in DOMAIN data |->
        IF at < i /\ i <= at + BlockBytes THEN block[i - at] ELSE data[i]]

RunCbc(key, iv, plan, data, direction) ==
    LET blocks == ChainBlocks(EncryptedSteps(plan))
        run[n \in 0..Len(blocks)] ==
          IF n = 0 THEN data
          ELSE LET done == run[n - 1]
                   b == blocks[n]
                   chain ==
                     IF n = 1 \/ b.restart THEN IvChain(iv)
                     ELSE BlockAt(IF direction = "encrypt" THEN done ELSE data,
                                  blocks[n - 1].offset)
                   input == BlockAt(done, b.offset)
               IN  WithBlock(done, b.offset,
                       IF direction = "encrypt"
                       THEN EncryptBlock(key, chain, input)
                       ELSE DecryptBlock(key, chain, input))
    IN  run[Len(blocks)]

(* run_steps_in_place: a plan that does not fit the mode or the data is an *)
(* error.                                                                  *)
StepsFit(mode, iv, plan, data) ==
    /\ iv.len \in {8, 16}
    /\ \A n \in DOMAIN plan : plan[n].offset + plan[n].len <= Len(data)
    /\ \A n \in DOMAIN EncryptedSteps(plan) :
          LET step == EncryptedSteps(plan)[n]
          IN  IF mode = "ctr" THEN ~step.restart
              ELSE step.len % BlockBytes = 0
RunSteps(mode, key, iv, plan, data, direction) ==
    IF ~StepsFit(mode, iv, plan, data) THEN {}
    ELSE {IF mode = "ctr" THEN RunCtr(key, iv, plan, data)
          ELSE RunCbc(key, iv, plan, data, direction)}

(* The vector a sample is ciphered with: its own or the constant one,      *)
(* never both and never of another length.                                 *)
EffectiveIv(d, own) ==
    CASE IvSupply(d.tenc) = "none"     -> {}
      [] IvSupply(d.tenc) = "sample"   -> {iv \in own : iv.len = d.tenc.ivSize}
      [] IvSupply(d.tenc) = "constant" -> IF own = {} THEN d.tenc.constantIv ELSE {}

(* run_sample_in_place, in the given direction.                            *)
RunSample(d, key, own, map, data, direction) ==
    IF d.scheme \notin DOMAIN CipherMode THEN {}
    ELSE UNION {UNION {RunSteps(CipherMode[d.scheme], key, iv, plan, data, direction)
                        : plan \in PlanSampleCipher(d, map, Len(data))}
                 : iv \in EffectiveIv(d, own)}
EncryptSample(d, key, own, map, data) == RunSample(d, key, own, map, data, "encrypt")
DecryptSample(d, key, own, map, data) == RunSample(d, key, own, map, data, "decrypt")
=============================================================================
