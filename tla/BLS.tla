-------------------------------- MODULE BLS ---------------------------------
(***************************************************************************)
(* The BLS calls of ffi-common: key generation, public key, sign, hash,    *)
(* aggregate over a flattened signature array, and the two verification    *)
(* calls that split flattened digests, messages and public keys by length. *)
(*                                                                         *)
(* A signature is the bag of (private key, digest) pairs it aggregates:    *)
(* the pairing check of an aggregate holds exactly when the bags agree.    *)
(* Keys, digests and signatures are laid out as blocks of their byte       *)
(* widths; a byte of a block names the value it belongs to, so a block cut *)
(* at the wrong offset parses as nothing.                                  *)
(***************************************************************************)
EXTENDS Naturals, Sequences, SequencesExt, Bags

CONSTANTS Seeds,             \* 32-byte seeds of private_key_generate_with_seed
          KeyOfSeed(_),      \* the private key a seed derives
          Messages,          \* messages the caller signs, sequences of bytes
          MessageBytes,      \* byte values of messages
          PublicKeyBytes,    \* PUBLIC_KEY_BYTES
          SignatureBytes,    \* SIGNATURE_BYTES
          DigestBytes,       \* DIGEST_BYTES
          MaxSigs,           \* bound on the signatures the caller keeps
          MaxMessageLen      \* bound on a flattened message array

VARIABLES keys,   \* private keys the caller generated
          sigs,   \* signatures from fil_private_key_sign, with what they signed
          agg     \* the last fil_aggregate: its result ({} for NULL), the
                  \* signatures given and the bytes cut from their array

vars == <<keys, sigs, agg>>

-----------------------------------------------------------------------------
(* Values and their byte layouts *)

PublicKey(sk) == <<"pk", sk>>
Hash(m) == <<"digest", m>>
Sign(sk, m) == SetToBag({<<sk, Hash(m)>>})

Block(v, width) == [i \in 1..width |-> <<v, i>>]

\* Cut a flattened array into blocks of `width` (whole blocks only).
Blocks(flat, width) ==
  [j \in 1..(Len(flat) \div width) |-> SubSeq(flat, (j - 1) * width + 1, j * width)]

\* The value a block encodes; {} for bytes that are no such value.
Decode(block, width, Values) == {v \in Values : block = Block(v, width)}

TheOne(S) == CHOOSE v \in S : TRUE

\* Bag sum of a sequence of signatures.
SumSigs(s) == FoldLeft(LAMBDA acc, x : acc (+) x, EmptyBag, s)

-----------------------------------------------------------------------------
(* The calls *)

PrivateKeys == {KeyOfSeed(x) : x \in Seeds}
PublicKeys == {PublicKey(sk) : sk \in PrivateKeys}
Digests == {Hash(m) : m \in Messages} \cup {Hash(<<>>)}

AggregateNoLengthCheck(flat, Sigs) ==
  LET bs == Blocks(flat, SignatureBytes)
  IN  IF bs = <<>> \/ \E j \in DOMAIN bs : Decode(bs[j], SignatureBytes, Sigs) = {}
      THEN {}
      ELSE {SumSigs([j \in DOMAIN bs |-> TheOne(Decode(bs[j], SignatureBytes, Sigs))])}

\* Mutant: an array of a single signature is taken for no signatures.
AggregateSingleRejected(flat, Sigs) ==
  LET bs == Blocks(flat, SignatureBytes)
  IN  IF Len(flat) % SignatureBytes # 0 \/ Len(bs) < 2
         \/ \E j \in DOMAIN bs : Decode(bs[j], SignatureBytes, Sigs) = {}
      THEN {}
      ELSE {SumSigs([j \in DOMAIN bs |-> TheOne(Decode(bs[j], SignatureBytes, Sigs))])}

\* fil_aggregate: NULL ({}) unless the array is a non-empty whole number of
\* signatures.
Aggregate(flat, Sigs) ==
  LET bs == Blocks(flat, SignatureBytes)
  IN  IF Len(flat) % SignatureBytes # 0 \/ bs = <<>>
         \/ \E j \in DOMAIN bs : Decode(bs[j], SignatureBytes, Sigs) = {}
      THEN {}
      ELSE {SumSigs([j \in DOMAIN bs |-> TheOne(Decode(bs[j], SignatureBytes, Sigs))])}

VerifyByteLengths(sig, flatDigests, flatKeys) ==
  LET ds == Blocks(flatDigests, DigestBytes)
      ks == Blocks(flatKeys, PublicKeyBytes)
  IN  /\ Len(flatDigests) % DigestBytes = 0
      /\ Len(flatKeys) % PublicKeyBytes = 0
      /\ Len(flatDigests) = Len(flatKeys) /\ Len(ds) > 0
      /\ \A j \in DOMAIN ds : Decode(ds[j], DigestBytes, Digests) # {}
      /\ \A j \in DOMAIN ks : Decode(ks[j], PublicKeyBytes, PublicKeys) # {}
      /\ sig = SumSigs([j \in DOMAIN ds |->
                 SetToBag({<<TheOne(Decode(ks[j], PublicKeyBytes, PublicKeys))[2],
                            TheOne(Decode(ds[j], DigestBytes, Digests))>>})])

\* fil_verify: the digests and the public keys pair up by position.
Verify(sig, flatDigests, flatKeys) ==
  LET ds == Blocks(flatDigests, DigestBytes)
      ks == Blocks(flatKeys, PublicKeyBytes)
  IN  /\ Len(flatDigests) % DigestBytes = 0
      /\ Len(flatKeys) % PublicKeyBytes = 0
      /\ Len(ds) = Len(ks) /\ Len(ds) > 0
      /\ \A j \in DOMAIN ds : Decode(ds[j], DigestBytes, Digests) # {}
      /\ \A j \in DOMAIN ks : Decode(ks[j], PublicKeyBytes, PublicKeys) # {}
      /\ sig = SumSigs([j \in DOMAIN ds |->
                 SetToBag({<<TheOne(Decode(ks[j], PublicKeyBytes, PublicKeys))[2],
                            TheOne(Decode(ds[j], DigestBytes, Digests))>>})])

\* Split a flattened array at the given sizes.
Split(flat, sizes) ==
  [i \in DOMAIN sizes |->
     LET off == FoldLeft(+, 0, SubSeq(sizes, 1, i - 1))
     IN  SubSeq(flat, off + 1, off + sizes[i])]

HashVerifyPrefix(sig, flatMessages, sizes, flatKeys) ==
  LET ms == Split(flatMessages, sizes)
  IN  /\ FoldLeft(+, 0, sizes) <= Len(flatMessages)
      /\ Verify(sig, FlattenSeq([i \in DOMAIN ms |-> Block(Hash(ms[i]), DigestBytes)]),
                flatKeys)

\* fil_hash_verify: split the messages by message_sizes, hash each, verify.
HashVerify(sig, flatMessages, sizes, flatKeys) ==
  LET ms == Split(flatMessages, sizes)
  IN  /\ FoldLeft(+, 0, sizes) = Len(flatMessages)
      /\ Verify(sig, FlattenSeq([i \in DOMAIN ms |-> Block(Hash(ms[i]), DigestBytes)]),
                flatKeys)

-----------------------------------------------------------------------------
(* The caller *)

Init ==
  /\ keys = {}
  /\ sigs = <<>>
  /\ agg = [sig |-> {}, parts |-> <<>>, cut |-> 0]

\* fil_private_key_generate: a fresh random key, any of the key space.
PrivateKeyGenerate(sk) ==
  /\ keys' = keys \cup {sk}
  /\ UNCHANGED <<sigs, agg>>

\* fil_private_key_generate_with_seed: the same seed gives the same key.
PrivateKeyGenerateWithSeed(seed) ==
  /\ keys' = keys \cup {KeyOfSeed(seed)}
  /\ UNCHANGED <<sigs, agg>>

\* fil_private_key_sign with a key the caller holds.
PrivateKeySign(sk, m) ==
  /\ sk \in keys
  /\ Len(sigs) < MaxSigs
  /\ sigs' = Append(sigs, [sig |-> Sign(sk, m), key |-> sk, msg |-> m])
  /\ UNCHANGED <<keys, agg>>

\* fil_aggregate over the caller's signatures in the order `order`, or over
\* an array cut short by `cut` bytes.
AggregateSigs(order, cut) ==
  LET flat == FlattenSeq([i \in DOMAIN order |-> Block(sigs[order[i]].sig, SignatureBytes)])
      all  == {sigs[i].sig : i \in DOMAIN sigs}
  IN  /\ agg' = [sig |-> Aggregate(SubSeq(flat, 1, Len(flat) - cut), all),
                 parts |-> [i \in DOMAIN order |-> sigs[order[i]]], cut |-> cut]
      /\ UNCHANGED <<keys, sigs>>

\* The caller starts a new batch of signatures.
Reset ==
  /\ sigs # <<>>
  /\ sigs' = <<>>
  /\ agg' = [sig |-> {}, parts |-> <<>>, cut |-> 0]
  /\ UNCHANGED keys

Orders == {o \in UNION {[1..n -> DOMAIN sigs] : n \in 1..Len(sigs)} : IsInjective(o)}

Next ==
  \/ \E sk \in PrivateKeys : PrivateKeyGenerate(sk)
  \/ \E x \in Seeds : PrivateKeyGenerateWithSeed(x)
  \/ \E sk \in keys, m \in Messages : PrivateKeySign(sk, m)
  \/ \E o \in Orders, cut \in {0, 1} : AggregateSigs(o, cut)
  \/ Reset

Spec == Init /\ [][Next]_vars

-----------------------------------------------------------------------------
(* Properties *)

Signed == [sig : {Sign(sk, m) : sk \in PrivateKeys, m \in Messages},
           key : PrivateKeys, msg : Messages]

TypeOK ==
  /\ keys \subseteq PrivateKeys
  /\ \A i \in DOMAIN sigs : sigs[i] \in Signed /\ sigs[i].key \in keys
  /\ Len(sigs) <= MaxSigs
  /\ agg.sig \subseteq {SumSigs([i \in DOMAIN agg.parts |-> agg.parts[i].sig])}

\* fil_aggregate returns NULL exactly for an array that is not a whole,
\* non-empty number of SIGNATURE_BYTES blocks (common:96-106): a whole array
\* of the caller's signatures, one signature included, gives the sum of
\* exactly those signatures, and an array cut short by a byte gives NULL
\* rather than the sum of the whole signatures before the cut.
AggregateExact ==
  agg.sig = IF agg.cut = 0 /\ agg.parts # <<>>
            THEN {SumSigs([i \in DOMAIN agg.parts |-> agg.parts[i].sig])}
            ELSE {}

\* The arguments of hash_verify for a list of signed (key, message) pairs.
MessagesOf(ps) == FlattenSeq([i \in DOMAIN ps |-> ps[i].msg])
SizesOf(ps) == [i \in DOMAIN ps |-> Len(ps[i].msg)]
KeysOf(ps) == FlattenSeq([i \in DOMAIN ps |-> Block(PublicKey(ps[i].key), PublicKeyBytes)])

\* Spec 8: an aggregate of honest signatures verifies with hash_verify over
\* the flattened messages, their sizes and the flattened public keys of the
\* signers, in the order the signatures were aggregated.
HashVerifyComplete ==
  agg.sig # {} =>
    HashVerify(TheOne(agg.sig), MessagesOf(agg.parts), SizesOf(agg.parts), KeysOf(agg.parts))

\* Spec 8 and the hash_verify arguments: an aggregate verifies only for
\* flattened messages, sizes and keys that lay out the signed (key, message)
\* pairs, in some order; a message or key moved to another index, bytes
\* moved from one message to the next, or trailing bytes make it fail.
ByteSeqs == UNION {[1..n -> MessageBytes] : n \in 0..MaxMessageLen}
SizeSeqs == UNION {[1..n -> 0..MaxMessageLen] : n \in 1..MaxSigs}
KeyArrays == {FlattenSeq(ks) : ks \in UNION {[1..n -> {Block(pk, PublicKeyBytes) : pk \in PublicKeys}]
                                               : n \in 1..MaxSigs}}

HashVerifySound ==
  agg.sig # {} =>
    \A fm \in ByteSeqs, sz \in SizeSeqs, fk \in KeyArrays :
      HashVerify(TheOne(agg.sig), fm, sz, fk) =>
        \E o \in {p \in [DOMAIN agg.parts -> DOMAIN agg.parts] : IsInjective(p)} :
          LET ps == [i \in DOMAIN o |-> agg.parts[o[i]]]
          IN  fm = MessagesOf(ps) /\ sz = SizesOf(ps) /\ fk = KeysOf(ps)

=============================================================================
