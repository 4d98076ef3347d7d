------------------------------ MODULE XXHash64 ------------------------------
(***************************************************************************)
(* The xxhash64 binding (package xxhash64, src/main.go from line 60): the  *)
(* C code in its cgo preamble, with a scalar path, an AVX2 path for amd64  *)
(* and a NEON path for arm64 chosen at run time, and the Go methods of     *)
(* XXHash64 that call it.  HashMap.getIndex uses HashString(key) for the   *)
(* bucket and the shard of every key.                                      *)
(*                                                                         *)
(* TLC's integers are 32-bit, so a uint64 is the tuple of its 8 bytes,     *)
(* least significant first, and the arithmetic below is the C arithmetic   *)
(* modulo 2^64 carried out on those bytes.  A buffer is a sequence of      *)
(* bytes; the C pointer p is the 0-based offset into it.                   *)
(***************************************************************************)
EXTENDS Naturals, Sequences, Bitwise

Byte == 0..255

(* A uint64 constant, written as its four 16-bit hex groups, most        *)
(* significant first.                                                     *)
Hex(g) == [i \in 1..8 |-> LET w == g[4 - (i - 1) \div 2]
                          IN IF i % 2 = 1 THEN w % 256 ELSE w \div 256]

(* A small non-negative number (a length, one byte) as a uint64. *)
FromNat(n) == [i \in 1..8 |-> IF i <= 4 THEN (n \div 2 ^ (8 * (i - 1))) % 256
                                        ELSE 0]

Zero == FromNat(0)

PRIME64_1 == Hex(<<\h9E37, \h79B1, \h85EB, \hCA87>>)
PRIME64_2 == Hex(<<\hC2B2, \hAE3D, \h27D4, \hEB4F>>)
PRIME64_3 == Hex(<<\h1656, \h67B1, \h9E37, \h79F9>>)
PRIME64_4 == Hex(<<\h85EB, \hCA77, \hC2B2, \hAE63>>)
PRIME64_5 == Hex(<<\h27D4, \hEB2F, \h1656, \h67C5>>)

-----------------------------------------------------------------------------
(* TLC passes operator arguments unevaluated.  The word operators and   *)
(* each loop below compare a value with itself before going on, so that *)
(* TLC computes it there instead of nesting every step on its stack.    *)
Evaluated(x) == x = x

(* uint64 arithmetic on byte tuples.                                      *)
(* The eight bytes f(1)..f(8) as a tuple, computed when it is built.    *)
Word(f(_)) == <<f(1), f(2), f(3), f(4), f(5), f(6), f(7), f(8)>>

(* Bytes from column sums: each sum plus the carry into it, mod 256; the *)
(* carry out of the top byte is dropped (wrap-around).                   *)
Carry(col) ==
  LET s1 == col[1]       s2 == col[2] + s1 \div 256  s3 == col[3] + s2 \div 256
      s4 == col[4] + s3 \div 256  s5 == col[5] + s4 \div 256  s6 == col[6] + s5 \div 256
      s7 == col[7] + s6 \div 256  s8 == col[8] + s7 \div 256
  IN  <<s1 % 256, s2 % 256, s3 % 256, s4 % 256, s5 % 256, s6 % 256, s7 % 256, s8 % 256>>

Add(a, b) == CASE Evaluated(a) /\ Evaluated(b) -> Carry(Word(LAMBDA i : a[i] + b[i]))

(* a - b: a plus the two's complement of b. *)
Sub(a, b) == Add(a, Add([i \in 1..8 |-> 255 - b[i]], FromNat(1)))

(* Column i of the schoolbook product: the sum of a[j] * b[i + 1 - j]. *)
Column(a, b, i) ==
  LET P(j) == IF j <= i THEN a[j] * b[i + 1 - j] ELSE 0
  IN  P(1) + P(2) + P(3) + P(4) + P(5) + P(6) + P(7) + P(8)

(* The low 64 bits of a * b. *)
Mul(a, b) ==
  CASE Evaluated(a) /\ Evaluated(b) -> Carry(Word(LAMBDA i : Column(a, b, i)))

Xor64(a, b) == CASE Evaluated(a) /\ Evaluated(b) -> Word(LAMBDA i : a[i] ^^ b[i])
Or64(a, b)  == CASE Evaluated(a) /\ Evaluated(b) -> Word(LAMBDA i : a[i] | b[i])

(* v << r and v >> r for 0 <= r < 64: whole bytes, then the bits left.   *)
ByteAt(v, j) == IF j \in 1..8 THEN v[j] ELSE 0
Shl(v, r) ==
  LET q == r \div 8  s == r % 8 IN
  CASE Evaluated(v) -> Word(LAMBDA i : ((ByteAt(v, i - q) * 2 ^ s) % 256) + (ByteAt(v, i - q - 1) \div 2 ^ (8 - s)))
Shr(v, r) ==
  LET q == r \div 8  s == r % 8 IN
  CASE Evaluated(v) -> Word(LAMBDA i : (ByteAt(v, i + q) \div 2 ^ s) + ((ByteAt(v, i + q + 1) * 2 ^ (8 - s)) % 256))

(* xxh_rotl64: (v << r) | (v >> (64 - r)), called with 0 < r < 64. *)
Rotl(v, r) == Or64(Shl(v, r), Shr(v, 64 - r))

(* xxh_read64 / xxh_read32: a little-endian load at offset p (memcpy on *)
(* the little-endian targets the dispatch serves).                       *)
Read64(buf, p) == Word(LAMBDA i : buf[p + i])
Read32(buf, p) == Word(LAMBDA i : IF i <= 4 THEN buf[p + i] ELSE 0)

-----------------------------------------------------------------------------
(* xxh_round and xxh_merge_round. *)
Round(acc, input) == Mul(Rotl(Add(acc, Mul(input, PRIME64_2)), 31), PRIME64_1)

MergeRound(acc, val) == Add(Mul(Xor64(acc, Round(Zero, val)), PRIME64_1), PRIME64_4)

(* xxh_finalize: its three loops over the rest of the buffer from p (8   *)
(* bytes at a time, one 4-byte step, single bytes), then the avalanche.  *)
Avalanche(h) ==
  LET h1 == Mul(Xor64(h, Shr(h, 33)), PRIME64_2)
      h2 == Mul(Xor64(h1, Shr(h1, 29)), PRIME64_3)
  IN  Xor64(h2, Shr(h2, 32))

RECURSIVE FinalizeBytes(_, _, _)
FinalizeBytes(h, buf, p) ==
  IF p < Len(buf)
  THEN LET h1 == Mul(Rotl(Xor64(h, Mul(FromNat(buf[p + 1]), PRIME64_5)), 11), PRIME64_1)
       IN  CASE Evaluated(h1) -> FinalizeBytes(h1, buf, p + 1)
  ELSE Avalanche(h)

FinalizeWord(h, buf, p) ==
  IF p + 4 <= Len(buf)
  THEN LET h1 == Add(Mul(Rotl(Xor64(h, Mul(Read32(buf, p), PRIME64_1)), 23), PRIME64_2),
                     PRIME64_3)
       IN  FinalizeBytes(h1, buf, p + 4)
  ELSE FinalizeBytes(h, buf, p)

RECURSIVE Finalize(_, _, _)
Finalize(h, buf, p) ==
  IF p + 8 <= Len(buf)
  THEN LET k1 == Mul(Rotl(Mul(Read64(buf, p), PRIME64_2), 31), PRIME64_1)
           h1 == Add(Mul(Rotl(Xor64(h, k1), 27), PRIME64_1), PRIME64_4)
       IN  CASE Evaluated(h1) -> Finalize(h1, buf, p + 8)
  ELSE FinalizeWord(h, buf, p)

(* The four accumulators v1..v4 a seeded hash of 32 bytes or more starts *)
(* from, and their convergence into h once the stripes are consumed.     *)
Lanes(seed) == <<Add(Add(seed, PRIME64_1), PRIME64_2), Add(seed, PRIME64_2),
                 seed, Sub(seed, PRIME64_1)>>

Converge(v) ==
  LET h0 == Add(Add(Add(Rotl(v[1], 1), Rotl(v[2], 7)), Rotl(v[3], 12)), Rotl(v[4], 18))
      h2 == MergeRound(MergeRound(h0, v[1]), v[2])
  IN  CASE Evaluated(h2) -> MergeRound(MergeRound(h2, v[3]), v[4])

(* The common end of the three paths: h += len, then xxh_finalize from  *)
(* where the stripes stopped.  hv is <<v, p>> after the stripe loop.     *)
Digest(buf, seed, hv) ==
  LET h == IF Len(buf) >= 32 THEN Converge(hv[1]) ELSE Add(seed, PRIME64_5)
      p == IF Len(buf) >= 32 THEN hv[2] ELSE 0
      h1 == Add(h, FromNat(Len(buf)))
  IN  CASE Evaluated(h1) -> Finalize(h1, buf, p)

-----------------------------------------------------------------------------
(* xxhash64_scalar_seed: the do-while loop over 32-byte stripes, one     *)
(* 8-byte word per accumulator, while p <= end - 32.                     *)
RECURSIVE ScalarStripes(_, _, _)
ScalarStripes(v, buf, p) ==
  LET w == [j \in 1..4 |-> Round(v[j], Read64(buf, p + 8 * (j - 1)))]
  IN  CASE Evaluated(w) ->
        IF p + 32 <= Len(buf) - 32 THEN ScalarStripes(w, buf, p + 32) ELSE <<w, p + 32>>

ScalarSeed(buf, seed) ==
  LET hv == IF Len(buf) >= 32 THEN ScalarStripes(Lanes(seed), buf, 0) ELSE <<>>
  IN  CASE Evaluated(hv) -> Digest(buf, seed, hv)

-----------------------------------------------------------------------------
(* xxhash64_avx2_seed.  A __m256i is the 4-tuple of its uint64 lanes,   *)
(* lane 0 first.                                                          *)

(* Mutant: the lanes taken in the order the arguments are written. *)
SetEpi64xInOrder(e3, e2, e1, e0) == <<e3, e2, e1, e0>>

(* _mm256_set_epi64x(e3, e2, e1, e0): its LAST argument is lane 0. *)
SetEpi64x(e3, e2, e1, e0) == <<e0, e1, e2, e3>>

Lo32(x) == [i \in 1..8 |-> IF i <= 4 THEN x[i] ELSE 0]

(* _mm256_mul_epu32: the full 64-bit product of the low 32 bits. *)
MulEpu32(a, b) == Mul(Lo32(a), Lo32(b))

(* xxh_mul64_avx2, one lane: lo*lo + ((lo*hi + hi*lo) << 32). *)
Mul64Avx2(a, b) ==
  LET aLo == Lo32(a)  aHi == Shr(a, 32)  bLo == Lo32(b)  bHi == Shr(b, 32)
      middle == Shl(Add(MulEpu32(aLo, bHi), MulEpu32(aHi, bLo)), 32)
  IN  Add(MulEpu32(aLo, bLo), middle)

(* xxh_round_avx2; xxh_rotl64_avx2 is the shift pair of Rotl per lane. *)
RoundAvx2(acc, input) ==
  [j \in 1..4 |-> Mul64Avx2(Rotl(Add(acc[j], Mul64Avx2(input[j], PRIME64_2)), 31),
                            PRIME64_1)]

(* _mm256_loadu_si256 at offset p: four little-endian words. *)
Load256(buf, p) == [j \in 1..4 |-> Read64(buf, p + 8 * (j - 1))]

(* while (p <= limit): one 32-byte block per iteration. *)
RECURSIVE Avx2Blocks(_, _, _)
Avx2Blocks(v, buf, p) ==
  IF p <= Len(buf) - 32
  THEN LET w == RoundAvx2(v, Load256(buf, p))
       IN  CASE Evaluated(w) -> Avx2Blocks(w, buf, p + 32)
  ELSE <<v, p>>

(* while (p + 128 <= end): the loop unrolled by four blocks. *)
RECURSIVE Avx2Unrolled(_, _, _)
Avx2Unrolled(v, buf, p) ==
  IF p + 128 <= Len(buf)
  THEN LET w == RoundAvx2(RoundAvx2(RoundAvx2(RoundAvx2(v, Load256(buf, p)),
                   Load256(buf, p + 32)), Load256(buf, p + 64)), Load256(buf, p + 96))
       IN  CASE Evaluated(w) -> Avx2Unrolled(w, buf, p + 128)
  ELSE Avx2Blocks(v, buf, p)

(* The lanes are read back with _mm256_extract_epi64(v, 0..3) as v1..v4. *)
Avx2Seed(buf, seed) ==
  LET v == SetEpi64x(Sub(seed, PRIME64_1), seed, Add(seed, PRIME64_2),
                     Add(Add(seed, PRIME64_1), PRIME64_2))
      hv == IF Len(buf) >= 32 THEN Avx2Unrolled(v, buf, 0) ELSE <<>>
  IN  CASE Evaluated(hv) -> Digest(buf, seed, hv)

-----------------------------------------------------------------------------
(* xxhash64_neon_seed.  A uint64x2_t is the pair of its lanes; v12 holds *)
(* v1, v2 and v34 holds v3, v4.  xxh_roundq rounds each lane with the    *)
(* scalar operations (xxh_rotl64q is defined but not called).            *)
RoundQ(acc, input) ==
  [j \in 1..2 |-> Mul(Rotl(Add(acc[j], Mul(input[j], PRIME64_2)), 31), PRIME64_1)]

(* xxh_load2x64: 16 bytes as two little-endian lanes. *)
Load2x64(buf, p) == <<Read64(buf, p), Read64(buf, p + 8)>>

(* for (; p <= limit; p += 32): v12 takes bytes p..p+15, v34 p+16..p+31. *)
RECURSIVE NeonStripes(_, _, _, _)
NeonStripes(v12, v34, buf, p) ==
  IF p <= Len(buf) - 32
  THEN LET w12 == RoundQ(v12, Load2x64(buf, p))
           w34 == RoundQ(v34, Load2x64(buf, p + 16))
       IN  CASE Evaluated(<<w12, w34>>) -> NeonStripes(w12, w34, buf, p + 32)
  ELSE <<<<v12[1], v12[2], v34[1], v34[2]>>, p>>

NeonSeed(buf, seed) ==
  LET hv == IF Len(buf) >= 32
            THEN NeonStripes(<<Add(Add(seed, PRIME64_1), PRIME64_2), Add(seed, PRIME64_2)>>,
                             <<seed, Sub(seed, PRIME64_1)>>, buf, 0)
            ELSE <<>>
  IN  CASE Evaluated(hv) -> Digest(buf, seed, hv)

-----------------------------------------------------------------------------
(* cpu_supports_avx2: CPUID.1:ECX bits OSXSAVE and AVX, XCR0 bits 1 and *)
(* 2 (XMM and YMM state enabled by the OS), then CPUID.7:EBX bit 5       *)
(* (AVX2); it is 0 when not built for x86_64.  cpu_supports_neon is 1    *)
(* exactly on aarch64 builds.                                            *)
CpuSupportsAvx2(cpu) ==
  cpu.arch = "amd64" /\ cpu.osxsave /\ cpu.avx /\ cpu.ymm /\ cpu.avx2

CpuSupportsNeon(cpu) == cpu.arch = "arm64"

(* xxhash64_seed: 0 for an empty buffer, else the path xxhash64_init     *)
(* chose, among those compiled for the architecture.                     *)
XXHash64Seed(buf, seed, arch, useAvx2, useNeon) ==
  IF Len(buf) = 0 THEN Zero
  ELSE IF arch = "amd64" /\ useAvx2 THEN Avx2Seed(buf, seed)
  ELSE IF arch = "arm64" /\ useNeon THEN NeonSeed(buf, seed)
  ELSE ScalarSeed(buf, seed)

-----------------------------------------------------------------------------
CONSTANTS
  Cpus,        \* the machines the binary may run on: records of arch and CPUID/XCR0 bits
  Inputs,      \* keys hashed: byte sequences
  Seeds,       \* explicit seeds of HashStringSeed / HashBytesSeed
  EnvSeeds,    \* values HKV_XXHASH_SEED may hold in the environment
  NoSeed,      \* XXH before the package init ran
  NoCall,      \* no hash computed yet
  Published    \* published XXH64 values with seed 0: input -> uint64

VARIABLES
  stage,       \* "xxhinit" (package init of xxhash64 next) | "main" | "ready"
  cpu,         \* the machine
  envSeed,     \* *envhandler.ENV.XXHASH_SEED
  seed,        \* XXH.seed
  useAvx2,     \* the C static use_avx2
  useNeon,     \* the C static use_neon
  call         \* the latest hash call: [input, seed]

xxVars == <<stage, cpu, envSeed, seed, useAvx2, useNeon, call>>

TypeOK ==
  /\ stage \in {"xxhinit", "main", "ready"}
  /\ cpu \in Cpus
  /\ useAvx2 \in BOOLEAN /\ useNeon \in BOOLEAN
  /\ call \in {NoCall} \cup [input : Inputs, seed : Seeds \cup {Zero} \cup EnvSeeds]

(* Process start, after envhandler's init: flag.Uint64 gave             *)
(* XXHASH_SEED its default 0.  xxhash64 imports envhandler, so its init  *)
(* runs after that one and before main.                                  *)
Init ==
  /\ stage = "xxhinit"
  /\ cpu \in Cpus
  /\ envSeed = Zero
  /\ seed = NoSeed
  /\ useAvx2 = FALSE /\ useNeon = FALSE
  /\ call = NoCall

(* xxhash64's init: XXH = &XXHash64{seed: *ENV.XXHASH_SEED}, then       *)
(* C.xxhash64_init().                                                    *)
PackageInit ==
  /\ stage = "xxhinit"
  /\ seed' = envSeed
  /\ useAvx2' = CpuSupportsAvx2(cpu)
  /\ useNeon' = CpuSupportsNeon(cpu)
  /\ stage' = "main"
  /\ UNCHANGED <<cpu, envSeed, call>>

(* main: envhandler.ENV.LoadENVs() stores HKV_XXHASH_SEED, when it is   *)
(* set and parses, in *ENV.XXHASH_SEED (an unparsable value is fatal).  *)
LoadENVs ==
  /\ stage = "main"
  /\ \/ \E v \in EnvSeeds : envSeed' = v
     \/ UNCHANGED envSeed
  /\ stage' = "ready"
  /\ UNCHANGED <<cpu, seed, useAvx2, useNeon, call>>

(* The value a hash method returns: 0 for an empty key (the Go check), *)
(* else the C hash xxhash64_seed with the seed passed down.               *)
HashOf(s, sd) ==
  IF Len(s) = 0 THEN Zero ELSE XXHash64Seed(s, sd, cpu.arch, useAvx2, useNeon)

(* Mutant: a hash taken before package init has set XXH.seed.          *)
HashStringEarly(s) ==
  /\ call' = [input |-> s, seed |-> seed]
  /\ UNCHANGED <<stage, cpu, envSeed, seed, useAvx2, useNeon>>

(* HashString / HashBytes / Sum64: the hash with XXH.seed.               *)
(* HashMap.getIndex calls HashString for every key.  A call is recorded  *)
(* with its arguments; its result is HashOf of them.                     *)
HashString(s) ==
  /\ stage = "ready"
  /\ call' = [input |-> s, seed |-> seed]
  /\ UNCHANGED <<stage, cpu, envSeed, seed, useAvx2, useNeon>>

(* HashStringSeed / HashBytesSeed / Sum64Seed: with a seed of the       *)
(* caller's.                                                             *)
HashStringSeed(s, sd) ==
  /\ stage = "ready"
  /\ call' = [input |-> s, seed |-> sd]
  /\ UNCHANGED <<stage, cpu, envSeed, seed, useAvx2, useNeon>>

Next ==
  \/ PackageInit \/ LoadENVs
  \/ \E s \in Inputs : HashString(s)
  \/ \E s \in Inputs, sd \in Seeds : HashStringSeed(s, sd)

Spec == Init /\ [][Next]_xxVars

-----------------------------------------------------------------------------
(* Published XXH64 values (seed 0) of the test strings of the xxHash     *)
(* reference, as byte tuples: "a", "abc" and the 39-byte                  *)
(* "Nobody inspects the spammish repetition" (the constant Published).   *)

(* The reference: a published value where there is one, otherwise the   *)
(* scalar path, which the published values pin down.                     *)
XXH64(buf, sd) ==
  IF buf \in DOMAIN Published /\ sd = Zero THEN Published[buf] ELSE ScalarSeed(buf, sd)


(* Every non-empty key hashes to XXH64 of its bytes with the seed used,  *)
(* whichever path xxhash64_init chose on the machine: the AVX2 lanes,    *)
(* its 32x32 multiply and its unrolled loop, and the NEON lane pairs     *)
(* compute what the scalar code computes.                                *)
HashIsXXH64 ==
  call # NoCall /\ Len(call.input) > 0 =>
    HashOf(call.input, call.seed) = XXH64(call.input, call.seed)

=============================================================================
