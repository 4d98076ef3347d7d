---------------------------- MODULE MCXXHash64 -----------------------------
(***************************************************************************)
(* Inputs for checking XXHash64 with TLC.  The lengths reach every branch  *)
(* of the three paths: the empty key, each tail of xxh_finalize (single    *)
(* bytes, the 4-byte step, 8-byte words), the 32-byte stripe loop at and   *)
(* around its bound, and the AVX2 loop unrolled by 128 bytes with and      *)
(* without blocks after it.  Cpus cover AVX2 present, each of its missing  *)
(* preconditions, arm64, and an architecture with neither path.            *)
(***************************************************************************)
EXTENDS XXHash64, TLC

Msg(n) == [i \in 1..n |-> (i * 37 + 11) % 256]

A   == <<97>>
ABC == <<97, 98, 99>>
Nobody == <<78, 111, 98, 111, 100, 121, 32, 105, 110, 115, 112, 101, 99, 116,
            115, 32, 116, 104, 101, 32, 115, 112, 97, 109, 109, 105, 115, 104,
            32, 114, 101, 112, 101, 116, 105, 116, 105, 111, 110>>

MCInputs == {A, ABC, Nobody} \cup {Msg(n) : n \in {0, 5, 12, 31, 32, 64, 128, 161}}

MCPublished == (A :> Hex(<<\hD24E, \hC4F1, \hA98C, \h6E5B>>))
               @@ (ABC :> Hex(<<\h44BC, \h2CF5, \hAD77, \h0999>>))
               @@ (Nobody :> Hex(<<\hFBCE, \hA83C, \h8A37, \h8BF1>>))

MCSeeds == {Zero, PRIME64_3}
MCEnvSeeds == {FromNat(20)}

Cpu(a, o, x, y, z) == [arch |-> a, osxsave |-> o, avx |-> x, ymm |-> y, avx2 |-> z]
MCCpus == {Cpu("amd64", TRUE, TRUE, TRUE, TRUE), Cpu("amd64", FALSE, TRUE, TRUE, TRUE),
           Cpu("amd64", TRUE, TRUE, FALSE, TRUE), Cpu("amd64", TRUE, TRUE, TRUE, FALSE),
           Cpu("arm64", FALSE, FALSE, FALSE, FALSE), Cpu("riscv64", FALSE, FALSE, FALSE, FALSE)}
=============================================================================
