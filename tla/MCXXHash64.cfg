CONSTANTS
  NoSeed = NoSeed
  NoCall = NoCall
  Inputs <- MCInputs
  Published <- MCPublished
  Seeds <- MCSeeds
  EnvSeeds <- MCEnvSeeds
  Cpus <- MCCpus
SPECIFICATION Spec
INVARIANT TypeOK
INVARIANT HashIsXXH64
