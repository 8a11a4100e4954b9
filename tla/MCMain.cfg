\* Every command line of up to three options.
SPECIFICATION FairSpec
CONSTANTS
  Characters <- MCCharacters
  Argvs <- MCArgvs
  WildIds <- MCWildIds
  CharIsSigned = TRUE
INVARIANTS
  TypeOK
  AllErrorsReported
  ThrowNeedsBadFlag
  PrintedAsAsked
PROPERTY Terminates
