SPECIFICATION MCSpec
CONSTANTS
  ByteMod = 2
  NumRegs = 3
  BitAnd <- MCAnd
  BitOr <- MCOr
  BitXor <- MCXor
  Sll <- MCSll
  Srl <- MCSrl
  Sra <- MCSra
  AddrMod = 4
  BaseAddr = 1
  Data <- Word
  Outstanding = 1
  Responses = {TRUE}
  Pools <- BoardLoadUsePools
  StartRegs <- OneStart
  StartMems <- OneMem
INVARIANTS NothingSkipped
