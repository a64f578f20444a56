SPECIFICATION Spec
CONSTANTS
  p = p
  q = q
  o = o
  c = c
  i1 = i1
  i2 = i2
  r = r
  R = R
  C = C
  T = T
  I = I
  J = J
  F = F
  G = G
  Null = Null
  Block = {b1, b2, b3, b4}
  Handle <- MCHandle
  Native <- MCNative
  ClassOf <- MCClassOf
  KindOf <- MCKindOf
  HomeOf <- MCHomeOf
  Copied <- CopiesIndex
SYMMETRY BlockSymmetry
INVARIANT NoDoubleFree
