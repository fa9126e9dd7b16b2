CONSTANTS
  Chains = {c1, c2}
  Tokens = {t1, t2, t3, t4}
  Requests = {q1, q2}
  NoToken = NoToken
  MaxSecond = 1
SPECIFICATION Spec
SYMMETRY RowSymmetry
INVARIANTS TypeOK ParentRevoked RevokedChainWasAudited JWTsDistinctWhenSerial
PROPERTY RotatesWhenSerial
