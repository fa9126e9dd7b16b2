CONSTANTS
  Chains = {c1}
  Tokens = {t1, t2, t3}
  Requests = {q1, q2}
  NoToken = NoToken
  MaxSecond = 1
SPECIFICATION Spec
INVARIANT ReuseRevokesChain
