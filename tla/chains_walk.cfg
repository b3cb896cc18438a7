\* Three elements, one without a verifier, in two chains.
CONSTANTS
  Elements = {e1, e2, e3}
  Verifiers = {e1, e2}
  Nil = Nil
  NumChains = 2
SPECIFICATION ChainsFairSpec
INVARIANTS ChainsEnd OncePerTurn
PROPERTIES HandlerListsSpec WalkEnds
