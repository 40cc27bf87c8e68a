CONSTANTS
  k1 = k1  k2 = k2  k3 = k3  game = game  render = render
  Key = {k1, k2, k3}
  NoKey = NoKey
  NoData = NoData
  NoSlot = NoSlot
  max_size = 2
  User = {game, render}
  Wants <- OneShared
  Game = game
  Nobody = Nobody
SPECIFICATION FairSpec
INVARIANTS TypeOK NamesSound PointerValid
PROPERTY EventuallyDecoded
