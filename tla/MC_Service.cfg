\* Nobody is obliged to arrive at the turnstile or to switch sync on: a state
\* without successors is no deadlock.
SPECIFICATION ServiceSpec
CONSTANTS
  Writers = {w1, w2, w3}
  MaxTickets = 6
  MaxSpawns = 2
  MaxWork = 1
  MaxLaneFaults = 1
INVARIANTS OneTurn LanesClean
PROPERTIES ServedInOrder NoStarvation LanesLive
CHECK_DEADLOCK FALSE
