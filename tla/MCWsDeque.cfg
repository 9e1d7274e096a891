SPECIFICATION Spec
CONSTANTS
  Thieves = {h1, h2}
  Cap = 2
  Word = 16
  Seed = 1
  MaxWaiting = 2
  MaxTasks = 5
SYMMETRY ThiefSymmetry
INVARIANTS TypeOK ExactlyOnce
PROPERTY Linearizable
