\* A pair and a star of heads with reliable delivery inside each slot.
\* The model runs one cycle: convergence, revelation and one synchronization
\* phase, and stops when the nodes enter IDLE.
CONSTANTS
    BridgeHeads <- PairAndStar
    NUM_CONS_SLOTS = 3
    Lossy = FALSE
SPECIFICATION Spec
INVARIANTS TypeOK HeadsAcknowledged
CHECK_DEADLOCK FALSE
