SPECIFICATION Spec
CONSTANTS Ahead = 3  Late = 1  MaxMonth = 8
INVARIANTS RunCompletes
