SPECIFICATION Spec
INVARIANTS DataIsFresh LeavesClean BankRestored
