SPECIFICATION Spec
CONSTANTS
  Others = {second}
  Commands <- MCCommands
  Granted <- MCGranted
  Unplugged = {"invoke_plugin"}
  Updates <- MCUpdates
  MaxCommands = 2
  MaxCost = 3
  Keys = {k1, k2, k3}
  NoReceipt = NoReceipt
SYMMETRY KeysAlike
INVARIANTS
  OwnershipTracked
  AppliedOnce
  WithinBudgets
  LedgerReplays
  ReceiptAccounts
PROPERTIES
  TerminalIsFinal
