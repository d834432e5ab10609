----------------------------- MODULE MCGitRefresh -----------------------------
(* Intents that meet in every respect: two of one resource group, one       *)
(* without a group and in the background, one with another context.         *)
EXTENDS GitRefresh

CONSTANTS Wsl, Here, There

Want(cadence, eager, group, context) ==
  [cadence |-> cadence, eager |-> eager, group |-> group, context |-> context]

SomeIntents ==
  {Want("foreground", TRUE, Wsl, Here), Want("foreground", FALSE, None, There),
   Want("background", FALSE, Wsl, Here)}
=============================================================================
