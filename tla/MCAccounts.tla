----------------------------- MODULE MCAccounts -----------------------------
(***************************************************************************)
(* Three machines around one user's row in the database, for TLC: the      *)
(* subscription, the bot's settings, the owner's console.  They share no   *)
(* variable, so every behaviour is one of them, named by `which`, while    *)
(* the others stay as they started and their states do not multiply.       *)
(***************************************************************************)
EXTENDS TLC, Billing, Account, AdminConsole

CONSTANT Machines   \* the ones a configuration explores
ASSUME MachinesAssumption == Machines \subseteq {"billing", "account", "console"}
VARIABLE which

accountsVars == <<which, billingVars, accountVars, consoleVars>>

AccountsInit ==
  /\ which \in Machines
  /\ BillingInit /\ AccountInit /\ ConsoleInit
  /\ which # "console" => eligible

AccountsNext ==
  /\ UNCHANGED which
  /\ \/ which = "billing" /\ BillingNext /\ UNCHANGED <<accountVars, consoleVars>>
     \/ which = "account" /\ AccountNext /\ UNCHANGED <<billingVars, consoleVars>>
     \/ which = "console" /\ ConsoleNext /\ UNCHANGED <<billingVars, accountVars>>

(* Subscription ids are alike, and so are venues.                          *)
Alike == Permutations(SubIds) \cup Permutations(Exchanges)

AccountsSpec == AccountsInit /\ [][AccountsNext]_accountsVars

-----------------------------------------------------------------------------
(* Every machine's state is well typed.                                    *)
AccountsTypeOK ==
  CASE which = "billing" -> BillingTypeOK
    [] which = "account" -> AccountTypeOK
    [] which = "console" -> ConsoleTypeOK
=============================================================================
