------------------------------- MODULE MCMachine -------------------------------
(* The three programs of a machine that keep state of their own: the terminal  *)
(* interface, the self update and the key store.  They share no state, so each *)
(* is explored with the other two at rest.                                     *)
EXTENDS MCTerminal, UpdateApply, KeyStore

VARIABLE focus
vars == <<focus, tvars, uvars, kvars>>

Init ==
  /\ focus \in {"terminal", "update", "keys"}
  /\ TerminalInit /\ UpdateInit /\ KeyStoreInit
  /\ focus # "terminal" => vault = CHOOSE v \in Vaults : TRUE
  /\ focus # "keys" => \A permission \in DOMAIN may : may[permission]

Next ==
  \/ focus = "terminal" /\ TerminalNext /\ UNCHANGED <<focus, uvars, kvars>>
  \/ focus = "update" /\ UpdateNext /\ UNCHANGED <<focus, tvars, kvars>>
  \/ focus = "keys" /\ KeyStoreNext /\ UNCHANGED <<focus, tvars, uvars>>

Spec == Init /\ [][Next]_vars
=============================================================================
