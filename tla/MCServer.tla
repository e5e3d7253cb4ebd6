------------------------------- MODULE MCServer -------------------------------
(* The tables of the server: the vault, the audit chain and its file, the        *)
(* sessions.  VaultStore keeps its own audit rows and no module reads the        *)
(* variables of another, so each is explored with the other two at rest.         *)
EXTENDS VaultStore, AuditLog, Sessions, TLC

VARIABLE focus
servervars == <<focus, vars, avars, svars>>

ServerInit ==
  /\ focus \in {"vault", "audit", "sessions"}
  /\ StoreInit /\ AuditInit /\ SessionInit
  /\ focus # "vault" => Present(entries) = {}
  /\ focus # "audit" => past = "smooth"

ServerNext ==
  \/ focus = "vault" /\ StoreNext /\ UNCHANGED <<focus, avars, svars>>
  \/ focus = "audit" /\ AuditNext /\ UNCHANGED <<focus, vars, svars>>
  \/ focus = "sessions" /\ SessionNext /\ UNCHANGED <<focus, vars, avars>>

ServerSpec == ServerInit /\ [][ServerNext]_servervars

\* Names, accounts, threads and sealed values are only compared.  The parts share their
\* model values, so that few permutations serve all three.
Symmetry == Permutations(Names \cup Emails) \cup Permutations(Ciphertexts \cup Writers \cup Workers)
              \cup Permutations(Metas)
=============================================================================
