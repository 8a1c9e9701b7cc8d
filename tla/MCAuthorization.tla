-------------------------- MODULE MCAuthorization --------------------------
(***************************************************************************)
(* What was once authorized and is withdrawn, for TLC: Enrollment          *)
(* (consents, voiceprints and their use) and AuthSessions (logins).        *)
(*                                                                         *)
(* The two have no variable in common, and no property looks at both, so   *)
(* one runs while the other one has not started: an interleaving of their  *)
(* steps would show nothing more.                                          *)
(***************************************************************************)
EXTENDS Enrollment, AuthSessions, TLC

AuthorizationInit == Init /\ AuthInit
AuthorizationNext ==
  \/ Next /\ AuthInit /\ UNCHANGED authVars
  \/ AuthNext /\ Init /\ UNCHANGED vars
AuthorizationSpec == AuthorizationInit /\ [][AuthorizationNext]_<<vars, authVars>>

Symmetry ==
  Permutations(Consents) \cup Permutations(Voiceprints)
    \cup Permutations(Sessions) \cup Permutations(Requests) \cup Permutations(Tokens)
=============================================================================
