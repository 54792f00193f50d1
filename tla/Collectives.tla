---------------------------- MODULE Collectives -----------------------------
(***************************************************************************)
(* The collective operations of one MPI communicator, as the ranks of      *)
(* vtk-h see them.  Collectives are matched by the order in which a rank   *)
(* enters them: the i-th call of a rank belongs with the i-th call of      *)
(* every other.  A call is recorded with its site, the place in the code   *)
(* it is made from, and the value the rank contributes.  MPI promises      *)
(* nothing when the i-th calls differ; here such a call never returns.     *)
(***************************************************************************)
EXTENDS Integers, Sequences

CONSTANTS
  Ranks,     \* ranks of the communicator
  Root,      \* root of the rooted collectives
  ToRoot,    \* sites of MPI_Gather(v): only the root waits for the others
  FromRoot   \* sites of MPI_Scatterv: the others only wait for the root

VARIABLES
  calls,     \* calls[r]: the calls rank r has entered
  inCall     \* inCall[r]: rank r is inside its last call

collectiveVars == <<calls, inCall>>

CollectivesInit ==
  /\ calls = [r \in Ranks |-> <<>>]
  /\ inCall = [r \in Ranks |-> FALSE]

Enter(r, site, value) ==
  /\ ~inCall[r]
  /\ calls' = [calls EXCEPT ![r] = Append(@, [site |-> site, value |-> value])]
  /\ inCall' = [inCall EXCEPT ![r] = TRUE]

(* The call rank r is in has been entered by rank s as well. *)
Joined(s, r) ==
  /\ Len(calls[s]) >= Len(calls[r])
  /\ calls[s][Len(calls[r])].site = calls[r][Len(calls[r])].site

(* The ranks whose contribution the call of rank r needs. *)
Awaited(r, site) ==
  IF site \in ToRoot /\ r # Root THEN {r}
  ELSE IF site \in FromRoot THEN {r, Root}
  ELSE Ranks

Return(r, site) ==
  /\ inCall[r]
  /\ calls[r][Len(calls[r])].site = site
  /\ \A s \in Awaited(r, site) : Joined(s, r)
  /\ inCall' = [inCall EXCEPT ![r] = FALSE]
  /\ UNCHANGED calls

(* What the ranks contribute to the call rank r is in. *)
Contributed(r) ==
  [s \in {q \in Ranks : Joined(q, r)} |-> calls[s][Len(calls[r])].value]

-----------------------------------------------------------------------------
(* Whenever two ranks have both made an i-th call, it is the same one. *)
CallsMatch ==
  \A r, s \in Ranks :
    \A i \in DOMAIN calls[r] \cap DOMAIN calls[s] :
      calls[r][i].site = calls[s][i].site
=============================================================================
