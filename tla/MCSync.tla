------------------------------- MODULE MCSync -------------------------------
(***************************************************************************)
(* The synchronization examples together: Sema and SpinDead.  They share   *)
(* no state, so that a behaviour of both is one of each; to keep the       *)
(* states of one from being multiplied by those of the other, example says *)
(* which of them runs.                                                     *)
(***************************************************************************)
EXTENDS Sema

CONSTANT NCpus

VARIABLES example, loader, cpu, spinPc, wrong_lock, spinCount

Spin == INSTANCE SpinDead WITH pc <- spinPc, count <- spinCount

ASSUME SyncAssumption == SemaAssumption /\ Spin!SpinAssumption

spinVars == <<loader, cpu, spinPc, wrong_lock, spinCount>>

SyncInit ==
  /\ example \in {"sema", "spindead"}
  /\ Init /\ Spin!Init

SyncNext ==
  \/ example = "sema" /\ Next /\ UNCHANGED <<example, spinVars>>
  \/ example = "spindead" /\ Spin!Next /\ UNCHANGED <<example, vars>>

SyncSpec ==
  /\ SyncInit /\ [][SyncNext]_<<example, vars, spinVars>>
  /\ Fairness /\ Spin!Fairness

\* While the first spintest_fn() sleeps no other gets past spin_lock(); see
\* SpinDead.
SleeperBlocksAll == Spin!SleeperBlocksAll

\* Once it is woken, every spintest_fn() comes to its end; see SpinDead.
WakingFreesAll == Spin!WakingFreesAll
=============================================================================
