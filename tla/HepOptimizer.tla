---------------------------- MODULE HepOptimizer ----------------------------
(***************************************************************************)
(* src/optimizer/heuristic/optimizer.rs: HepOptimizer::find_best applies   *)
(* its batches in turn, each as often as its strategy allows and as long   *)
(* as a round changes the version of the graph.                            *)
(***************************************************************************)
EXTENDS Naturals, Sequences

CONSTANTS
  Batches,        \* a sequence of <<most rounds, names of rules>>
  Rewrite(_, _)   \* rule and plan -> <<the plans it may leave, does the version change>>

VARIABLES
  plan,      \* the graph, as the tree it is
  batch,     \* the batch being applied, past the last when the plan is final
  rule,      \* the rule of the batch to be tried next
  round,     \* the round of the batch, from 1
  changed    \* whether the version of the graph changed in this round

optimizerVars == <<plan, batch, rule, round, changed>>

Rules(b) == Batches[b][2]
MaxRounds(b) == Batches[b][1]

Optimize(p) ==
  /\ plan' = p /\ batch' = 1 /\ rule' = 1 /\ round' = 1 /\ changed' = FALSE

\* One rule of apply_batch.
ApplyRule ==
  /\ batch <= Len(Batches) /\ rule <= Len(Rules(batch))
  /\ \E made \in {Rewrite(Rules(batch)[rule], plan)} :
       plan' \in made[1] /\ changed' = (changed \/ made[2])
  /\ rule' = rule + 1
  /\ UNCHANGED <<batch, round>>

\* The batch again while it changes something, else the next one.
EndOfRound ==
  /\ batch <= Len(Batches) /\ rule > Len(Rules(batch))
  /\ rule' = 1 /\ changed' = FALSE
  /\ \/ changed /\ round < MaxRounds(batch) /\ round' = round + 1 /\ batch' = batch
     \/ ~(changed /\ round < MaxRounds(batch)) /\ round' = 1 /\ batch' = batch + 1
  /\ UNCHANGED plan
=============================================================================
