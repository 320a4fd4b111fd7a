---------------------------- MODULE DecisionLog ----------------------------
(***************************************************************************)
(* What a confidential engine and its DecisionRegistry promise together:   *)
(* one log of decisions per engine, in which entry number i is the decision*)
(* the engine gave the id i.  A log only ever grows at its end, by one     *)
(* entry per committed decision, and its entries are in block order.       *)
(* Clients of the chain (the pay-per-decision server, the verifier) rely   *)
(* on nothing else: an id, once readable, names one decision for ever.     *)
(***************************************************************************)
EXTENDS Naturals, Sequences

CONSTANTS Engines,  \* the engine contracts that write logs
          Callers,  \* the accounts that call decide()
          Blocks    \* the block numbers considered

VARIABLE log        \* log[e]: the decisions committed by engine e, by id

Entry == [caller : Callers, block : Blocks]

Init == log = [e \in Engines |-> <<>>]

\* One decision is committed: it gets the next id, and is at least as recent
\* as every decision before it.
Commit(e, entry) ==
  /\ \A i \in 1..Len(log[e]) : log[e][i].block <= entry.block
  /\ log' = [log EXCEPT ![e] = Append(@, entry)]

Next == \E e \in Engines, entry \in Entry : Commit(e, entry)

Spec == Init /\ [][Next]_log
=============================================================================
