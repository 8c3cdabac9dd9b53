------------------------ MODULE TriggeredAutomation ------------------------
(***************************************************************************)
(* What the pipeline from trigger to contract call promises: the handler   *)
(* acts on its own only for a trigger, at most once for each, and does     *)
(* what that trigger calls for.  Triggers may be acted on in any order, or *)
(* never.                                                                  *)
(***************************************************************************)
EXTENDS Integers, Sequences, FiniteSets

Actions == {"Rebalance", "HarvestYield"}

VARIABLES
    calls,      \* what each occurrence so far calls for, or "none"
    done,       \* the occurrences acted on
    acts        \* how often each action was performed

TypeOK ==
    /\ calls \in Seq(Actions \cup {"none"})
    /\ done \subseteq DOMAIN calls
    /\ acts \in [Actions -> Nat]

Init ==
    /\ calls = <<>> /\ done = {}
    /\ acts = [a \in Actions |-> 0]

Occur(c) ==
    /\ calls' = Append(calls, c)
    /\ UNCHANGED <<done, acts>>

\* Acting may itself cause an occurrence, which calls for nothing.
Act(i) ==
    /\ i \notin done /\ calls[i] \in Actions
    /\ done' = done \cup {i}
    /\ acts' = [acts EXCEPT ![calls[i]] = @ + 1]
    /\ calls' = calls \/ calls' = Append(calls, "none")

Next ==
    \/ \E c \in Actions \cup {"none"} : Occur(c)
    \/ \E i \in DOMAIN calls : Act(i)

Spec == Init /\ [][Next]_<<calls, done, acts>>

\* Every action performed has a trigger of its own.
OneTriggerEach ==
    \A a \in Actions : acts[a] = Cardinality({i \in done : calls[i] = a})

=============================================================================
