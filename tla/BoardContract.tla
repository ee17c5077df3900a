----------------------------- MODULE BoardContract -----------------------------
(***************************************************************************)
(* What the board promises, as its file shows it: a cell has at most one   *)
(* accepted submission in a generation, an acceptance is never taken back, *)
(* and a snapshot of a generation never changes, holds accepted            *)
(* submissions only, and lacks none of the agents it was asked to wait for.*)
(***************************************************************************)
CONSTANTS
  Actions,      \* ids of the submissions
  Agents,
  Generations,
  AgentOf,      \* who submits, for an id
  GenerationOf, \* and for which generation
  NoSnapshot

VARIABLES
  accepted,     \* the submissions that are accepted
  frozen        \* per generation, its snapshot
vars == <<accepted, frozen>>

Snapshot == [expected : SUBSET Agents, cells : SUBSET Actions]

Init ==
  /\ accepted = {}
  /\ frozen = [g \in Generations |-> NoSnapshot]

OnePerCell(submissions) ==
  \A a, b \in submissions :
    AgentOf[a] = AgentOf[b] /\ GenerationOf[a] = GenerationOf[b] => a = b

(* What a cell that was waited for submitted is in the snapshot. *)
Complete(g, snapshot, submissions) ==
  /\ snapshot.cells \subseteq {a \in submissions : GenerationOf[a] = g}
  /\ snapshot.expected \subseteq {AgentOf[a] : a \in snapshot.cells}
  /\ \A a \in submissions :
       GenerationOf[a] = g /\ AgentOf[a] \in snapshot.expected => a \in snapshot.cells

(* One write of the file may bring several acceptances and snapshots. *)
Save ==
  /\ accepted \subseteq accepted'
  /\ accepted' \in SUBSET Actions
  /\ OnePerCell(accepted')
  /\ frozen' \in [Generations -> Snapshot \cup {NoSnapshot}]
  /\ \A g \in Generations :
       /\ frozen[g] # NoSnapshot => frozen'[g] = frozen[g]
       /\ frozen'[g] # NoSnapshot => Complete(g, frozen'[g], accepted')

Spec == Init /\ [][Save]_vars
=============================================================================
