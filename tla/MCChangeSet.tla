----------------------------- MODULE MCChangeSet -----------------------------
(* Instances of ChangeSetCommit for TLC. *)
EXTENDS ChangeSetCommit, TLC

CONSTANTS a1, a2, a3, main, daemon, session

To(from, to) == [from |-> from, to |-> to]

\* Three targets: a rewrite, a creation and a deletion, and the rewind of them.
Disk3    == <<"v0", "absent", "v0">>
Forward3 == <<To("v0", "v1"), To("absent", "v1"), To("v0", "absent")>>
Rewind3  == <<To("v1", "v0"), To("v1", "absent"), To("absent", "v0")>>
Plans3   == {Forward3, Rewind3}

\* One plan of two targets, and its rewind.
Disk2    == <<"v0", "absent">>
Forward2 == <<To("v0", "v1"), To("absent", "v1")>>
Rewind2  == <<To("v1", "v0"), To("v1", "absent")>>
Plans2   == {Forward2, Rewind2}

\* A plan of the two, and one of the first target alone.
PlansShared == {Forward2, <<To("v0", "v1")>>}

Contents == {"absent", "v0", "v1", "x"}

OneProcess == [a \in Actor |-> main]
Mixed      == (a1 :> main) @@ (a2 :> main) @@ (a3 :> daemon)
OneOwner   == [a \in Actor |-> session]
==============================================================================
