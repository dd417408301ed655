-------------------------- MODULE MCQueueResolution --------------------------
(***************************************************************************)
(* Small instances of QueueResolution for TLC.                             *)
(***************************************************************************)
EXTENDS QueueResolution

MCFlags == {"graphics", "compute", "protected"}

Family(flags, count) == [flags |-> flags, count |-> count]
All == {"graphics", "compute"}

\* One family with one queue, with two, two families, one without graphics, none.
MCInventories ==
    {[k \in {0} |-> Family(All, 1)],
     [k \in {0} |-> Family(All, 2)],
     [k \in {0, 1} |-> Family(All, 1)],
     [k \in {0} |-> Family({"compute"}, 1)], <<>>,
     [k \in {0, 1} |-> IF k = 0 THEN Family(All, 2) ELSE Family({"compute"}, 1)]}

Demand(id, strength, families_, policy, target, priority) ==
    [caller_id |-> id, strength |-> strength,
     required_flags |-> IF id = 1 THEN {"graphics"} ELSE {"compute"},
     allowed |-> families_.allowed, preferred |-> families_.preferred,
     priority |-> priority, alias_policy |-> policy,
     alias_target |-> IF policy = "forbid_alias" THEN NoName ELSE target]

\* Anywhere; family 0 only; 0 before 1; 1 before the rest.
FamilyWishes ==
    {[allowed |-> <<>>, preferred |-> <<>>], [allowed |-> <<0>>, preferred |-> <<>>],
     [allowed |-> <<>>, preferred |-> <<0, 1>>], [allowed |-> <<>>, preferred |-> <<1>>]}
InFamily0 == [allowed |-> <<0>>, preferred |-> <<>>]
Ordered == [allowed |-> <<>>, preferred |-> <<0, 1>>]

\* Pairs of requests, in an order that is not the canonical one.
MCPairs ==
    {<<Demand(2, s2, w2, a2, 1, p), Demand(1, s1, w1, a1, 2, 1)>> :
        s1, s2 \in Strengths, w1, w2 \in FamilyWishes, p \in {1, 2},
        a1, a2 \in AliasPolicies}

\* Three requests: chains of aliases, rings, and competition for the queues.
MCTriples ==
    {<<Demand(3, s3, w3, a3, t3, 1), Demand(1, s1, InFamily0, a1, 3, 1),
       Demand(2, s2, w2, a2, 1, 1)>> :
        s1, s2, s3 \in Strengths, w2 \in {InFamily0, Ordered}, w3 \in FamilyWishes, t3 \in {1, 2},
        a1 \in {"forbid_alias", "require_alias"},
        a2 \in {"forbid_alias", "prefer_alias_with_distinct_fallback"}, a3 \in AliasPolicies}

\* One refusal of the input each.
Sound == Demand(1, "required", Ordered, "forbid_alias", NoName, 1)
Many == <<0, 1, 2, 3>>
MCRefused ==
    {<<>>, <<Sound, Sound>>,
     <<Demand(1, "required", InFamily0, "require_alias", 3, 1)>>,
     <<Demand(1, "required", InFamily0, "require_alias", 1, 1)>>,
     <<[Sound EXCEPT !.caller_id = NoName]>>, <<[Sound EXCEPT !.required_flags = {}]>>,
     <<[Sound EXCEPT !.required_flags = {"protected"}]>>, <<[Sound EXCEPT !.priority = 3]>>,
     <<[Sound EXCEPT !.preferred = <<0, 0>>]>>, <<[Sound EXCEPT !.allowed = <<0>>]>>,
     <<[Sound EXCEPT !.allowed = Many]>>, <<[Sound EXCEPT !.preferred = Many]>>,
     <<[Sound EXCEPT !.strength = "unknown"]>>, <<Sound, Sound, Sound, Sound>>}

MCInputs == MCPairs \cup MCTriples \cup MCRefused
=============================================================================
