--------------------------- MODULE QueueResolution ---------------------------
(***************************************************************************)
(* resolve_queues() of graphics/device.cpp, called by resolveDevice():     *)
(* from the queue requests of a DeviceDescription and the queue families   *)
(* of a capability snapshot to the native queues a Device is created with. *)
(*                                                                         *)
(* The requests are normalized and ordered so that alias targets come      *)
(* first; a bounded depth-first search retains every complete allocation;  *)
(* the retained allocations are compared by the partial order of the       *)
(* callers' preferences, and only a single maximal one is published.  One  *)
(* action is one step of the search or of the comparison, as counted by    *)
(* the search-work budget.                                                 *)
(*                                                                         *)
(* Caller ids are naturals, in the order of the strings they stand for;    *)
(* NoName is the empty string.  Families and queues count from 0.          *)
(***************************************************************************)
EXTENDS Naturals, Sequences, FiniteSets, Functions

CONSTANTS
    Inventories,        \* queue families of the capability snapshots
    Inputs,             \* the queue_requests of the DeviceDescriptions
    Flags,              \* queue flags, "protected" among them
    Priorities,         \* finite priorities in [0, 1]
    MaxRequests, MaxAllowed, MaxPreferred, MaxFamilies,   \* input limits
    MaxSolutions,       \* max_queue_resolution_retained_solutions
    MaxWork             \* max_queue_resolution_search_work

NoName == 0
Strengths == {"required", "optional"}
AliasPolicies == {"forbid_alias", "require_alias", "prefer_alias_with_distinct_fallback",
                  "prefer_distinct_with_alias_fallback"}

ASSUME QueueAssumption ==
    /\ {MaxRequests, MaxAllowed, MaxPreferred, MaxFamilies, MaxSolutions, MaxWork} \subseteq Nat
    /\ \A inventory \in Inventories :
         /\ IsFiniteSet(DOMAIN inventory)
         /\ DOMAIN inventory = 0..Cardinality(DOMAIN inventory) - 1
         /\ inventory \in [DOMAIN inventory -> [flags : SUBSET Flags, count : Nat]]
    /\ \A requests \in Inputs :
         requests \in Seq([caller_id : Nat, strength : STRING, required_flags : SUBSET Flags,
                           allowed : Seq(Nat), preferred : Seq(Nat), priority : Nat,
                           alias_policy : STRING, alias_target : Nat])

VARIABLES
    families,       \* the capability snapshot
    input,          \* the caller's requests, in the caller's order
    phase,          \* "input", "relations", "search", "compare" or "done"
    request,        \* the normalized requests by caller id
    marks,          \* validate_queue_relations: 0 unseen, 1 being visited, 2 ordered
    visiting,       \* the chain of ids being visited
    order,          \* the ids, alias targets first
    level,          \* depth of the search, order_index + 1
    pending,        \* what is left to try on each level
    choices,        \* the choice of each request so far
    used,           \* used_queue_counts
    work, limit,    \* QueueSearchBudget
    solutions,      \* the retained complete allocations
    candidate, other, stage,    \* the loops of the comparison
    maximal,        \* the undominated allocations
    result          \* the outcome; the plan when it is "resolved"

inputVars == <<families, input>>
relationVars == <<marks, visiting, order>>
searchVars == <<level, pending, choices, used, solutions>>
budgetVars == <<work, limit>>
compareVars == <<candidate, other, stage, maximal>>
vars == <<inputVars, phase, request, relationVars, searchVars, budgetVars, compareVars, result>>

Ids == DOMAIN request
Families == DOMAIN families

Declined == [accepted |-> FALSE, aliased |-> FALSE, family |-> 0, queue |-> 0]
Distinct(choice) == choice.accepted /\ ~choice.aliased
SameCoordinate(a, b) == a.accepted /\ b.accepted /\ a.family = b.family /\ a.queue = b.queue

NoPlan == [decisions |-> <<>>, allocations |-> {}]
Failed(kind) == [kind |-> kind, plan |-> NoPlan]

-----------------------------------------------------------------------------
(* Input limits, normalization and relations                               *)

BeyondInputLimits ==
    \/ Len(input) > MaxRequests
    \/ Cardinality(Families) > MaxFamilies
    \/ \E k \in DOMAIN input : \/ Len(input[k].allowed) > MaxAllowed
                               \/ Len(input[k].preferred) > MaxPreferred

\* normalize_queue_request refuses r.
Malformed(r) ==
    \/ r.caller_id = NoName
    \/ r.required_flags = {} \/ "protected" \in r.required_flags
    \/ r.priority \notin Priorities
    \/ ~IsInjective(r.allowed) \/ ~IsInjective(r.preferred)
    \/ r.allowed # <<>> /\ ~(Range(r.preferred) \subseteq Range(r.allowed))
    \/ r.strength \notin Strengths \/ r.alias_policy \notin AliasPolicies
    \/ IF r.alias_policy = "forbid_alias" THEN r.alias_target # NoName
                                          ELSE r.alias_target \in {NoName, r.caller_id}

InputIds == {input[k].caller_id : k \in DOMAIN input}

\* Two requests of one id, or an alias target nobody has.
Contradictory ==
    \/ \E k, m \in DOMAIN input : k # m /\ input[k].caller_id = input[m].caller_id
    \/ \E k \in DOMAIN input : input[k].alias_target \notin InputIds \cup {NoName}

InputError ==
    IF BeyondInputLimits THEN "limit"
    ELSE IF \E k \in DOMAIN input : Malformed(input[k]) THEN "invalid"
    ELSE IF Contradictory THEN "contradictory"
    ELSE "none"

Fail(kind) == phase' = "done" /\ result' = Failed(kind)

ReadInput ==
    /\ phase = "input"
    /\ \/ /\ InputError # "none"
          /\ Fail(InputError)
          /\ UNCHANGED <<request, marks>>
       \/ /\ InputError = "none"
          /\ phase' = "relations"
          /\ request' = [c \in InputIds |->
                            input[CHOOSE k \in DOMAIN input : input[k].caller_id = c]]
          /\ marks' = [c \in InputIds |-> 0]
          /\ UNCHANGED result
    /\ UNCHANGED <<inputVars, visiting, order, searchVars, budgetVars, compareVars>>

Target(c) == request[c].alias_target

\* The next id of the canonical order is visited.
VisitRoot ==
    /\ phase = "relations" /\ visiting = <<>>
    /\ \E c \in Ids : /\ marks[c] = 0
                      /\ \A d \in Ids : marks[d] = 0 => c <= d
                      /\ visiting' = <<c>>
                      /\ marks' = [marks EXCEPT ![c] = 1]
    /\ UNCHANGED <<inputVars, phase, request, order, searchVars, budgetVars, compareVars, result>>

Visited == visiting[Len(visiting)]

VisitTarget ==
    /\ phase = "relations" /\ visiting # <<>>
    /\ Target(Visited) # NoName
    /\ marks[Target(Visited)] = 0
    /\ visiting' = Append(visiting, Target(Visited))
    /\ marks' = [marks EXCEPT ![Target(Visited)] = 1]
    /\ UNCHANGED <<inputVars, phase, request, order, searchVars, budgetVars, compareVars, result>>

CycleFound ==
    /\ phase = "relations" /\ visiting # <<>>
    /\ Target(Visited) # NoName
    /\ marks[Target(Visited)] = 1
    /\ Fail("contradictory")
    /\ UNCHANGED <<inputVars, request, relationVars, searchVars, budgetVars, compareVars>>

AppendToOrder ==
    /\ phase = "relations" /\ visiting # <<>>
    /\ Target(Visited) # NoName => marks[Target(Visited)] = 2
    /\ marks' = [marks EXCEPT ![Visited] = 2]
    /\ order' = Append(order, Visited)
    /\ visiting' = SubSeq(visiting, 1, Len(visiting) - 1)
    /\ UNCHANGED <<inputVars, phase, request, searchVars, budgetVars, compareVars, result>>

-----------------------------------------------------------------------------
(* The depth-first search                                                  *)

Leaf == [do |-> "leaf", family |-> 0]
Alias == [do |-> "alias", family |-> 0]
Inspect == [do |-> "inspect", family |-> 0]
Decline == [do |-> "decline", family |-> 0]
Take(f) == [do |-> "take", family |-> f]

\* What search_queue_solutions tries for c, in order.
Attempts(c) ==
    (CASE request[c].alias_policy = "forbid_alias" -> <<Inspect>>
       [] request[c].alias_policy = "require_alias" -> <<Alias>>
       [] request[c].alias_policy = "prefer_alias_with_distinct_fallback" -> <<Alias, Inspect>>
       [] request[c].alias_policy = "prefer_distinct_with_alias_fallback" -> <<Inspect, Alias>>)
    \o (IF request[c].strength = "optional" THEN <<Decline>> ELSE <<>>)

\* The call search_queue_solutions(..., order_index = l - 1, ...).
Call(l) ==
    IF limit THEN <<>> ELSE IF l > Len(order) THEN <<Leaf>> ELSE Attempts(order[l])

SearchBegins ==
    /\ phase = "relations" /\ visiting = <<>>
    /\ \A c \in Ids : marks[c] = 2
    /\ phase' = "search"
    /\ level' = 1
    /\ pending' = [l \in 1..Len(order) + 1 |-> IF l = 1 THEN Call(1) ELSE <<>>]
    /\ choices' = [c \in Ids |-> Declined]
    /\ used' = [f \in Families |-> 0]
    /\ UNCHANGED <<inputVars, request, relationVars, budgetVars, solutions, compareVars, result>>

\* Variant: running out of work ends the branch and is forgotten.
OutOfWorkSilently(n) == work + n > MaxWork /\ work' = MaxWork /\ UNCHANGED limit

\* QueueSearchBudget::consume, n times.
Consume(n) == work + n <= MaxWork /\ work' = work + n /\ UNCHANGED limit
OutOfWork(n) == work + n > MaxWork /\ work' = MaxWork /\ limit' = TRUE

Searching(task) ==
    /\ phase = "search"
    /\ pending[level] # <<>>
    /\ Head(pending[level]).do = task

Done == [pending EXCEPT ![level] = Tail(@)]
Current == order[level]

\* visit(choice)
Visit(choice) ==
    \/ /\ Consume(1)
       /\ choices' = [choices EXCEPT ![Current] = choice]
       /\ used' = IF Distinct(choice) THEN [used EXCEPT ![choice.family] = @ + 1] ELSE used
       /\ level' = level + 1
       /\ pending' = [Done EXCEPT ![level + 1] = Call(level + 1)]
    \/ /\ OutOfWork(1)
       /\ pending' = Done
       /\ UNCHANGED <<choices, used, level>>

Supports(f, r) == f \in Families /\ r.required_flags \subseteq families[f].flags

\* Family f is one of those r may use.
Suits(f, r) ==
    /\ Supports(f, r)
    /\ r.allowed = <<>> \/ f \in Range(r.allowed)

\* first_free_queue
HasFreeQueue(f) == f \in Families /\ used[f] < families[f].count

\* can_alias and alias_target_compatible
CanAlias(c) ==
    /\ Target(c) # NoName
    /\ choices[Target(c)].accepted
    /\ Suits(choices[Target(c)].family, request[c])
    /\ request[Target(c)].priority = request[c].priority

TryAlias ==
    /\ Searching("alias")
    /\ \/ CanAlias(Current) /\ Visit([choices[Target(Current)] EXCEPT !.aliased = TRUE])
       \/ ~CanAlias(Current) /\ pending' = Done /\ UNCHANGED <<choices, used, level, budgetVars>>
    /\ UNCHANGED <<inputVars, phase, request, relationVars, solutions, compareVars, result>>

\* The elements of seq that are in set, in the order of seq.
Kept(seq, set) ==
    LET kept[n \in 0..Len(seq)] ==
            IF n = 0 THEN <<>>
            ELSE IF seq[n] \in set THEN Append(kept[n - 1], seq[n]) ELSE kept[n - 1]
    IN  kept[Len(seq)]

\* candidate_families looks at every preferred family and at every family.
Inspected(r) ==
    r.preferred \o Kept([k \in 1..Cardinality(Families) |-> k - 1], Families \ Range(r.preferred))

Candidates(r) == Kept(Inspected(r), {f \in Families : Suits(f, r) /\ HasFreeQueue(f)})

InspectFamilies ==
    LET r == request[Current]
        cost == Len(r.preferred) + Cardinality(Families)
        takes == [k \in DOMAIN Candidates(r) |-> Take(Candidates(r)[k])]
    IN  /\ Searching("inspect")
        /\ \/ Consume(cost) /\ pending' = [pending EXCEPT ![level] = takes \o Tail(@)]
           \/ OutOfWork(cost) /\ pending' = Done
        /\ UNCHANGED <<inputVars, phase, request, relationVars, level, choices, used,
                       solutions, compareVars, result>>

TakeFamily ==
    LET f == Head(pending[level]).family
    IN  /\ Searching("take")
        /\ \/ /\ HasFreeQueue(f)
              /\ Visit([accepted |-> TRUE, aliased |-> FALSE, family |-> f, queue |-> used[f]])
           \/ ~HasFreeQueue(f) /\ pending' = Done /\ UNCHANGED <<choices, used, level, budgetVars>>
        /\ UNCHANGED <<inputVars, phase, request, relationVars, solutions, compareVars, result>>

TryDecline ==
    /\ Searching("decline")
    /\ Visit(Declined)
    /\ UNCHANGED <<inputVars, phase, request, relationVars, solutions, compareVars, result>>

Retain ==
    /\ Searching("leaf")
    /\ pending' = Done
    /\ \/ OutOfWork(1) /\ UNCHANGED solutions
       \/ /\ Len(solutions) < MaxSolutions
          /\ Consume(1)
          /\ solutions' = Append(solutions, choices)
       \/ /\ Len(solutions) >= MaxSolutions
          /\ work < MaxWork /\ work' = work + 1 /\ limit' = TRUE
          /\ UNCHANGED solutions
    /\ UNCHANGED <<inputVars, phase, request, relationVars, level, choices, used, compareVars, result>>

\* The previous level's visit() undoes its choice.
Return ==
    LET c == order[level - 1]
    IN  /\ phase = "search" /\ level > 1 /\ pending[level] = <<>>
        /\ level' = level - 1
        /\ used' = IF Distinct(choices[c]) THEN [used EXCEPT ![choices[c].family] = @ - 1] ELSE used
        /\ choices' = [choices EXCEPT ![c] = Declined]
        /\ UNCHANGED <<inputVars, phase, request, relationVars, pending, budgetVars, solutions,
                       compareVars, result>>

SearchEnds ==
    /\ phase = "search" /\ level = 1 /\ pending[1] = <<>>
    /\ \/ limit /\ Fail("limit")
       \/ ~limit /\ solutions = <<>> /\ Fail("insufficient")
       \/ ~limit /\ solutions # <<>> /\ phase' = "compare" /\ UNCHANGED result
    /\ UNCHANGED <<inputVars, request, relationVars, searchVars, budgetVars, compareVars>>

-----------------------------------------------------------------------------
(* The partial order of complete allocations                               *)

Position(seq, x) == CHOOSE k \in DOMAIN seq : seq[k] = x

\* compare_family_order: the preferred list, then all others alike.
FamilyOrder(r, f, g) ==
    LET listed(x) == x \in Range(r.preferred)
    IN  IF f = g \/ (~listed(f) /\ ~listed(g)) THEN "equal"
        ELSE IF listed(f) # listed(g) THEN IF listed(f) THEN "better" ELSE "worse"
        ELSE IF Position(r.preferred, f) < Position(r.preferred, g) THEN "better" ELSE "worse"

\* compare_alias_policy
AliasOrder(r, left, right) ==
    IF left = right THEN "equal"
    ELSE IF left = (r.alias_policy \in {"prefer_alias_with_distinct_fallback", "require_alias"})
      THEN "better" ELSE "worse"

\* Variant: the target of an alias counts as a competitor for its queue.
TakenByAnotherAliases(solution, c, choice) ==
    \E d \in Ids \ {c} : SameCoordinate(solution[d], choice)

\* coordinate_used_by_another_request
TakenByAnother(solution, c, choice) ==
    /\ Distinct(choice)
    /\ \E d \in Ids \ {c} : SameCoordinate(solution[d], choice)

\* What accepting c in one allocation is worth against declining it in the other.
AcceptanceOrder(c, accepting, declining) ==
    IF request[c].strength = "required" THEN "better"
    ELSE IF TakenByAnother(declining, c, accepting[c]) THEN "incomparable"
    ELSE "better"

Opposite(preference) ==
    CASE preference = "better" -> "worse"
      [] preference = "worse" -> "better"
      [] OTHER -> preference

\* Variant: a better family makes up for an unwanted alias.
CombinedFamilyFirst(family, alias) == IF family = "equal" THEN alias ELSE family

Combined(family, alias) ==
    CASE family = alias -> family
      [] family = "equal" -> alias
      [] alias = "equal" -> family
      [] OTHER -> "incomparable"

\* compare_queue_choices
Preference(c, left, right) ==
    CASE ~left[c].accepted /\ ~right[c].accepted -> "equal"
      [] left[c].accepted /\ ~right[c].accepted -> AcceptanceOrder(c, left, right)
      [] ~left[c].accepted /\ right[c].accepted -> Opposite(AcceptanceOrder(c, right, left))
      [] OTHER -> Combined(FamilyOrder(request[c], left[c].family, right[c].family),
                           AliasOrder(request[c], left[c].aliased, right[c].aliased))

Objections(left, right) ==
    {c \in Ids : Preference(c, left, right) \in {"worse", "incomparable"}}

\* solution_dominates, and how many requests it compares to find out.
Dominates(left, right) ==
    /\ Objections(left, right) = {}
    /\ \E c \in Ids : Preference(c, left, right) = "better"

UpToFirst(stops) ==
    Cardinality(IF stops = {} THEN Ids ELSE {c \in Ids : \A d \in stops : c <= d})

DominanceWork(left, right) == UpToFirst(Objections(left, right))

\* solution_same_choices
Differences(left, right) == {c \in Ids : left[c] # right[c]}
SameWork(left, right) == UpToFirst(Differences(left, right))

-----------------------------------------------------------------------------
(* The search for the maximal allocations                                  *)

Against(next) == candidate' = next /\ other' = 1 /\ stage' = "dominance"

Comparing(s) == phase = "compare" /\ stage = s /\ candidate <= Len(solutions)

CompareUnchanged == <<inputVars, request, relationVars, searchVars>>

\* Variant: the loop goes on without counting.
SkipItselfForever == Comparing("dominance") /\ other = candidate /\ UNCHANGED vars

SkipItself ==
    /\ Comparing("dominance") /\ other = candidate
    /\ other' = other + 1
    /\ UNCHANGED <<CompareUnchanged, phase, budgetVars, candidate, stage, maximal, result>>

CompareNext ==
    LET left == solutions[other]
        right == solutions[candidate]
    IN  /\ Comparing("dominance") /\ other <= Len(solutions) /\ other # candidate
        /\ \/ /\ OutOfWork(DominanceWork(left, right))
              /\ Fail("limit")
              /\ UNCHANGED <<candidate, other, stage>>
           \/ /\ Consume(DominanceWork(left, right))
              /\ \/ Dominates(left, right) /\ Against(candidate + 1)
                 \/ ~Dominates(left, right) /\ other' = other + 1 /\ UNCHANGED <<candidate, stage>>
              /\ UNCHANGED <<phase, result>>
        /\ UNCHANGED <<CompareUnchanged, maximal>>

Undominated ==
    /\ Comparing("dominance") /\ other > Len(solutions)
    /\ stage' = "duplicate" /\ other' = 1
    /\ UNCHANGED <<CompareUnchanged, phase, budgetVars, candidate, maximal, result>>

CompareDuplicate ==
    LET left == maximal[other]
        right == solutions[candidate]
    IN  /\ Comparing("duplicate") /\ other <= Len(maximal)
        /\ \/ /\ OutOfWork(SameWork(left, right))
              /\ Fail("limit")
              /\ UNCHANGED <<candidate, other, stage>>
           \/ /\ Consume(SameWork(left, right))
              /\ \/ left = right /\ Against(candidate + 1)
                 \/ left # right /\ other' = other + 1 /\ UNCHANGED <<candidate, stage>>
              /\ UNCHANGED <<phase, result>>
        /\ UNCHANGED <<CompareUnchanged, maximal>>

KeepMaximal ==
    /\ Comparing("duplicate") /\ other > Len(maximal)
    /\ maximal' = Append(maximal, solutions[candidate])
    /\ Against(candidate + 1)
    /\ UNCHANGED <<CompareUnchanged, phase, budgetVars, result>>

-----------------------------------------------------------------------------
(* The outcome                                                             *)

SupportsAnywhere(r) ==
    \E f \in (IF r.allowed = <<>> THEN Families ELSE Range(r.allowed)) : Supports(f, r)

\* Accepted requests: why, and where the choice came from.
AcceptedReason(c, choice, selected) ==
    LET r == request[c]
        clash == /\ Target(c) # NoName
                 /\ selected[Target(c)].accepted
                 /\ selected[Target(c)].family = choice.family
                 /\ request[Target(c)].priority # r.priority
    IN  IF choice.aliased THEN [reason |-> "accepted_by_aliasing", provenance |-> "alias"]
        ELSE IF clash THEN [reason |-> "conflicting_priority", provenance |-> r.strength]
        ELSE IF choice.family \in Range(r.preferred)
          THEN [reason |-> "preferred_family", provenance |-> "preferred_family"]
        ELSE IF r.preferred # <<>>
          THEN [reason |-> "fallback_family", provenance |-> "fallback_family"]
        ELSE [reason |-> "requested", provenance |-> r.strength]

DeclinedReason(c, selected) ==
    LET r == request[c]
        clash == /\ selected[Target(c)].accepted
                 /\ Suits(selected[Target(c)].family, r)
                 /\ request[Target(c)].priority # r.priority
    IN  [provenance |-> r.strength,
         reason |-> IF Target(c) # NoName
                      THEN IF clash THEN "conflicting_priority" ELSE "insufficient_queue_count"
                    ELSE IF SupportsAnywhere(r) THEN "insufficient_queue_count"
                    ELSE "unsupported"]

\* Variant: every accepted request gets a native queue of its own.
HoldersAlone(selected, holder) == {holder}

\* The requests that share the queue of holder.
Holders(selected, holder) == {c \in Ids : SameCoordinate(selected[c], selected[holder])}

\* One native queue per coordinate, at the priority of the first of its requests.
Allocations(selected) ==
    {LET callers == Holders(selected, holder)
         first == CHOOSE c \in callers : \A d \in callers : c <= d
     IN  [family |-> selected[holder].family, queue |-> selected[holder].queue,
          priority |-> request[first].priority, callers |-> callers] :
     holder \in {c \in Ids : selected[c].accepted}}

Plan(selected) ==
    [decisions |-> [c \in Ids |->
        [choice |-> selected[c],
         why |-> IF selected[c].accepted THEN AcceptedReason(c, selected[c], selected)
                                         ELSE DeclinedReason(c, selected)]],
     allocations |-> Allocations(selected)]

Decide ==
    /\ phase = "compare" /\ candidate > Len(solutions)
    /\ \/ Len(maximal) # 1 /\ Fail("ambiguous")
       \/ Len(maximal) = 1 /\ Allocations(maximal[1]) = {} /\ Fail("insufficient")
       \/ /\ Len(maximal) = 1 /\ Allocations(maximal[1]) # {}
          /\ phase' = "done"
          /\ result' = [kind |-> "resolved", plan |-> Plan(maximal[1])]
    /\ UNCHANGED <<inputVars, request, relationVars, searchVars, budgetVars, compareVars>>

-----------------------------------------------------------------------------
Init ==
    /\ families \in Inventories
    /\ input \in Inputs
    /\ phase = "input"
    /\ request = <<>> /\ marks = <<>> /\ visiting = <<>> /\ order = <<>>
    /\ level = 0 /\ pending = <<>> /\ choices = <<>> /\ used = <<>> /\ solutions = <<>>
    /\ work = 0 /\ limit = FALSE
    /\ candidate = 1 /\ other = 1 /\ stage = "dominance" /\ maximal = <<>>
    /\ result = Failed("none")

Relations == VisitRoot \/ VisitTarget \/ CycleFound \/ AppendToOrder
Search == \/ SearchBegins \/ TryAlias \/ InspectFamilies \/ TakeFamily \/ TryDecline
          \/ Retain \/ Return \/ SearchEnds
Compare == SkipItself \/ CompareNext \/ Undominated \/ CompareDuplicate \/ KeepMaximal

Next == ReadInput \/ Relations \/ Search \/ Compare \/ Decide

Spec == Init /\ [][Next]_vars

\* The resolver is a plain call: it runs until it returns.
FairSpec == Spec /\ WF_vars(Next)

-----------------------------------------------------------------------------
(* Properties                                                              *)

\* s hands out the queues of every family from 0 on, within its capacity, each
\* to one request, and shares them only along aliases of one priority.
Native(s) ==
    /\ \A c \in Ids : s[c].accepted =>
         /\ s[c].family \in Families /\ s[c].queue < families[s[c].family].count
         /\ \A k \in 0..s[c].queue :
              \E d \in Ids : Distinct(s[d]) /\ s[d].family = s[c].family /\ s[d].queue = k
    /\ \A c, d \in Ids : Distinct(s[c]) /\ Distinct(s[d]) /\ SameCoordinate(s[c], s[d]) => c = d
    /\ \A c, d \in Ids : SameCoordinate(s[c], s[d]) => request[c].priority = request[d].priority

\* What the callers' requests allow, stated without a search: s is complete.
Legal(s, c) ==
    LET r == request[c]
        before == {d \in Ids : /\ Position(order, d) < Position(order, c)
                               /\ Distinct(s[d]) /\ s[d].family = s[c].family}
    IN  IF ~s[c].accepted THEN r.strength = "optional"
        ELSE /\ Suits(s[c].family, r)
             /\ IF s[c].aliased
                  THEN /\ r.alias_policy # "forbid_alias"
                       /\ SameCoordinate(s[c], s[Target(c)])
                       /\ request[Target(c)].priority = r.priority
                  ELSE /\ r.alias_policy # "require_alias"
                       /\ s[c].queue = Cardinality(before)
                       /\ s[c].queue < families[s[c].family].count

Complete ==
    LET queues == UNION {{[family |-> f, queue |-> k] : k \in 0..families[f].count - 1} :
                         f \in Families}
        options == {Declined} \cup {[accepted |-> TRUE, aliased |-> a, family |-> q.family,
                                     queue |-> q.queue] : a \in BOOLEAN, q \in queues}
    IN  {s \in [Ids -> options] : \A c \in Ids : Legal(s, c)}

(* Whatever the search has undone and tried again, every allocation it      *)
(* retains is one vkCreateDevice accepts: per family contiguous queues,     *)
(* none beyond queueCount, one priority each.  Any answer but a refusal or  *)
(* a limit rests on all complete allocations, each found once, however the  *)
(* bounds were approached.                                                  *)
AnswersAreExhaustive ==
    /\ \A k \in DOMAIN solutions : Native(solutions[k])
    /\ result.kind \in {"resolved", "ambiguous"} =>
         Range(solutions) = Complete /\ IsInjective(solutions)
    /\ result.kind = "insufficient" =>
         \A s \in Complete : \A c \in Ids : ~s[c].accepted \/ solutions # <<>>

\* The preferences a request declares, as ranks: smaller is better.
FamilyRank(r, f) == IF f \in Range(r.preferred) THEN Position(r.preferred, f)
                                                ELSE Len(r.preferred) + 1
AliasRank(r, aliased) ==
    IF aliased = (r.alias_policy \in {"prefer_alias_with_distinct_fallback", "require_alias"})
      THEN 1 ELSE 2

AsGood(c, a, b) ==
    LET r == request[c]
    IN  \/ ~b.accepted
        \/ /\ a.accepted
           /\ FamilyRank(r, a.family) <= FamilyRank(r, b.family)
           /\ AliasRank(r, a.aliased) <= AliasRank(r, b.aliased)

Selected == [c \in Ids |-> result.plan.decisions[c].choice]

(* A resolved plan serves every request at least as well as any complete    *)
(* allocation does, and no other one does that too: trade-offs and ties are *)
(* ambiguous, never settled by the order in which they were found.          *)
ResolvedByPreference ==
    result.kind = "resolved" =>
        \A s \in Complete \ {Selected} :
            /\ \A c \in Ids : AsGood(c, Selected[c], s[c])
            /\ \E c \in Ids : ~AsGood(c, s[c], Selected[c])

(* The published plan creates every queue it assigns: its allocations are   *)
(* the coordinates of the accepted requests, each once, with the priority   *)
(* all its callers asked for, and no required request was declined.         *)
PlanIsNative ==
    result.kind = "resolved" =>
        /\ Native(Selected)
        /\ \A c \in Ids : request[c].strength = "required" => Selected[c].accepted
        /\ \A c \in Ids : Selected[c].accepted =>
             \E a \in result.plan.allocations :
                 /\ a.family = Selected[c].family /\ a.queue = Selected[c].queue
                 /\ c \in a.callers /\ a.priority = request[c].priority
        /\ \A a, b \in result.plan.allocations :
             a.family = b.family /\ a.queue = b.queue => a = b

(* The resolver returns, whatever the requests are.                         *)
Terminates == <>(phase = "done")

\* In s, optional c accepts a queue of its own that another request has in t.
Displaces(c, s, t) ==
    /\ request[c].strength = "optional"
    /\ Distinct(s[c]) /\ ~t[c].accepted
    /\ \E d \in Ids \ {c} : SameCoordinate(s[c], t[d])

(* An ambiguous outcome has a reason the caller can name: whichever         *)
(* allocation were chosen, another one serves some request better, is as    *)
(* good for all of them, or loses a queue to an optional request.           *)
AmbiguityIsGenuine ==
    result.kind = "ambiguous" =>
        \A s \in Complete : \E t \in Complete \ {s} :
            \/ \E c \in Ids : ~AsGood(c, s[c], t[c]) \/ Displaces(c, s, t)
            \/ \A c \in Ids : AsGood(c, t[c], s[c])
=============================================================================
